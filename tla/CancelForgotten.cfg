SPECIFICATION BridgeSpec
CONSTANTS
  Programs <- OneProgram
  Scenario <- NoScenario
  Inputs <- OneInput
  InitialInput <- AllLow
  StopTimeout = 1
  PollDelays = {0}
  DisconnectOnTerminal = TRUE
  MaxTime = 12
  HostTimeLimit = 0
  ControlsUsed = {"STOP"}
  MaxControls = 4
  MaxSubmissions = 2
  MaxGoals = 2
  MaxServices = 0
  Capacity = 1
  ShutdownLimit = 2
INVARIANTS
  CancelIsUnderWay
CHECK_DEADLOCK FALSE
