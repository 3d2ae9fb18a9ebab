SPECIFICATION BridgeSpec
CONSTANTS
  Programs <- OneProgram
  Scenario <- NoScenario
  Inputs <- OneInput
  InitialInput <- AllLow
  StopTimeout = 1
  PollDelays = {0}
  DisconnectOnTerminal = TRUE
  MaxTime = 12
  HostTimeLimit = 0
  ControlsUsed = {"PAUSE"}
  MaxControls = 4
  MaxSubmissions = 1
  MaxGoals = 1
  MaxServices = 1
  Capacity = 2
  ShutdownLimit = 2
PROPERTIES
  CancelEndsGoal
CHECK_DEADLOCK FALSE
