SPECIFICATION BridgeSpec
CONSTANTS
  Programs <- OneProgram
  Scenario <- NoScenario
  Inputs <- OneInput
  InitialInput <- AllLow
  StopTimeout = 1
  PollDelays = {0}
  DisconnectOnTerminal = TRUE
  MaxTime = 6
  HostTimeLimit = 0
  ControlsUsed = {"STOP"}
  MaxControls = 5
  MaxSubmissions = 2
  MaxGoals = 2
  MaxServices = 1
  Capacity = 1
  ShutdownLimit = 1
INVARIANTS
  BridgeTypeOK
  GoalHasItsPlace
  ShutdownEndsGoals
PROPERTIES
  OwnResult
  CanceledWasAsked
CHECK_DEADLOCK FALSE
