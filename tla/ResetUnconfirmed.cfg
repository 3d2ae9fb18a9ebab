SPECIFICATION Spec
CONSTANTS
  Programs <- MotionPrograms
  Scenario <- NoScenario
  Inputs <- OneInput
  InitialInput <- AllLow
  StopTimeout = 2
  PollDelays = {1}
  DisconnectOnTerminal = TRUE
  MaxTime = 12
  HostTimeLimit = 0
  ControlsUsed = {"PAUSE", "RESUME", "STOP", "ESTOP", "RESET"}
  MaxControls = 2
  MaxSubmissions = 1
PROPERTIES
  ResetNeedsConfirmedStop
CHECK_DEADLOCK FALSE
