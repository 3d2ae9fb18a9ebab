SPECIFICATION WorkcellSpec
CONSTANTS
  Programs <- WorkcellPrograms
  Scenario <- NoScenario
  Inputs <- OneItem
  InitialInput <- AllLow
  StopTimeout = 1
  PollDelays = {1}
  DisconnectOnTerminal = FALSE
  MaxTime = 3
  HostTimeLimit = 1
  ControlsUsed = {"PAUSE", "RESUME", "STOP", "ESTOP", "RESET"}
  MaxControls = 2
  MaxSubmissions = 1
  SafeTimeout = 0
  DefaultPoll = 1
  MaxGeneration = 1
INVARIANTS
  SafeStateAsked
  PolledUntilDeadline
PROPERTIES
  EmergencyIsSafe
  FreshEvidence
  ResetIsSafe
CHECK_DEADLOCK FALSE
