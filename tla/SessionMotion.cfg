SPECIFICATION Spec
CONSTANTS
  Programs <- ShortPrograms
  Scenario <- LateLoss
  Inputs <- OneInput
  InitialInput <- AllLow
  StopTimeout = 2
  PollDelays = {1, 2}
  DisconnectOnTerminal = FALSE
  MaxTime = 4
  HostTimeLimit = 1
  ControlsUsed = {"PAUSE", "RESUME", "STOP", "ESTOP", "RESET"}
  MaxControls = 2
  MaxSubmissions = 2
INVARIANTS
  TypeOK
  WorkNeedsConnection
  StopEpisodeWatched
  StandsStill
  NoWorkUnderAlarm
  UntrustedIsFinal
PROPERTIES
  EmergencyIsConfirmed
  EmergencyFirst
  NoEscapeFromStop
  KeepsContract
CHECK_DEADLOCK FALSE
