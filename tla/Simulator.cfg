SPECIFICATION RunSpec
CONSTANTS
  Programs <- TaskPrograms
  Tasks <- TasksOfSetups
  Targets <- PickAndPlaceTargets
  Scenario <- NoScenario
  Inputs <- Names
  InitialInput <- AllLow
  StopTimeout = 1
  PollDelays = {0}
  DisconnectOnTerminal = FALSE
  MaxTime = 30
  HostTimeLimit = 0
  ControlsUsed = {"PAUSE", "RESUME", "STOP", "ESTOP", "RESET"}
  MaxControls = 2
  MaxSubmissions = 1
  SafeTimeout = 0
  DefaultPoll = 1
  MaxGeneration <- Unbounded
  MotionSteps = 2
  Travel = 2
  StableSteps = 2
  Perilous <- PerilousTasks
INVARIANTS
  SafeStateLasts
  DeviceAgrees
  VerifiedIsGenuine
PROPERTIES
  EverythingEnds
  ConfirmationIsOwn
  ReleasedOnCommand
  ToolDoesItsWork
CHECK_DEADLOCK FALSE
