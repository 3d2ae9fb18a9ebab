SPECIFICATION ScriptedSpec
CONSTANTS
  Programs <- AnyPrograms
  ScriptedPrograms <- PlannedPrograms
  Scenario <- Feedback
  Inputs <- TwoInputs
  InitialInput <- AllLow
  StopTimeout = 2
  PollDelays = {1, 10}
  DefaultPoll = 1
  Scripts <- PlannedTasks
  DisconnectOnTerminal = TRUE
  MaxTime = 7
  HostTimeLimit = 0
  ControlsUsed = {"PAUSE", "RESUME", "STOP", "ESTOP"}
  MaxControls = 2
  MaxSubmissions = 1
INVARIANTS
  ActiveCommandWatched
  StaysInProgram
  CompletedMeansAllRan
PROPERTIES
  EarnedSuccess
  PauseKeepsBudget
  TaskEnds
  PlansAreKept
CHECK_DEADLOCK FALSE
