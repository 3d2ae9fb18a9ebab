-------------------------- MODULE WorkcellSession --------------------------
(***************************************************************************)
(* A Runtime Session that also has a workcell backend (a second device:    *)
(* digital I/O, a gripper, a workpiece).  The branches of runtime.cpp for  *)
(* workcell_backend_ # nullptr; everything else is RuntimeSession.         *)
(*                                                                         *)
(* The workcell is any WorkcellBackend (workcell_backend.h): it may refuse *)
(* a command or the safe state, its snapshots may be invalid, of an old    *)
(* generation, show a collision or throw.  Only RequestSafeState and       *)
(* PollSafeState never throw, as in the implementation there is.  A        *)
(* workcell has no Mock scenario, so no event comes from outside.          *)
(***************************************************************************)
EXTENDS SessionProperties

CONSTANTS
  SafeTimeout,    \* RuntimeOptions::workcell_safe_state_timeout_ms
  DefaultPoll,    \* RuntimeOptions::default_stop_poll_ms
  MaxGeneration   \* bound: the newest generation of a snapshot, or Unbounded

Unbounded == -1

ASSUME WorkcellAssumption ==
  /\ SafeTimeout \in Nat /\ DefaultPoll \in Nat /\ MaxGeneration \in Nat \cup {Unbounded}
  /\ Scenario = <<>> /\ \A t \in Time : ScenarioAt(t) = <<>>

VARIABLES
  safeRequested,   \* workcell_safe_requested_
  safeConfirmed,   \* workcell_safe_confirmed_
  safeDeadline,    \* workcell_safe_deadline_ms_
  safeGeneration,  \* workcell_safe_generation_
  lastGeneration   \* last_workcell_generation_

safeVars == <<safeRequested, safeConfirmed, safeDeadline, safeGeneration>>
workcellVars == <<safeVars, lastGeneration>>
allVars == <<vars, workcellVars>>

NoGeneration == -1
Generations == IF MaxGeneration = Unbounded THEN Nat ELSE 0 .. MaxGeneration

(***************************************************************************)
(* What ApplyWorkcellSnapshot looks at.  "input" holds the signals and the *)
(* observed tool positions; "tool" sums up, for the tool position a        *)
(* SET_TOOL waits for, stability, grip_failed, placement_failed and the    *)
(* evidence about the workpiece: unsettled, failed or done.                *)
(***************************************************************************)
Snapshots ==
  [valid : {TRUE}, generation : Generations, input : [Inputs -> BOOLEAN],
   collision : BOOLEAN, tool : {"unsettled", "failed", "done"}] \cup {[valid |-> FALSE]}

ForgetSafeState ==
  /\ safeRequested' = FALSE /\ safeConfirmed' = FALSE
  /\ safeDeadline' = NoDeadline
  /\ safeGeneration' = NoGeneration /\ lastGeneration' = NoGeneration

WorkcellInit ==
  /\ Init
  /\ safeRequested = FALSE /\ safeConfirmed = FALSE
  /\ safeDeadline = NoDeadline
  /\ safeGeneration = NoGeneration /\ lastGeneration = NoGeneration

Quiet == UNCHANGED workcellVars

\* The safe state is asked of the workcell once; the deadline is that of the first request.
AskSafeState ==
  IF safeRequested THEN UNCHANGED safeVars
  ELSE /\ safeRequested' = TRUE
       /\ safeDeadline' = SaturatingAdd(now', SafeTimeout)
       /\ UNCHANGED <<safeConfirmed, safeGeneration>>

\* BeginFault: a refused request raises one more alarm, which is not the primary one.
Faulting == AskSafeState /\ UNCHANGED lastGeneration

-----------------------------------------------------------------------------
(***************************************************************************)
(* The host and the controls.                                              *)
(***************************************************************************)
WorkcellSubmit(p) == SubmitProgram(p) /\ ForgetSafeState

\* A command that is neither a motion nor a local wait, SET_DO, cannot be paused.
PauseRefused ==
  /\ TakeControl("PAUSE") /\ lifecycle \in {"Running", "Waiting"} /\ active.type = "SET_DO"
  /\ Drop

\* Slip: an ESTOP that escalates a pending stop leaves the workcell as it is.
EstopAcceptedStopOnly == Estop /\ IF connected /\ ~StopPending THEN Faulting ELSE Quiet

\* Without a connection, or when the workcell takes the request: as a session without a workcell.
EstopAccepted == Estop /\ IF connected THEN Faulting ELSE Quiet

(***************************************************************************)
(* The workcell refuses the safe state: the session is untrusted before    *)
(* the stop is submitted.                                                  *)
(***************************************************************************)
EstopRefused ==
  /\ TakeControl("ESTOP") /\ lifecycle \notin {"EmergencyStopping", "EmergencyStopped"}
  /\ connected /\ ~safeRequested
  /\ Faulting
  /\ \/ /\ stop' = IF StopPending THEN [stop EXCEPT !.disp = "Emergency"]
                   ELSE [id |-> nextStop, disp |-> "Emergency",
                         deadline |-> SaturatingAdd(now', StopTimeout)]
        /\ nextStop' = IF StopPending THEN nextStop ELSE nextStop + 1
        /\ lifecycle' = "EmergencyStopping" /\ op' = "Stopping"
        /\ \E delay \in PollDelays \cup {0} :
             LET poll == Least(stop'.deadline, SaturatingAdd(now', delay))
             IN queue' = IF StopPending THEN Tail(queue)
                         ELSE Schedule(Schedule(Tail(queue), StopPollEvent(poll, stop')),
                                       StopTimeoutEvent(stop'))
        /\ untrusted' = TRUE /\ SetPrimary(Raise(primary, "Fatal"))
        /\ UNCHANGED <<state, active, connected, servoDisabled, terminal, outcome>>
     \/ /\ ~StopPending
        /\ queue' = Tail(queue) /\ UNCHANGED nextStop
        /\ FailStop(TRUE, Raise(primary, "Fatal"))
  /\ UNCHANGED <<next, input, moving>> /\ Frame

\* Slip: the poll of a resumed wait is left to the one that was pending.
ResumeWaitUnpolled ==
  /\ TakeControl("RESUME") /\ lifecycle = "Paused" /\ LocalWait(active.type)
  /\ InRange(now', active.remaining)
  /\ active' = Resumed
  /\ lifecycle' = "Running"
  /\ queue' = Schedule(Tail(queue), IF active.type = "DELAY" THEN DelayCompleteEvent(Resumed)
                                    ELSE TimeoutEvent(Resumed))
  /\ UNCHANGED <<state, op, next, stop, nextStop, connected, servoDisabled, untrusted, terminal,
                 outcome, primary, alarmed, input, moving>>
  /\ Quiet /\ Frame

\* A resumed wait never counts what was read before; it is polled again.
ResumeWait ==
  /\ TakeControl("RESUME") /\ lifecycle = "Paused" /\ LocalWait(active.type)
  /\ InRange(now', active.remaining)
  /\ active' = Resumed
  /\ lifecycle' = "Running"
  /\ queue' = IF active.type = "DELAY" THEN Schedule(Tail(queue), DelayCompleteEvent(Resumed))
              ELSE LET poll == Least(Resumed.deadline, SaturatingAdd(now', DefaultPoll))
                   IN Schedule(Schedule(Tail(queue), TimeoutEvent(Resumed)),
                               MotionPollEvent(poll, Resumed))
  /\ UNCHANGED <<state, op, next, stop, nextStop, connected, servoDisabled, untrusted, terminal,
                 outcome, primary, alarmed, input, moving>>
  /\ Quiet /\ Frame

-----------------------------------------------------------------------------
(***************************************************************************)
(* ResetSession: the workcell is asked again whether it is safe, and must  *)
(* show a newer snapshot than any the session has seen.                    *)
(***************************************************************************)
\* Slip: a requested safe state is as good as a confirmed one.
SafeStateReachedWhenAsked == ResetAllowed /\ safeRequested /\ connected

SafeStateReached == ResetAllowed /\ safeRequested /\ safeConfirmed /\ connected

\* Valid, running, free of collisions, of the same scene, and newer.
FitForReset(s) ==
  s.valid /\ ~s.collision /\ s.generation > safeGeneration /\ s.generation > lastGeneration

WorkcellReset(S) ==
  /\ TakeControl("RESET") /\ SafeStateReached
  /\ \E s \in S : FitForReset(s) /\ input' = s.input
  /\ connected' = FALSE
  /\ lifecycle' = "Idle" /\ state' = "ServoOff" /\ op' = "Idle"
  /\ terminal' = FALSE /\ outcome' = "None" /\ primary' = "None"
  /\ program' = <<>> /\ queue' = <<>>
  /\ ForgetSafeState
  /\ UNCHANGED <<next, active, stop, nextStop, servoDisabled, untrusted, alarmed, moving, boundVars>>

ResetDisconnectFails(S) ==
  /\ TakeControl("RESET") /\ SafeStateReached
  /\ \E s \in S :
       FitForReset(s) /\ input' = s.input /\ lastGeneration' = s.generation
  /\ untrusted' = TRUE /\ queue' = Tail(queue)
  /\ UNCHANGED <<lifecycle, state, op, next, active, stop, nextStop, connected, servoDisabled,
                 terminal, outcome, primary, alarmed, moving, safeVars>>
  /\ Frame

\* A condition is missing, or the workcell throws, refuses or shows no fit snapshot.
WorkcellResetRejected == TakeControl("RESET") /\ Drop /\ Quiet

WorkcellControl ==
  \/ (ControlWithoutEffect \/ PauseRefused) /\ Quiet
  \/ (PauseBetweenCommands \/ PauseMotion \/ PauseLocalWait) /\ Quiet
  \/ (ResumeBetweenCommands \/ ResumeMotion) /\ Quiet
  \/ ResumeWait
  \/ (ResumeMotionFails \/ ResumePastTimeRange) /\ Faulting
  \/ Stop /\ Quiet
  \/ EstopAccepted \/ EstopRefused
  \/ WorkcellReset(Snapshots) \/ ResetDisconnectFails(Snapshots) \/ WorkcellResetRejected

-----------------------------------------------------------------------------
(***************************************************************************)
(* HandleMotionPoll reads the workcell for every command that is polled:   *)
(* for a motion after the motion itself, for the others alone.  S holds    *)
(* the snapshots the workcell may return.                                  *)
(***************************************************************************)
OwnPoll == HasActive /\ active.gen = Head(queue).gen /\ lifecycle = "Running"

TakePoll == Take("MotionPoll") /\ OwnPoll
Motion == active.type = "MOVEJ"

\* Slip: a snapshot of the same generation counts again.
FreshOrRepeated(s) == s.valid /\ s.generation >= lastGeneration

Fresh(s) == s.valid /\ s.generation > lastGeneration

\* A snapshot that ends the task; PollWorkcell that throws counts as an invalid one.
Alarming(s) == ~s.valid \/ (Fresh(s) /\ s.collision)

Keep(s) ==
  IF Fresh(s) THEN lastGeneration' = s.generation /\ input' = s.input
  ELSE UNCHANGED <<lastGeneration, input>>

Wanted == program[active.index]
Shows(s) == Fresh(s) /\ s.input[Wanted.input] = Wanted.want
Satisfies(s) ==
  /\ Shows(s)
  /\ \/ active.type \in {"WAIT_DI", "SET_DO"}
     \/ active.type = "SET_TOOL" /\ s.tool = "done"
ToolFailed(s) == active.type = "SET_TOOL" /\ Shows(s) /\ s.tool = "failed"

PollAgain(delay) ==
  queue' = IF now' < active.deadline
           THEN Schedule(Tail(queue),
                  MotionPollEvent(Least(active.deadline, SaturatingAdd(now', Greatest(1, delay))),
                                  active))
           ELSE Tail(queue)

(***************************************************************************)
(* The poll the handler schedules after such a snapshot is left out: it    *)
(* finds another lifecycle or no command and is dropped.                   *)
(***************************************************************************)
SnapshotAlarms(S) ==
  /\ TakePoll
  /\ \E s \in S : Alarming(s) /\ Keep(s)
  /\ BeginFault(Tail(queue), connected, "Fatal", active) /\ AskSafeState
  /\ UNCHANGED <<next, moving>> /\ Frame

(***************************************************************************)
(* The motion failed in the same poll: its fault meets the stop that the   *)
(* snapshot has begun and ends the task without a confirmation.            *)
(***************************************************************************)
MotionFailsUnderAlarm(S) ==
  /\ TakePoll /\ Motion
  /\ \E s \in S : Alarming(s) /\ Keep(s)
  /\ \E delay \in PollDelays \cup {0} :
       LET episode == [id |-> nextStop, disp |-> "Fault", deadline |-> SaturatingAdd(now', StopTimeout)]
           poll == Least(episode.deadline, SaturatingAdd(now', delay))
       IN queue' = Schedule(Schedule(Tail(queue), StopPollEvent(poll, episode)),
                            StopTimeoutEvent(episode))
  /\ nextStop' = nextStop + 1
  /\ FinishFault(connected, servoDisabled, untrusted, Raise(primary, "Fatal")) /\ AskSafeState
  /\ UNCHANGED <<next, moving>> /\ Frame

SnapshotSatisfies(S) ==
  /\ TakePoll
  /\ \E s \in S : ~Alarming(s) /\ Satisfies(s) /\ Keep(s)
  /\ Succeed(Tail(queue))
  /\ UNCHANGED <<moving, safeVars>> /\ Frame

\* The gripper closed on nothing, or the workpiece was let go in the wrong place.
ToolFails(S) ==
  /\ TakePoll
  /\ \E s \in S : ~Alarming(s) /\ ToolFailed(s) /\ Keep(s)
  /\ BeginFault(Tail(queue), connected, "Recoverable", active) /\ AskSafeState
  /\ UNCHANGED <<next, moving>> /\ Frame

StillWaiting(S) ==
  /\ TakePoll /\ ~Motion
  /\ \E s \in S : ~Alarming(s) /\ ~Satisfies(s) /\ ~ToolFailed(s) /\ Keep(s)
  /\ PollAgain(DefaultPoll)
  /\ UNCHANGED <<taskVars, next, nextStop, moving, safeVars>> /\ Frame

QuietSnapshot(S) == \E s \in S : ~Alarming(s) /\ Keep(s)

MotionStillRunning(S) ==
  /\ TakePoll /\ Motion /\ QuietSnapshot(S)
  /\ \E delay \in PollDelays : PollAgain(delay)
  /\ UNCHANGED <<taskVars, next, nextStop, moving, safeVars>> /\ Frame

MotionDone(S) ==
  /\ TakePoll /\ Motion /\ QuietSnapshot(S)
  /\ Succeed(Tail(queue))
  /\ moving' = FALSE
  /\ UNCHANGED safeVars /\ Frame

MotionFailed(S) ==
  /\ TakePoll /\ Motion /\ QuietSnapshot(S)
  /\ BeginFault(Tail(queue), connected, "Recoverable", active) /\ AskSafeState
  /\ UNCHANGED <<next, moving>> /\ Frame

\* PollMotion throws: the workcell is not read.
MotionPollThrows ==
  /\ TakePoll /\ Motion
  /\ BeginFault(Tail(queue), connected, "Fatal", active) /\ Faulting
  /\ UNCHANGED <<next, input, moving>> /\ Frame

StalePoll == Take("MotionPoll") /\ ~OwnPoll /\ Drop

-----------------------------------------------------------------------------
(***************************************************************************)
(* HandleStopConfirmed asks the workcell for its safe state when the stop  *)
(* was one of a fault or an emergency.                                     *)
(***************************************************************************)
SafeStateLate == now' > safeDeadline

\* Slip: a safe state that is refused only costs an alarm.
SafeStatePolledTolerant(distrust) ==
  \E ok \in BOOLEAN :
    /\ distrust = SafeStateLate
    /\ safeConfirmed' = (ok \/ safeConfirmed)
    /\ safeGeneration' = IF ok THEN Greatest(0, lastGeneration) ELSE safeGeneration
    /\ UNCHANGED <<safeRequested, safeDeadline, lastGeneration>>

\* "distrust": the safe state came late or PollSafeState refused it.
SafeStatePolled(distrust) ==
  \E ok \in BOOLEAN :
    /\ distrust = (SafeStateLate \/ ~ok)
    /\ safeConfirmed' = (ok \/ safeConfirmed)
    /\ safeGeneration' = IF ok THEN Greatest(0, lastGeneration) ELSE safeGeneration
    /\ UNCHANGED <<safeRequested, safeDeadline, lastGeneration>>

FaultMadeSafe ==
  \/ FaultStopConfirmed /\ SafeStatePolled(FALSE)
  \/ /\ StopConfirmed("Fault") /\ SafeStatePolled(TRUE)
     /\ FinishFault(connected, servoDisabled, TRUE, primary)
     /\ UNCHANGED next

EmergencyMadeSafe ==
  \/ EmergencyStopConfirmed /\ SafeStatePolled(FALSE)
  \/ /\ StopConfirmed("Emergency") /\ SafeStatePolled(TRUE)
     /\ \/ FinishFault(connected, TRUE, TRUE, Raise(primary, "Fatal"))
        \/ /\ TriesServo(connected, servoDisabled)
           /\ FinishFault(connected, servoDisabled, TRUE, Raise(primary, "Fatal"))
     /\ UNCHANGED next

WorkcellEvent ==
  \/ WorkcellControl
  \/ SnapshotAlarms(Snapshots) \/ MotionFailsUnderAlarm(Snapshots)
  \/ SnapshotSatisfies(Snapshots) \/ ToolFails(Snapshots) \/ StillWaiting(Snapshots)
  \/ MotionStillRunning(Snapshots) \/ MotionDone(Snapshots) \/ MotionFailed(Snapshots)
  \/ MotionPollThrows
  \/ (StalePoll \/ StaleDelayComplete \/ StaleTimeout \/ StaleStopPoll) /\ Quiet
  \/ DelayComplete /\ Quiet
  \/ CommandTimeout /\ Faulting
  \/ (StillStopping \/ StopPollFails \/ StopDeadline) /\ Quiet
  \/ (PauseConfirmed \/ OperatorStopConfirmed \/ ProgramStopConfirmed) /\ Quiet
  \/ FaultMadeSafe \/ EmergencyMadeSafe

-----------------------------------------------------------------------------
(***************************************************************************)
(* HandleNextCommand.  The timeout of a SET_DO in the model's programs is  *)
(* RuntimeOptions::workcell_output_timeout_ms.                             *)
(***************************************************************************)
CommandPastTimeRange ==
  \/ StartPastTimeRange
  \/ /\ Start("SET_DO") /\ ~InRange(now, program[next].timeout)
     /\ StartFault("Fatal", active) /\ UNCHANGED moving

PollFirst(a, delay) == MotionPollEvent(Least(a.deadline, SaturatingAdd(now, delay)), a)

\* The workcell takes the command; snapshots decide when it is done.
DeviceCommandAccepted(type, delays) ==
  /\ Start(type) /\ InRange(now, program[next].timeout)
  /\ LET a == Activate(program[next])
     IN /\ \E delay \in delays :
             queue' = Schedule(Schedule(queue, PollFirst(a, delay)), TimeoutEvent(a))
        /\ Begin(a, "Running")
  /\ UNCHANGED moving

StartOutput(delays) == DeviceCommandAccepted("SET_DO", delays) /\ op' = "Active"
StartTool(delays) == DeviceCommandAccepted("SET_TOOL", delays) /\ UNCHANGED op

\* A SET_DO is active before the workcell is asked, a SET_TOOL after it.
DeviceCommandRejected ==
  /\ \/ /\ Start("SET_DO") /\ InRange(now, program[next].timeout)
        /\ StartFault("Recoverable", Activate(program[next]))
     \/ /\ Start("SET_TOOL") /\ InRange(now, program[next].timeout)
        /\ StartFault("Recoverable", active)
  /\ UNCHANGED moving

StartInputWait ==
  /\ Start("WAIT_DI") /\ InRange(now, program[next].timeout) /\ ~InputWanted
  /\ LET a == Activate(program[next])
     IN /\ queue' = Schedule(Schedule(queue, TimeoutEvent(a)), PollFirst(a, DefaultPoll))
        /\ Begin(a, "Running")
  /\ UNCHANGED <<op, moving>>

\* The value may come from any earlier snapshot, or from the configuration.
InputAlreadyThere == WaitAlreadySatisfied /\ program[next].type = "WAIT_DI"

AnyDelay == PollDelays \cup {0, DefaultPoll}

WorkcellNextCommand ==
  \/ (ConnectFails \/ ServoCommandThrows \/ CommandPastTimeRange \/ StartMotionFails) /\ Faulting
  \/ DeviceCommandRejected /\ Faulting
  \/ (ServoCommand \/ ZeroDelay \/ StartMotion \/ StartDelay \/ StopCommand) /\ Quiet
  \/ (StartOutput(AnyDelay) \/ StartTool(AnyDelay)) /\ Quiet
  \/ (StartInputWait \/ InputAlreadyThere) /\ Quiet

WorkcellAdvance == WorkcellEvent \/ WorkcellNextCommand

WorkcellNext ==
  \/ \E p \in Programs : WorkcellSubmit(p)
  \/ (\E c \in ControlsUsed : SubmitControl(c)) /\ Quiet
  \/ HostAdvancesClock /\ Quiet
  \/ WorkcellAdvance

WorkcellSpec == WorkcellInit /\ [][WorkcellNext]_allVars
=============================================================================
