-------------------------- MODULE RuntimeSession --------------------------
(***************************************************************************)
(* One Runtime Session (RuntimeExecution, src/roborun/runtime.cpp) that    *)
(* drives a robot backend, without a workcell backend.                     *)
(*                                                                         *)
(* The session and its backend are driven by one host thread.  The host    *)
(* submits programs and controls, may move a virtual clock, and calls      *)
(* Advance.  One call of Advance either takes the next pending event and   *)
(* handles it, or starts the next command of the program.  Every action    *)
(* below that is part of Advance is one such call, with every call the     *)
(* handler makes; what the backend answers is chosen with \E.              *)
(***************************************************************************)
EXTENDS Integers, Sequences, EventQueue, Validator

CONSTANTS
  Programs,              \* the programs a host may submit, valid or not
  Scenario,              \* the external events and controls of the Mock scenario
  Inputs,                \* names of the digital inputs and tools a command can wait for
  InitialInput,          \* their value when a session is created
  StopTimeout,           \* RuntimeOptions::stop_confirmation_timeout_ms
  PollDelays,            \* what a backend may give as poll_after_ms
  DisconnectOnTerminal,  \* RuntimeOptions::disconnect_on_terminal
  MaxTime,               \* the largest BusinessTime
  HostTimeLimit,         \* bound: the host does not advance the clock beyond it
  ControlsUsed,          \* bound: the controls the host submits
  MaxControls,           \* bound: how many it submits
  MaxSubmissions         \* bound: how many programs it submits

Lifecycles ==
  {"Idle", "Running", "Waiting", "Pausing", "Paused", "Stopping", "Stopped",
   "EmergencyStopping", "EmergencyStopped", "Faulted"}
RuntimeStates == {"ServoOff", "Ready", "Running", "Stopped", "Faulted"}
Operations    == {"Idle", "Active", "Stopping", "Stopped"}
Outcomes      == {"None", "ProgramCompleted", "OperatorStopped", "EmergencyStopped", "Faulted"}
Dispositions  == {"Pause", "ProgramComplete", "OperatorStop", "Emergency", "Fault"}

Time == 0 .. MaxTime

\* timeout is the command's own time limit: TIMEOUT or its default, a DELAY's duration.
Command == [type : CommandTypes, timeout : Time, input : Inputs, want : BOOLEAN]

(***************************************************************************)
(* RuntimeEvent.  A Timeout and a StopTimeout are the two uses the code    *)
(* makes of kBackendFault with a detail; a ConnectionLoss is the third.    *)
(***************************************************************************)
ControlEvents ==
  {e \in [time : Time, prio : 0 .. 2, type : {"Control"}, control : Controls] :
     e.prio = PriorityFor(e.control)}
CommandEvents == [time : Time, prio : 3 .. 5, type : {"MotionPoll", "DelayComplete", "Timeout"},
                  index : Nat, gen : Nat]
StopEvents    == [time : Time, prio : 3 .. 5, type : {"StopPoll", "StopTimeout"}, id : Nat]
InputEvents   == [time : Time, prio : {3}, type : {"Input"}, name : Inputs, value : BOOLEAN]
LossEvents    == [time : Time, prio : {3}, type : {"ConnectionLoss"}]
Event == ControlEvents \cup CommandEvents \cup StopEvents \cup InputEvents \cup LossEvents

ControlEvent(t, c) == [time |-> t, prio |-> PriorityFor(c), type |-> "Control", control |-> c]
MotionPollEvent(t, a) ==
  [time |-> t, prio |-> ExternalFeedback, type |-> "MotionPoll", index |-> a.index, gen |-> a.gen]
DelayCompleteEvent(a) ==
  [time |-> a.deadline, prio |-> CommandCompletion, type |-> "DelayComplete",
   index |-> a.index, gen |-> a.gen]
TimeoutEvent(a) ==
  [time |-> a.deadline, prio |-> TimeoutPriority, type |-> "Timeout",
   index |-> a.index, gen |-> a.gen]
StopPollEvent(t, s) == [time |-> t, prio |-> ExternalFeedback, type |-> "StopPoll", id |-> s.id]
StopTimeoutEvent(s) ==
  [time |-> s.deadline, prio |-> TimeoutPriority, type |-> "StopTimeout", id |-> s.id]

\* What SubmitProgram leaves in the queue at time t: SubmitControlAt refuses a control in the past.
ScenarioAt(t) == SelectSeq(Scenario, LAMBDA e : e.type = "Control" => e.time >= t)

ASSUME SessionAssumption ==
  /\ MaxTime \in Nat
  /\ StopTimeout \in Nat
  /\ PollDelays \subseteq Nat /\ PollDelays # {}
  /\ Programs \subseteq Seq(Command)
  /\ InitialInput \in [Inputs -> BOOLEAN]
  /\ DisconnectOnTerminal \in BOOLEAN
  /\ ControlsUsed \subseteq Controls
  /\ HostTimeLimit \in Time
  /\ MaxControls \in Nat /\ MaxSubmissions \in Nat

(***************************************************************************)
(* The queue orders the scenario, which has no internal events;            *)
(* ValidateScenario refuses a connection loss at time 0.                   *)
(***************************************************************************)
ASSUME ScenarioAssumption ==
  /\ Scenario \in Seq(Event) /\ Ordered(Scenario)
  /\ \A t \in Time : ScenarioAt(t) \in Seq(Event) /\ Ordered(ScenarioAt(t))
  /\ \A n \in DOMAIN Scenario : Scenario[n].type = "ConnectionLoss" => Scenario[n].time > 0
  /\ \A t \in Time : \A n \in DOMAIN ScenarioAt(t) :
       ScenarioAt(t)[n].type \in {"Control", "Input", "ConnectionLoss"}

VARIABLES
  lifecycle,      \* lifecycle_state_
  state,          \* state_
  op,             \* backend_operation_state_
  program,        \* program_.commands
  next,           \* next_command_index_ + 1
  active,         \* active_command_, or NoCommand
  stop,           \* stop_episode_, or NoStop
  nextStop,       \* next_stop_episode_id_
  connected,      \* connected_
  servoDisabled,  \* servo_disabled_
  untrusted,      \* session_untrusted_
  terminal,       \* task_terminal_
  outcome,        \* result_.outcome
  primary,        \* the primary alarm of result_: none, recoverable or fatal
  alarmed,        \* alarm_history_ is not empty
  queue,          \* events_
  now,            \* the virtual clock
  input,          \* signals_ (DI) and the observed position of tools_
  moving,         \* the device: a motion of this program was neither finished nor confirmed stopped
  controls,       \* bound: controls submitted so far
  submissions     \* bound: programs submitted so far

vars == <<lifecycle, state, op, program, next, active, stop, nextStop, connected, servoDisabled,
          untrusted, terminal, outcome, primary, alarmed, queue, now, input, moving, controls,
          submissions>>

\* What ending or faulting the task rewrites.
taskVars == <<lifecycle, state, op, active, stop, connected, servoDisabled, untrusted, terminal,
              outcome, primary, alarmed>>
boundVars == <<controls, submissions>>

NoDeadline == -1
NoCommand == [index |-> 0, type |-> "NONE", deadline |-> NoDeadline, remaining |-> 0, gen |-> 0]
NoStop == [id |-> 0, disp |-> "None", deadline |-> 0]

ActiveCommands ==
  [index : Nat \ {0}, type : CommandTypes, deadline : Time \cup {NoDeadline},
   remaining : Nat, gen : Nat \ {0}]
StopEpisodes == [id : Nat \ {0}, disp : Dispositions, deadline : Time]

TypeOK ==
  /\ lifecycle \in Lifecycles /\ state \in RuntimeStates /\ op \in Operations
  /\ program \in Seq(Command) /\ next \in Nat \ {0}
  /\ active \in ActiveCommands \cup {NoCommand}
  /\ stop \in StopEpisodes \cup {NoStop} /\ nextStop \in Nat \ {0}
  /\ connected \in BOOLEAN /\ servoDisabled \in BOOLEAN /\ untrusted \in BOOLEAN
  /\ terminal \in BOOLEAN /\ outcome \in Outcomes
  /\ primary \in {"None", "Recoverable", "Fatal"} /\ alarmed \in BOOLEAN
  /\ queue \in Seq(Event) /\ now \in Time
  /\ input \in [Inputs -> BOOLEAN] /\ moving \in BOOLEAN
  /\ controls \in Nat /\ submissions \in Nat

Init ==
  /\ lifecycle = "Idle" /\ state = "ServoOff" /\ op = "Idle"
  /\ program = <<>> /\ next = 1
  /\ active = NoCommand /\ stop = NoStop /\ nextStop = 1
  /\ connected = FALSE /\ servoDisabled = TRUE /\ untrusted = FALSE
  /\ terminal = FALSE /\ outcome = "None"
  /\ primary = "None" /\ alarmed = FALSE
  /\ queue = <<>> /\ now = 0
  /\ input = InitialInput /\ moving = FALSE
  /\ controls = 0 /\ submissions = 0

HasActive == active # NoCommand
StopPending == stop # NoStop
LocalWait(type) == type \in {"DELAY", "WAIT_DI", "SET_TOOL"}

Least(a, b) == IF a <= b THEN a ELSE b
Greatest(a, b) == IF a >= b THEN a ELSE b

\* CheckedBusinessTimeAdd gives a time only when it is in range, the saturating form the limit.
InRange(t, d) == t + d <= MaxTime
UnboundedAdd(t, d) == t + d
SaturatingAdd(t, d) == Least(t + d, MaxTime)

-----------------------------------------------------------------------------
(***************************************************************************)
(* How a task ends or is brought to a stop.  The handlers below finish in  *)
(* one of these.  Raise gives the primary alarm once an alarm of the given *)
(* kind is raised: the first alarm stays primary.                          *)
(***************************************************************************)
Raise(prim, kind) == IF prim = "None" THEN kind ELSE prim

SetPrimary(prim) == primary' = prim /\ alarmed' = (alarmed \/ prim # "None")

\* DisableServoForCleanup calls the backend only then; DisconnectForCleanup likewise.
TriesServo(conn, disabled) == conn /\ ~disabled
TriesDisconnect(conn) == conn /\ DisconnectOnTerminal

\* Slip: the stop episode survives the fault that ends the task.
FinishFaultKeepsEpisode(conn, disabled, distrust, prim) ==
  /\ servoDisabled' = TRUE /\ connected' = FALSE
  /\ untrusted' = distrust
  /\ SetPrimary(prim)
  /\ active' = NoCommand /\ stop' = stop
  /\ lifecycle' = "Faulted" /\ state' = "Faulted" /\ op' = "Stopped"
  /\ outcome' = "Faulted" /\ terminal' = TRUE

(***************************************************************************)
(* Both cleanup calls are tried whatever the first one does; one that      *)
(* throws raises a fatal alarm and makes the session untrusted.            *)
(***************************************************************************)
FinishFault(conn, disabled, distrust, prim) ==
  \E servoOk, disconnectOk \in BOOLEAN :
    LET failed == \/ TriesServo(conn, disabled) /\ ~servoOk
                  \/ TriesDisconnect(conn) /\ ~disconnectOk
    IN /\ servoDisabled' = (disabled \/ (conn /\ servoOk))
       /\ connected' = (conn /\ ~(DisconnectOnTerminal /\ disconnectOk))
       /\ untrusted' = (distrust \/ failed)
       /\ SetPrimary(IF failed THEN Raise(prim, "Fatal") ELSE prim)
       /\ active' = NoCommand /\ stop' = NoStop
       /\ lifecycle' = "Faulted" /\ state' = "Faulted" /\ op' = "Stopped"
       /\ outcome' = "Faulted" /\ terminal' = TRUE

FailStop(conn, prim) == FinishFault(conn, servoDisabled, TRUE, Raise(prim, "Fatal"))

\* The callers hold neither an active command nor a stop episode any more.
FinishTerminal(result, disabled, prim) ==
  \/ /\ ~untrusted
     /\ connected' = (connected /\ ~DisconnectOnTerminal)
     /\ servoDisabled' = disabled
     /\ SetPrimary(prim)
     /\ active' = NoCommand /\ stop' = NoStop
     /\ lifecycle' = IF result = "EmergencyStopped" THEN "EmergencyStopped" ELSE "Stopped"
     /\ state' = "Stopped" /\ op' = "Stopped" /\ outcome' = result /\ terminal' = TRUE
     /\ UNCHANGED untrusted
  \/ /\ TriesDisconnect(connected)    \* Disconnect throws; FinishFault tries it again
     /\ FinishFault(connected, disabled, TRUE, Raise(prim, "Fatal"))
  \/ /\ untrusted
     /\ FinishFault(connected /\ ~DisconnectOnTerminal, disabled, TRUE, prim)

StopLifecycle(disp) ==
  CASE disp = "Pause"     -> "Pausing"
    [] disp = "Emergency" -> "EmergencyStopping"
    [] OTHER              -> "Stopping"

(***************************************************************************)
(* BeginStop on a connected backend without a stop episode.  Its branch    *)
(* for a session that is not connected is never taken (see                 *)
(* WorkNeedsConnection) and an episode that is already pending is handled  *)
(* where the control is.                                                   *)
(***************************************************************************)
BeginStop(q, disp, command, prim) ==
  \/ \E delay \in PollDelays \cup {0} :
       LET episode == [id |-> nextStop, disp |-> disp, deadline |-> SaturatingAdd(now', StopTimeout)]
           poll == Least(episode.deadline, SaturatingAdd(now', delay))
       IN /\ stop' = episode /\ nextStop' = nextStop + 1
          /\ active' = command
          /\ lifecycle' = StopLifecycle(disp) /\ op' = "Stopping"
          /\ queue' = Schedule(Schedule(q, StopPollEvent(poll, episode)), StopTimeoutEvent(episode))
          /\ connected' = TRUE /\ SetPrimary(prim)
          /\ UNCHANGED <<state, servoDisabled, untrusted, terminal, outcome>>
  \/ \* the backend rejects the stop, or SubmitStop throws
     /\ queue' = q /\ UNCHANGED nextStop
     /\ FailStop(TRUE, prim)

BeginFault(q, conn, kind, command) ==
  LET prim == Raise(primary, kind)
  IN IF conn /\ ~StopPending
     THEN BeginStop(q, "Fault", command, prim)
     ELSE /\ queue' = q /\ UNCHANGED nextStop
          /\ FinishFault(conn, servoDisabled, untrusted, prim)

\* FinishActiveSuccess, for an active command or for one that starts already satisfied.
Succeed(q) ==
  /\ lifecycle' = "Running" /\ state' = "Ready" /\ op' = "Idle"
  /\ next' = next + 1 /\ active' = NoCommand
  /\ queue' = q
  /\ UNCHANGED <<stop, nextStop, connected, servoDisabled, untrusted, terminal, outcome, primary,
                 alarmed>>

-----------------------------------------------------------------------------
(***************************************************************************)
(* The host.                                                               *)
(***************************************************************************)
ReplaceableRejection ==
  terminal /\ lifecycle = "Faulted" /\ ~alarmed /\ ~connected /\ ~HasActive /\ ~StopPending

\* PrepareResult: the first active alarm of the history stays the primary one.
PrepareResult(p) ==
  /\ program' = p /\ next' = 1
  /\ op' = "Idle" /\ active' = NoCommand /\ stop' = NoStop
  /\ connected' = FALSE /\ servoDisabled' = TRUE
  /\ input' = InitialInput
  /\ moving' = FALSE
  /\ submissions' = submissions + 1
  /\ UNCHANGED <<nextStop, untrusted, primary, alarmed, now, controls>>

SubmitProgram(p) ==
  /\ submissions < MaxSubmissions
  /\ lifecycle \in {"Idle", "Stopped"} \/ ReplaceableRejection
  /\ PrepareResult(p)
  /\ \/ /\ Accepts(p)
        /\ lifecycle' = "Running" /\ state' = "ServoOff" /\ terminal' = FALSE /\ outcome' = "None"
        /\ queue' = ScenarioAt(now)
     \/ /\ ~Accepts(p)
        /\ lifecycle' = "Faulted" /\ state' = "Faulted" /\ terminal' = TRUE /\ outcome' = "Faulted"
        /\ queue' = <<>>

SubmitControl(c) ==
  /\ controls < MaxControls
  /\ controls' = controls + 1
  /\ queue' = Schedule(queue, ControlEvent(now, c))
  /\ UNCHANGED <<taskVars, program, next, nextStop, now, input, moving, submissions>>

\* VirtualClock::AdvanceBy, called by a host that lets business time pass.
HostAdvancesClock ==
  /\ now < HostTimeLimit
  /\ now' = now + 1
  /\ UNCHANGED <<taskVars, program, next, nextStop, queue, input, moving, boundVars>>

-----------------------------------------------------------------------------
(***************************************************************************)
(* Advance: the next event is taken when it is due, or when nothing else   *)
(* can happen before it; the clock then moves to its time.                 *)
(***************************************************************************)
\* Slip: an event of the present instant waits for the next command.
MustProcessEventLate ==
  /\ queue # <<>>
  /\ \/ Head(queue).time < now
     \/ HasActive \/ StopPending
     \/ lifecycle = "Paused"
     \/ terminal /\ Head(queue).type = "Control"

MustProcessEvent ==
  /\ queue # <<>>
  /\ \/ Head(queue).time <= now
     \/ HasActive \/ StopPending
     \/ lifecycle = "Paused"
     \/ terminal /\ Head(queue).type = "Control"

Take(type) ==
  /\ MustProcessEvent
  /\ Head(queue).type = type
  /\ now' = Greatest(now, Head(queue).time)

Drop ==
  /\ queue' = Tail(queue)
  /\ UNCHANGED <<taskVars, program, next, nextStop, input, moving, boundVars>>

\* What every handler that can end the task leaves alone.
Frame == UNCHANGED <<program, boundVars>>

-----------------------------------------------------------------------------
(***************************************************************************)
(* HandleControl.                                                          *)
(***************************************************************************)
TakeControl(c) == Take("Control") /\ Head(queue).control = c

Remaining == Greatest(0, active.deadline - now')

\* A control the present lifecycle rejects or ignores only leaves a trace entry.
ControlWithoutEffect ==
  /\ \/ TakeControl("PAUSE") /\ lifecycle \notin {"Running", "Waiting"}
     \/ TakeControl("RESUME") /\ lifecycle # "Paused"
     \/ /\ TakeControl("STOP")
        /\ lifecycle \in {"Idle", "Stopping", "Stopped", "Faulted", "EmergencyStopping",
                          "EmergencyStopped"}
     \/ TakeControl("ESTOP") /\ lifecycle \in {"EmergencyStopping", "EmergencyStopped"}
  /\ Drop

PauseBetweenCommands ==
  /\ TakeControl("PAUSE") /\ lifecycle \in {"Running", "Waiting"} /\ ~HasActive
  /\ lifecycle' = "Paused"
  /\ queue' = Tail(queue)
  /\ UNCHANGED <<state, op, next, active, stop, nextStop, connected, servoDisabled, untrusted,
                 terminal, outcome, primary, alarmed, input, moving>>
  /\ Frame

\* Slip: a motion is paused as a local wait is, without stopping the device.
PauseMotionWithoutStop ==
  /\ TakeControl("PAUSE") /\ lifecycle \in {"Running", "Waiting"} /\ active.type = "MOVEJ"
  /\ active' = [active EXCEPT !.remaining = Remaining, !.deadline = NoDeadline, !.gen = @ + 1]
  /\ lifecycle' = "Paused"
  /\ queue' = Tail(queue)
  /\ UNCHANGED <<state, op, next, stop, nextStop, connected, servoDisabled, untrusted, terminal,
                 outcome, primary, alarmed, input, moving>>
  /\ Frame

\* The motion is stopped first; Paused follows when the backend confirms it.
PauseMotion ==
  /\ TakeControl("PAUSE") /\ lifecycle \in {"Running", "Waiting"} /\ active.type = "MOVEJ"
  /\ BeginStop(Tail(queue), "Pause", [active EXCEPT !.remaining = Remaining], primary)
  /\ UNCHANGED <<next, input, moving>> /\ Frame

\* PauseLocalCommand
PauseLocalWait ==
  /\ TakeControl("PAUSE") /\ lifecycle \in {"Running", "Waiting"} /\ LocalWait(active.type)
  /\ active' = [active EXCEPT !.remaining = Remaining, !.deadline = NoDeadline, !.gen = @ + 1]
  /\ lifecycle' = "Paused"
  /\ queue' = Tail(queue)
  /\ UNCHANGED <<state, op, next, stop, nextStop, connected, servoDisabled, untrusted, terminal,
                 outcome, primary, alarmed, input, moving>>
  /\ Frame

\* Slip: a resumed command gets its whole time limit again.
ResumedAfresh ==
  [active EXCEPT !.gen = @ + 1, !.deadline = now' + program[active.index].timeout]

\* ResumeActiveCommand, by the kind of command that was paused.
Resumed == [active EXCEPT !.gen = @ + 1, !.deadline = now' + active.remaining]
ResumeFault(kind) == BeginFault(Tail(queue), connected, kind, [active EXCEPT !.gen = @ + 1])

ResumeBetweenCommands ==
  /\ TakeControl("RESUME") /\ lifecycle = "Paused" /\ ~HasActive
  /\ lifecycle' = "Running"
  /\ queue' = Tail(queue)
  /\ UNCHANGED <<state, op, next, active, stop, nextStop, connected, servoDisabled, untrusted,
                 terminal, outcome, primary, alarmed, input, moving>>
  /\ Frame

\* Slip: the resumed motion is polled but its new deadline is not scheduled.
ResumeMotionUntimed ==
  /\ TakeControl("RESUME") /\ lifecycle = "Paused" /\ active.type = "MOVEJ"
  /\ InRange(now', active.remaining)
  /\ queue' = Schedule(Tail(queue), MotionPollEvent(now', Resumed))
  /\ active' = Resumed
  /\ lifecycle' = "Running" /\ op' = "Active"
  /\ moving' = TRUE
  /\ UNCHANGED <<state, next, stop, nextStop, connected, servoDisabled, untrusted, terminal,
                 outcome, primary, alarmed, input>>
  /\ Frame

ResumeMotion ==
  /\ TakeControl("RESUME") /\ lifecycle = "Paused" /\ active.type = "MOVEJ"
  /\ InRange(now', active.remaining)
  /\ \E delay \in PollDelays \cup {0} :
       LET poll == Least(Resumed.deadline, SaturatingAdd(now', delay))
       IN queue' = Schedule(Schedule(Tail(queue), MotionPollEvent(poll, Resumed)),
                            TimeoutEvent(Resumed))
  /\ active' = Resumed
  /\ lifecycle' = "Running" /\ op' = "Active"
  /\ moving' = TRUE
  /\ UNCHANGED <<state, next, stop, nextStop, connected, servoDisabled, untrusted, terminal,
                 outcome, primary, alarmed, input>>
  /\ Frame

\* ResumeMoveJ rejects (recoverable) or throws; then the device may have taken the motion.
ResumeMotionFails ==
  /\ TakeControl("RESUME") /\ lifecycle = "Paused" /\ active.type = "MOVEJ"
  /\ InRange(now', active.remaining)
  /\ \/ ResumeFault("Recoverable") /\ UNCHANGED moving
     \/ ResumeFault("Fatal") /\ moving' \in BOOLEAN
  /\ UNCHANGED <<next, input>> /\ Frame

ResumePastTimeRange ==
  /\ TakeControl("RESUME") /\ lifecycle = "Paused" /\ HasActive
  /\ ~InRange(now', active.remaining)
  /\ ResumeFault("Fatal")
  /\ UNCHANGED <<next, input, moving>> /\ Frame

Awaited == input[program[active.index].input] = program[active.index].want

ResumeSatisfiedWait ==
  /\ TakeControl("RESUME") /\ lifecycle = "Paused" /\ active.type \in {"WAIT_DI", "SET_TOOL"}
  /\ InRange(now', active.remaining)
  /\ Awaited
  /\ Succeed(Tail(queue))
  /\ UNCHANGED <<input, moving>> /\ Frame

ResumeLocalWait ==
  /\ TakeControl("RESUME") /\ lifecycle = "Paused" /\ LocalWait(active.type)
  /\ InRange(now', active.remaining)
  /\ active.type = "DELAY" \/ ~Awaited
  /\ active' = Resumed
  /\ lifecycle' = "Waiting"
  /\ queue' = Schedule(Tail(queue), IF active.type = "DELAY" THEN DelayCompleteEvent(Resumed)
                                    ELSE TimeoutEvent(Resumed))
  /\ UNCHANGED <<state, op, next, stop, nextStop, connected, servoDisabled, untrusted, terminal,
                 outcome, primary, alarmed, input, moving>>
  /\ Frame

\* In Pausing the pending episode stands and the control is ignored (stop_already_pending).
Stop ==
  /\ TakeControl("STOP") /\ lifecycle \in {"Running", "Waiting", "Pausing", "Paused"}
  /\ IF StopPending
     THEN /\ queue' = Tail(queue)
          /\ UNCHANGED <<taskVars, nextStop>>
     ELSE IF connected
     THEN BeginStop(Tail(queue), "OperatorStop", active, primary)
     ELSE /\ FinishTerminal("OperatorStopped", servoDisabled, primary)
          /\ queue' = Tail(queue) /\ UNCHANGED nextStop
  /\ UNCHANGED <<next, input, moving>> /\ Frame

\* Slip: the escalated episode is numbered anew, its events are not.
EstopRenumbers ==
  /\ TakeControl("ESTOP") /\ lifecycle \notin {"EmergencyStopping", "EmergencyStopped"}
  /\ IF StopPending
     THEN /\ stop' = [stop EXCEPT !.disp = "Emergency", !.id = nextStop]
          /\ nextStop' = nextStop + 1
          /\ lifecycle' = "EmergencyStopping"
          /\ queue' = Tail(queue)
          /\ UNCHANGED <<state, op, active, connected, servoDisabled, untrusted,
                         terminal, outcome, primary, alarmed>>
     ELSE /\ connected
          /\ BeginStop(Tail(queue), "Emergency", active, primary)
  /\ UNCHANGED <<next, input, moving>> /\ Frame

\* An ESTOP escalates a pending episode, which keeps its id and its deadline.
Estop ==
  /\ TakeControl("ESTOP") /\ lifecycle \notin {"EmergencyStopping", "EmergencyStopped"}
  /\ IF StopPending
     THEN /\ stop' = [stop EXCEPT !.disp = "Emergency"]
          /\ lifecycle' = "EmergencyStopping"
          /\ queue' = Tail(queue)
          /\ UNCHANGED <<state, op, active, nextStop, connected, servoDisabled, untrusted,
                         terminal, outcome, primary, alarmed>>
     ELSE IF connected
     THEN BeginStop(Tail(queue), "Emergency", active, primary)
     ELSE /\ FinishTerminal("EmergencyStopped", servoDisabled, Raise(primary, "Recoverable"))
          /\ queue' = Tail(queue) /\ UNCHANGED nextStop
  /\ UNCHANGED <<next, input, moving>> /\ Frame

\* Slip: the condition on an untrusted session is forgotten.
ResetAllowedUntrusted ==
  /\ lifecycle = "EmergencyStopped" \/ (lifecycle = "Faulted" /\ primary = "Recoverable")
  /\ ~HasActive /\ ~StopPending /\ servoDisabled

ResetAllowed ==
  /\ lifecycle = "EmergencyStopped" \/ (lifecycle = "Faulted" /\ primary = "Recoverable")
  /\ ~HasActive /\ ~StopPending /\ servoDisabled /\ ~untrusted

\* Slip: the alarms stay active.
ResetKeepsAlarm ==
  /\ TakeControl("RESET") /\ ResetAllowed
  /\ lifecycle' = "Idle" /\ state' = "ServoOff" /\ op' = "Idle"
  /\ terminal' = FALSE /\ outcome' = "None"
  /\ program' = <<>>
  /\ queue' = <<>>
  /\ UNCHANGED <<next, active, stop, nextStop, connected, servoDisabled, untrusted, primary,
                 alarmed, input, moving, boundVars>>

\* ResetSession
Reset ==
  /\ TakeControl("RESET") /\ ResetAllowed
  /\ lifecycle' = "Idle" /\ state' = "ServoOff" /\ op' = "Idle"
  /\ terminal' = FALSE /\ outcome' = "None" /\ primary' = "None"
  /\ program' = <<>>
  /\ queue' = <<>>
  /\ UNCHANGED <<next, active, stop, nextStop, connected, servoDisabled, untrusted, alarmed,
                 input, moving, boundVars>>

ResetRejected == TakeControl("RESET") /\ ~ResetAllowed /\ Drop

HandleControl ==
  \/ ControlWithoutEffect
  \/ PauseBetweenCommands \/ PauseMotion \/ PauseLocalWait
  \/ ResumeBetweenCommands \/ ResumeMotion \/ ResumeMotionFails \/ ResumePastTimeRange
  \/ ResumeSatisfiedWait \/ ResumeLocalWait
  \/ Stop \/ Estop
  \/ Reset \/ ResetRejected

-----------------------------------------------------------------------------
(***************************************************************************)
(* Events of the active command.                                           *)
(***************************************************************************)
\* Slip: the answer of a motion counts in any lifecycle.
PollIsCurrentAnyLifecycle ==
  HasActive /\ active.gen = Head(queue).gen /\ active.type = "MOVEJ"

\* HandleMotionPoll looks at the generation but not at the index of the command.
PollIsCurrent ==
  HasActive /\ active.gen = Head(queue).gen /\ lifecycle = "Running" /\ active.type = "MOVEJ"

StaleMotionPoll == Take("MotionPoll") /\ ~PollIsCurrent /\ Drop

\* The next poll is at least 1 ms later and not after the deadline.
MotionRunning ==
  /\ Take("MotionPoll") /\ PollIsCurrent
  /\ IF now' < active.deadline
     THEN \E delay \in PollDelays :
            queue' = Schedule(Tail(queue),
                       MotionPollEvent(Least(active.deadline,
                                             SaturatingAdd(now', Greatest(1, delay))), active))
     ELSE queue' = Tail(queue)
  /\ UNCHANGED <<taskVars, next, nextStop, input, moving>> /\ Frame

MotionSucceeded ==
  /\ Take("MotionPoll") /\ PollIsCurrent
  /\ Succeed(Tail(queue))
  /\ moving' = FALSE
  /\ UNCHANGED input /\ Frame

\* The backend reports a failed motion (recoverable) or PollMotion throws.
MotionFails ==
  /\ Take("MotionPoll") /\ PollIsCurrent
  /\ \E kind \in {"Recoverable", "Fatal"} : BeginFault(Tail(queue), connected, kind, active)
  /\ UNCHANGED <<next, input, moving>> /\ Frame

\* Slip: the generation of the delay is not compared.
DelayIsOverAnyGeneration ==
  HasActive /\ active.type = "DELAY" /\ lifecycle \in {"Running", "Waiting"}

\* HandleDelayComplete, with the lifecycle check of FinishActiveSuccess.
DelayIsOver ==
  HasActive /\ active.type = "DELAY" /\ active.gen = Head(queue).gen
            /\ lifecycle \in {"Running", "Waiting"}

DelayComplete ==
  /\ Take("DelayComplete") /\ DelayIsOver
  /\ Succeed(Tail(queue))
  /\ UNCHANGED <<input, moving>> /\ Frame

StaleDelayComplete == Take("DelayComplete") /\ ~DelayIsOver /\ Drop

\* HandleTimeout of a command: it does not look at the lifecycle.
DeadlinePassed ==
  /\ HasActive
  /\ Head(queue).index = active.index /\ Head(queue).gen = active.gen
  /\ active.deadline # NoDeadline /\ now' >= active.deadline

CommandTimeout ==
  /\ Take("Timeout") /\ DeadlinePassed
  /\ BeginFault(Tail(queue), connected, "Recoverable", active)
  /\ UNCHANGED <<next, input, moving>> /\ Frame

StaleTimeout == Take("Timeout") /\ ~DeadlinePassed /\ Drop

-----------------------------------------------------------------------------
(***************************************************************************)
(* Events of the stop episode.                                             *)
(***************************************************************************)
OwnEpisode == StopPending /\ Head(queue).id = stop.id

StopDeadlinePassed == OwnEpisode /\ now' >= stop.deadline

StaleStopPoll == Take("StopPoll") /\ ~OwnEpisode /\ Drop

\* Tail of the queue and the frame of a handler that resolves the episode.
Resolve == queue' = Tail(queue) /\ UNCHANGED <<nextStop, input>> /\ Frame

StillStopping ==
  /\ Take("StopPoll") /\ OwnEpisode
  /\ now' < stop.deadline
  /\ \E delay \in PollDelays :
       queue' = Schedule(Tail(queue),
                  StopPollEvent(Least(stop.deadline, SaturatingAdd(now', Greatest(1, delay))), stop))
  /\ UNCHANGED <<taskVars, next, nextStop, input, moving>> /\ Frame

\* PollStop throws or reports a failure, or the device still moves at the deadline.
StopPollFails ==
  /\ Take("StopPoll") /\ OwnEpisode
  /\ FailStop(connected, primary)
  /\ UNCHANGED <<next, moving>> /\ Resolve

\* HandleTimeout of a stop: a poll at the deadline came first, and resolved the episode (StopEpisodeWatched).
StopDeadline ==
  /\ Take("StopTimeout")
  /\ IF StopDeadlinePassed
     THEN FailStop(connected, primary) /\ UNCHANGED <<next, moving>> /\ Resolve
     ELSE Drop

\* PollStop reports that the device stands still: HandleStopConfirmed, by disposition.
StopConfirmed(disp) ==
  /\ Take("StopPoll") /\ OwnEpisode
  /\ stop.disp = disp
  /\ moving' = FALSE
  /\ Resolve

PauseConfirmed ==
  /\ StopConfirmed("Pause")
  /\ stop' = NoStop /\ op' = "Stopped"
  /\ IF HasActive
     THEN active' = [active EXCEPT !.gen = @ + 1] /\ lifecycle' = "Paused"
     ELSE UNCHANGED <<active, lifecycle>>
  /\ UNCHANGED <<state, next, connected, servoDisabled, untrusted, terminal, outcome, primary,
                 alarmed>>

FaultStopConfirmed ==
  /\ StopConfirmed("Fault")
  /\ FinishFault(connected, servoDisabled, untrusted, primary)
  /\ UNCHANGED next

\* Slip: the servo is left on.
EmergencyStopConfirmedServoOn ==
  /\ StopConfirmed("Emergency")
  /\ FinishTerminal("EmergencyStopped", servoDisabled, Raise(primary, "Recoverable"))
  /\ UNCHANGED next

\* The servo is disabled before the emergency stop counts as reached.
EmergencyStopConfirmed ==
  /\ StopConfirmed("Emergency")
  /\ \/ ~untrusted /\ FinishTerminal("EmergencyStopped", TRUE, Raise(primary, "Recoverable"))
     \/ TriesServo(connected, servoDisabled)
          /\ FinishFault(connected, servoDisabled, TRUE, Raise(primary, "Fatal"))
     \/ untrusted /\ FinishFault(connected, TRUE, TRUE, primary)
  /\ UNCHANGED next

\* Slip: every confirmed stop counts as the program's own.
OperatorStopCompletes ==
  /\ StopConfirmed("OperatorStop")
  /\ FinishTerminal("ProgramCompleted", servoDisabled, primary)
  /\ UNCHANGED next

OperatorStopConfirmed ==
  /\ StopConfirmed("OperatorStop")
  /\ FinishTerminal("OperatorStopped", servoDisabled, primary)
  /\ UNCHANGED next

ProgramStopConfirmed ==
  /\ StopConfirmed("ProgramComplete")
  /\ FinishTerminal("ProgramCompleted", servoDisabled, primary)
  /\ next' = IF HasActive THEN next + 1 ELSE next

-----------------------------------------------------------------------------
(***************************************************************************)
(* HandleExternalEvent: what the scenario makes happen outside.            *)
(***************************************************************************)
InputSatisfies(e) ==
  /\ active.type \in {"WAIT_DI", "SET_TOOL"} /\ lifecycle \in {"Running", "Waiting"}
  /\ program[active.index].input = e.name /\ program[active.index].want = e.value

InputChange ==
  /\ Take("Input")
  /\ LET e == Head(queue)
     IN /\ input' = [input EXCEPT ![e.name] = e.value]
        /\ IF InputSatisfies(e)
           THEN Succeed(Tail(queue))
           ELSE queue' = Tail(queue) /\ UNCHANGED <<taskVars, next, nextStop>>
  /\ UNCHANGED moving /\ Frame

\* In whatever lifecycle the session is.
ConnectionLoss ==
  /\ Take("ConnectionLoss")
  /\ BeginFault(Tail(queue), connected, "Fatal", active)
  /\ UNCHANGED <<next, input, moving>> /\ Frame

HandleEvent ==
  \/ HandleControl
  \/ StaleMotionPoll \/ MotionRunning \/ MotionSucceeded \/ MotionFails
  \/ DelayComplete \/ StaleDelayComplete
  \/ CommandTimeout \/ StaleTimeout
  \/ StaleStopPoll \/ StillStopping \/ StopPollFails \/ StopDeadline
  \/ PauseConfirmed \/ FaultStopConfirmed \/ EmergencyStopConfirmed
  \/ OperatorStopConfirmed \/ ProgramStopConfirmed
  \/ InputChange \/ ConnectionLoss

-----------------------------------------------------------------------------
(***************************************************************************)
(* HandleNextCommand.  The backend is connected first when it is not yet;  *)
(* the branch for a program that ran out of commands is never taken for a  *)
(* validated program (see StaysInProgram).                                 *)
(***************************************************************************)
CallsNextCommand == ~MustProcessEvent /\ ~terminal /\ lifecycle \notin {"Idle", "Paused"}

StartsCommand == CallsNextCommand /\ next \in DOMAIN program

Start(type) == StartsCommand /\ program[next].type = type /\ UNCHANGED now

Activate(a) == [index |-> next, type |-> a.type, deadline |-> now + a.timeout,
                remaining |-> a.timeout, gen |-> 1]

StartFault(kind, command) ==
  BeginFault(queue, TRUE, kind, command) /\ UNCHANGED <<next, input>> /\ Frame

\* Connect throws, Disconnect is called and Advance faults the session.
ConnectFails ==
  /\ StartsCommand /\ ~connected
  /\ BeginFault(queue, FALSE, "Fatal", active)
  /\ UNCHANGED <<next, now, input, moving>> /\ Frame

\* A command that is over at once.
Pass ==
  /\ connected' = TRUE
  /\ next' = next + 1
  /\ UNCHANGED <<lifecycle, op, active, stop, nextStop, untrusted, terminal, outcome, primary,
                 alarmed, queue, input, moving>>
  /\ Frame

ServoCommand ==
  \/ Start("SERVO_ON")  /\ servoDisabled' = FALSE /\ state' = "Ready"    /\ Pass
  \/ Start("SERVO_OFF") /\ servoDisabled' = TRUE  /\ state' = "ServoOff" /\ Pass

ServoCommandThrows ==
  /\ Start("SERVO_ON") \/ Start("SERVO_OFF")
  /\ StartFault("Fatal", active) /\ UNCHANGED moving

SetDo == Start("SET_DO") /\ Pass /\ UNCHANGED <<servoDisabled, state>>

ZeroDelay ==
  /\ Start("DELAY") /\ program[next].timeout = 0
  /\ Pass /\ UNCHANGED <<servoDisabled, state>>

StartPastTimeRange ==
  /\ Start("MOVEJ") \/ Start("DELAY") \/ Start("WAIT_DI") \/ Start("SET_TOOL")
  /\ ~InRange(now, program[next].timeout)
  /\ StartFault("Fatal", active) /\ UNCHANGED moving

\* The command is under way; events decide how it ends.
Begin(a, phase) ==
  /\ connected' = TRUE
  /\ active' = a
  /\ state' = "Running" /\ lifecycle' = phase
  /\ UNCHANGED <<next, stop, nextStop, servoDisabled, untrusted, terminal, outcome, primary,
                 alarmed, input>>
  /\ Frame

StartMotion ==
  /\ Start("MOVEJ") /\ InRange(now, program[next].timeout)
  /\ LET a == Activate(program[next])
     IN /\ \E delay \in PollDelays \cup {0} :
             LET poll == Least(a.deadline, SaturatingAdd(now, delay))
             IN queue' = Schedule(Schedule(queue, MotionPollEvent(poll, a)), TimeoutEvent(a))
        /\ Begin(a, "Running")
  /\ op' = "Active" /\ moving' = TRUE

\* SubmitMoveJ rejects (recoverable) or throws; then the device may have taken the motion.
StartMotionFails ==
  /\ Start("MOVEJ") /\ InRange(now, program[next].timeout)
  /\ \/ StartFault("Recoverable", Activate(program[next])) /\ UNCHANGED moving
     \/ StartFault("Fatal", Activate(program[next])) /\ moving' \in BOOLEAN

StartDelay ==
  /\ Start("DELAY") /\ program[next].timeout > 0 /\ InRange(now, program[next].timeout)
  /\ LET a == Activate(program[next])
     IN queue' = Schedule(queue, DelayCompleteEvent(a)) /\ Begin(a, "Waiting")
  /\ UNCHANGED <<op, moving>>

InputWanted == input[program[next].input] = program[next].want

StartWait ==
  /\ Start("WAIT_DI") \/ Start("SET_TOOL")
  /\ InRange(now, program[next].timeout) /\ ~InputWanted
  /\ LET a == Activate(program[next])
     IN queue' = Schedule(queue, TimeoutEvent(a)) /\ Begin(a, "Waiting")
  /\ UNCHANGED <<op, moving>>

\* di_already_satisfied, tool_already_satisfied
WaitAlreadySatisfied ==
  /\ Start("WAIT_DI") \/ Start("SET_TOOL")
  /\ InRange(now, program[next].timeout) /\ InputWanted
  /\ lifecycle' = "Running" /\ state' = "Ready" /\ op' = "Idle"
  /\ next' = next + 1 /\ active' = NoCommand /\ connected' = TRUE
  /\ UNCHANGED <<stop, nextStop, servoDisabled, untrusted, terminal, outcome, primary, alarmed,
                 queue, input, moving>>
  /\ Frame

StopCommand ==
  /\ Start("STOP")
  /\ LET a == [index |-> next, type |-> "STOP", deadline |-> NoDeadline, remaining |-> 0, gen |-> 1]
     IN BeginStop(queue, "ProgramComplete", a, primary)
  /\ UNCHANGED <<next, input, moving>> /\ Frame

HandleNextCommand ==
  \/ ConnectFails
  \/ ServoCommand \/ ServoCommandThrows \/ SetDo
  \/ ZeroDelay \/ StartPastTimeRange
  \/ StartMotion \/ StartMotionFails
  \/ StartDelay
  \/ StartWait \/ WaitAlreadySatisfied
  \/ StopCommand

-----------------------------------------------------------------------------
Advance == HandleEvent \/ HandleNextCommand

Next ==
  \/ \E p \in Programs : SubmitProgram(p)
  \/ \E c \in ControlsUsed : SubmitControl(c)
  \/ HostAdvancesClock
  \/ Advance

(***************************************************************************)
(* A host calls Advance until the task is terminal: Execute does, main     *)
(* does and the ROS bridge does.  Nothing obliges it to call Advance after *)
(* that, or to submit anything.                                            *)
(***************************************************************************)
Spec == Init /\ [][Next]_vars /\ WF_vars(~terminal /\ Advance)
=============================================================================
