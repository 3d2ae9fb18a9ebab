# RoboRun in TLA+

RoboRun (`src/`) runs robot task programs: a text program is parsed, validated and run by a
*Runtime Session* against a robot backend and, where there is one, a workcell, under a clock that may
be virtual, with operator controls (PAUSE, RESUME, STOP, ESTOP, RESET) that arrive while it runs.
These modules model the session, its event queue, the validator, the two backends with a behaviour of
their own (the scripted mock and CoppeliaSim), the CLI with its clean-up and evidence barrier, and the
ROS 2 bridge. TLC checks them on small instances; TLAPS proves, for every value of the constants, every
safety property the runs check but one (`PlansAreKept`), the session's contract, and that the bridge and
the CLI drive a session as the session's own modules describe it. Liveness is TLC's alone.

## The system

| Component | State | Operations | Interacts with |
|---|---|---|---|
| Runtime Session (`runtime.cpp`, `runtime.h`) | lifecycle, program and next command, active command, stop episode, connection and servo flags, trust, alarms, result | `SubmitProgram`, `SubmitControl`, `Advance`, and inside it one handler per event and per command | calls backend, workcell backend and clock; called by one host thread |
| Event queue (`event_queue.h`) | a heap of stamped events | `Schedule`, `ScheduleControl`, `PopNext`, `Clear` | owned by the session |
| Validator (`validator.cpp`) | none between calls | `ValidateProgram` | called by `SubmitProgram` |
| Workcell in the session (`workcell_backend.h`, branches of `runtime.cpp`) | safe state requested/confirmed and its deadline, snapshot generations | output and tool commands, snapshots, safe state, revalidation in RESET | second device of a session |
| Robot backend (`robot_backend.h`) and `ScriptedMockBackend` | a motion, a stop, a connection, the servo; numbers of MOVEJs and stops | `Connect`, `SetServoEnabled`, `SubmitMoveJ`, `ResumeMoveJ`, `PollMotion`, `SubmitStop`, `PollStop`, `Disconnect` | answers the session, may reject, fail or throw anywhere; a scenario plans the answers |
| CoppeliaSim backend (`coppeliasim_backend.cpp`) | flags for motion, stop, tool command, safe state; the scene | both backend interfaces, `StopSimulation`, `QuitSimulator` | robot and workcell of a session; Remote API of the simulator |
| CLI (`main.cpp`), simulator lifecycle, evidence barrier | step of the clean-up, two files | loop over `Advance`, three operations that may fail, a handshake | session, backend, capture script |
| GUI evidence scripts (`gui_evidence_capture.py`) | the other side of the two files, a picture, a verdict | wait, capture, confirm, wait for `main`, clean up | `main` and simulator as processes |
| ROS 2 bridge (`bridge_node.cpp`) | request queue, active goal, worker thread | goals, cancels, service controls, shutdown | drives a session in a worker thread, answers in the executor thread |
| Parser, configuration, scenario, workcell files | none | text to data | session's inputs |

What is hard here: every call of `Advance` handles one event or starts one command, and controls,
answers of the device, timeouts, input changes and connection losses meet in any order, often in the
same instant. A pause of a motion, a stop and a fault take several calls, a device may never confirm,
each clean-up step may throw, the backends keep flags of their own beside the session's, and two
processes and two threads meet over files and flags. `PROJECT.json` lists these places under
`hazards`, each at its line; a hazard without a property says why.

What makes each component correct, in a sentence:

- *session*: a stop that was asked for is never lost and is resolved by its deadline; nothing runs
  under an alarm, after a failed clean-up or past a pending stop; a command is passed only when it
  has earned it; RESET hands out only what is safe to use;
- *event queue*: events are served by time, priority and insertion;
- *validator*: exactly the well-formed programs are accepted, and its servo state predicts the session's;
- *workcell*: only fresh snapshots pass a command, every alarm asks for the safe state, and an
  emergency is reported only with its confirmation;
- *scripted backend*: the plans of the scenario are kept through pauses and stops;
- *CoppeliaSim backend*: session and device agree on motion, stop and servo; a confirmed safe state
  lasts; the gripper acts only for the command that runs;
- *CLI*: `main` ends, every clean-up step is tried, the evidence it confirms is its own;
- *bridge*: every goal gets exactly one result, that agrees with the session, and shutdown is bounded.

## Modules

| Module | What it is |
|---|---|
| `EventQueue` | the queue as the sequence of events in order of service; `Schedule` |
| `EventList` | what users of the queue rely on, as a specification |
| `EventHeap` | the heap with its restarting sequence numbers; implements `EventList` |
| `Validator` | `Accepts`, the walk of `ValidateProgram` over servo states |
| `ValidatorReference` | the accepted language stated without a walk |
| `MCKernels` | both of them, small requests and all short programs |
| `RuntimeSession` | the session: one action per handler outcome, backend answers chosen with `\E` |
| `SessionProperties` | what must hold of it, and the three statements it does not keep |
| `SessionContract` | what a host may rely on: phase, device moving, primary alarm, trust |
| `SessionRefinement` | the refinement mapping; `KeepsContract` |
| `MCSession` | programs, scenarios and inputs of the session's TLC runs |
| `ScriptedMock` | `ScriptedMockBackend`: a record and one operator per operation, plans by number |
| `ScriptedSession`, `MCScripted` | a session on that device, or on any other; `PlansAreKept` |
| `WorkcellSession` | a session with a workcell that answers as it likes |
| `WorkcellProperties`, `MCWorkcell` | what must hold of it; small instances |
| `CoppeliaSim` | the CoppeliaSim backend and its scene: a record and one operator per operation |
| `CoppeliaSession` | a session whose robot and workcell are both that backend |
| `CliRun` | `main` around it: clean-up, barrier, exit; the capture script; the files between them |
| `CliProperties`, `MCCli` | what must hold of the three; small instances |
| `Bridge` | the two threads of the bridge around a `RuntimeSession`, which it extends |
| `BridgeProperties`, `MCBridge` | what must hold of goals, cancels, controls and the shutdown; small instances |
| `AlgorithmProofs` | what `Schedule` does to any queue and the validator to any program |
| `KernelProofs` | the heap implements the list; the validator accepts the reference language |
| `SessionTypeProofs`, `SessionSafetyProofs`, `SessionContractProofs` | theorems about the session, each module on top of the one before |
| `WorkcellProofs` | theorems about a session with a workcell, on top of `SessionSafetyProofs` |
| `CliProofs` | theorems about CoppeliaSim, `main` and the capture script, on top of `WorkcellProofs` |
| `BridgeProofs` | theorems about the bridge, on top of `SessionContractProofs` |

The compositions: `ScriptedSession` and `Bridge` extend `RuntimeSession` and take its actions as they
are; `WorkcellSession` extends it too, takes the actions that a workcell leaves as they are and gives
those it changes a form of their own; `CoppeliaSession` extends `WorkcellSession` and joins each of its
steps with what the calls of that step do to the device; `CliRun` extends `CoppeliaSession`.

### How RuntimeSession corresponds to the code

Variables are the members of `RuntimeExecution` (named beside each declaration); `moving` alone is not
a member but the device's: a motion was submitted and neither reported finished nor confirmed
stopped. One call of `Advance` is one step. `MustProcessEvent`, `Take` and `CallsNextCommand` are the
tests at its head; each handler is split by its branches into actions, and each action makes all the
calls its branch makes. A branch that ends in `BeginFault`, `BeginStop`, `FinishFault`,
`FinishTerminal` or `FinishActiveSuccess` applies the operator of that name, with what the caller
changed before as its arguments. Exceptions: a call that throws inside `Advance` ends in `BeginFault`
with a fatal alarm (the `catch` of `Advance`); in that step everything the handler assigned before the
call is kept.

An event of `kBackendFault` has three uses in the code, told apart by a string; the model calls them
`Timeout`, `StopTimeout` and `ConnectionLoss`. Digital inputs and observed tool positions are one
function `input`. The trace, texts, positions, signal time stamps and the snapshot are left out. A
command's `timeout` is its own limit or the default of `RuntimeOptions`. `Slip:` operators are
plausible mistakes beside the definition they would replace; no specification uses them, they are
the mutants that show each property can fail.

Two branches are left out because they cannot be reached, and a checked property says so: `BeginStop`
without a connection (`WorkNeedsConnection`) and a program that runs out of commands
(`StaysInProgram`). A poll of a stop past its deadline and a timeout event of a stop both end in
`FailStop`; they are the actions `StopPollFails` and `StopDeadline`.

Not modelled in this component: the snapshot sequence, a null backend or clock, scenarios that fail
their validation (their effect is that of a refused program, except that `PrepareResult` has stored
the program; `ScriptedSession` has the one check that depends on the program), and a clock that
refuses `AdvanceTo`.

### How ScriptedMock and ScriptedSession correspond to the code

`mock` is the state of a `ScriptedMockBackend`: its script (the motion and stop plans of the
scenario, maps from numbers to plans), the number of the last MOVEJ, whether a motion or a stop is
submitted, failed or frozen, and the number of stop requests. A step of `ScriptedSession` is a step of
the session *joined* with the device: the handler's action is kept, and what it may choose freely
(the answer of the device, the delay) is fixed to what the device answers there, its calls being
applied to `mock` in the order of the code. `ScenarioFits` is the check of `ValidateScenario` that a
plan names a MOVEJ that exists: a scenario that fails it refuses the submission. A motion resumed
after a pause keeps its number and starts its plan's delay again.

With `mock = AnyDevice` the same specification takes the steps of `RuntimeSession` unrestricted; one
run asks its questions of both. `PlansAreKept` states two consequences of the session's polls that
the plans do not show: a plan whose delay passes the time limit of its command, or of the stop, is
answered at that limit, since the session polls at the deadline at the latest and the poll comes
before the timeout.

`MockRobotBackend` accepts and finishes everything at once: a session sees of it what it sees of a
scripted backend without plans.

### How WorkcellSession corresponds to the code

The workcell is a second device that may answer anything: accept or refuse a command with any delay,
give a snapshot of any generation (for TLC: up to `MaxGeneration`, unless it is `Unbounded`), with alarms, with a failed tool, with values
that agree or do not, and throw where a backend may (`RequestSafeState` and `PollSafeState` report
errors and do not throw). The variables beside those of the session are
`safeRequested`, `safeConfirmed`, `safeDeadline`, `safeGeneration`, `lastGeneration`.

An output, a tool and a WAIT_DI are waits that poll the workcell, so `HandleMotionPoll` has one action
per outcome of its snapshot (`SnapshotAlarms`, `SnapshotSatisfies`, `ToolFails`, `StillWaiting`) and,
for motions, per pair of snapshot and motion. `MotionFailsUnderAlarm` is the poll whose snapshot raises
an alarm and whose motion then fails: the task ends without a confirmed stop, and RESET is refused
since the safe state was never confirmed. `FailStop` asks the workcell for nothing, the exception
`SafeStateAsked` states. `ResetSession` polls the safe state and the workcell before it disconnects;
a RESET that is refused has polled all the same.

Tests of this part, whose sentences the properties generalise: `src/tests/workcell_tests.cpp:461, 494,
529, 567, 599, 648, 678`.

### How CoppeliaSim and CoppeliaSession correspond to the code

`device` is the backend's flags (`motion_active`, `stop_active`, `pending_tool_command`,
`stable samples`, attachment and release requests, `safe_requested`, ...) with the part of the scene
they act on: whether the simulation runs, the pose of the arm (home, pick, place), the motor of the
gripper between closed (0) and open (`Travel`), the workpiece and whether it is held, one output. A
poll of a motion moves the arm on its way, a snapshot moves the motor of the gripper one step. A pose is one of `Poses`: the tests of
distance are equality of places. A Remote API call that throws is modelled at the first such call of
a function; `RequestSafeState` may do part of its work and report a failure.

In `CoppeliaSession` the answers of robot and workcell are the device's, as in `ScriptedSession`. A
tool command stays pending in the backend when its SET_TOOL ends otherwise than by success, until a
safe state is asked for, a new command is given or a new connection is made; `ReleasedOnCommand` and `SafeStateLasts`
say that it does no harm. `PrepareResult` forgets the connection, so a new task connects and builds
the scene anew. `SET_TOOL OPEN` succeeds only with the workpiece at PLACE.

### How CliRun corresponds to the code

`step` says where `main` is: `loop` (over `Advance`), stopping the simulation, the barrier's own steps
(clear both files, publish, wait), disconnecting, quitting, `exited` or `killed`. Each of the three
lifecycle operations may throw; `main` records the failure and goes on. The files `ready` and
`continue` hold a record of this run, of another one, or are missing. `script` says where
`run_scenario` is; it runs in a fresh directory, and confirms the capture in a `finally` clause, so a
failed capture is confirmed too. Without the script a *person* may read and write the files at any
time (external), which gives the barrier stale and late answers. `setup` names what was started: a
plain CLI run, a run with evidence by hand, the script's normal and ESTOP scenarios. `main` submits
no control but the ESTOP of its options; the plain setup stands for the bridge as well, which drives this
backend in the same way (`bridge_node.cpp:454-487`), and so takes all controls.

`Verified` is the verdict of `verify_case` on exit code, state and outputs; joints, collisions, the
order of the trace and the artefacts are not modelled, so the model calls more runs verified than
the script does, which makes `VerifiedIsGenuine` stronger.

### How Bridge corresponds to the code

`bridge_node.cpp` has two threads. The *executor* (`rclcpp::spin`, one thread) runs the callbacks of
the action server and of the service one after the other and destroys the node in the end; the
*worker* (`RuntimeWorker::Run`) owns the session and the clock. They share `requests_` and `stopping_`
under a mutex and three flags without one. A step of `Bridge` is what a thread does between two
accesses to something shared, so `CancelGoal` takes three steps (`CancelGoal`, `ClaimCancel`,
`QueueCancel`) and the end of a goal four (`EndGoal`, `ClearTaskActive`, `ClearReservation`,
`ClearCancel`); `executor` and `worker` say where each thread is. What the worker does with the session
inside one step is an action of `RuntimeSession`: `StartProgram` takes `SubmitProgram`,
`AdvanceSession` takes `Advance`, or `AdvanceIdles` where the call changes nothing.

The handle of a goal belongs to `rclcpp_action`, which is not in the repository. From the way the bridge
uses it the model takes that a cancel is offered to `CancelGoal` while the goal executes, and that the
handle is canceling once `CancelGoal` has accepted (`AnswerCancel`). `CancelGoal` enqueues the STOP
before it answers, so the worker can report `canceled` first; the model lets the handle end, the real
library would refuse (listed under `hazards`). `ranFor` is a history variable: the goal whose program the
session accepted last.

A program that reaches `StartProgram` while a goal is active would be dropped there; `GoalHasItsPlace`
shows that none does, and the branch has no action. After the loop the executor waits in `join`, so
the last steps need no interleaving. Publishing, configuration, text sizes and a workcell are left out.

## Runs

| Run | Question | Distinct states |
|---|---|---|
| `session_motion` | a motion, delays or waits, two controls of any kind, two submissions, any failure, a connection that outlives the task (as the CLI keeps it) and may be lost late: stops, alarms, emergencies, the contract | 226 000 |
| `session_programs` | motions, delays, outputs, waits and tools in a row, PAUSE/RESUME/STOP/ESTOP, inputs that come, go and coincide with controls, a lost connection; any device and five scripts of a scripted one: progress, budgets, plans, ends | 108 000 |
| `workcell` | one program per kind of command the workcell is polled for, any snapshots, two controls of any kind: safe states, fresh evidence, RESET | 339 000 |
| `simulator` | pick-and-place and shorter tasks on CoppeliaSim, two controls of any kind, failing calls, clean-up, barrier and script | 224 000 |
| `kernels` | the heap implements the list; the validator accepts the reference language on all programs of at most five commands | 66 000 |
| `bridge_goals` | two goals, their cancels, one STOP of the service, a queue of one request, the end of the node at any moment | 1 535 000 |
| `bridge_controls` | a goal, its cancel and one control of any kind before, during or after it, a queue of two: controls act, goals and the shutdown end | 173 000 |
| `reset_unconfirmed`, `rejection_blocks`, `emergency_latched` | three statements of tests and documents the session does not keep | |
| `cancel_forgotten`, `cancel_paused` | what the bridge's README says of a cancel, as an invariant and as a promise | |

The session, CLI and bridge runs set `CHECK_DEADLOCK FALSE`: a terminal session whose host has used up
its controls and submissions stops, and so do a CLI that has exited and a bridge whose node is
destroyed, as they really do. So does the queue in `kernels` when its `MaxSequence` stamps are used up.

**Bounds.** `MaxControls`, `MaxSubmissions`, `HostTimeLimit` and the small `Scenario` bound the host. Two
controls reach every pair of a control and one that overtakes, escalates or follows it;
`session_programs` adds a PAUSE that the scenario schedules, for pause, resume and one more. Two
submissions reach a session that is used again. Time limits of 2 or 3 with polls after 1 or 2 give a
poll before, at and after every deadline; a delay of 10 is longer than every limit. `MaxTime`
is the end of the int64 range seen from nearby: in `session_motion` (4) and `workcell` (3) commands,
resumed commands, polls and stop deadlines do run into it, in `session_programs` (7) the last commands
of a program do, in the simulator only the delay made for it. `workcell` has `SafeTimeout = 0`, so that the safe state's deadline
falls before, on and after that of the stop, and generations 0 and 1, enough for one that is new and
one that is not. In `simulator` a motion takes `MotionSteps = 2` polls, the gripper `Travel = 2` steps and
`StableSteps = 2` samples, so that a control, a fault and the end of a task fall before, during and
after each. `PerilousTasks` names the tasks in which calls of the simulator fail; in the others they
succeed, which keeps the long pick-and-place task small. In the bridge `MaxGoals`, `MaxServices` and
`Capacity` bound the clients and the queue: two goals are what it takes for one to leave something
behind for the other, and a queue of one or two requests is full as soon as a control waits.
`ShutdownLimit` (10000 in the code) is 1 or 2, too short for the stop to be confirmed and just long
enough; its `MaxControls` and `MaxSubmissions` are large enough never to hold the worker up
(`BridgeAssumption`). In `kernels`, `Capacity` 3 gives the heap both children of its root. Nothing else
is bounded: the event queue and the generations of commands are finite because what fills them is.

**Fairness.** `WF(~terminal /\ Advance)`, in each of its forms: `Execute`, `main` and the worker of the
bridge call `Advance` until the task is terminal, and no longer. An `Advance` that changes nothing
happens in code only when the session is paused or idle with an empty queue; the model has no such
step, so no stuttering satisfies the fairness condition. In `RunSpec` the steps of `main` after its loop
and those of the script, once started, are weakly fair as well: both are processes of the operating
system, and every wait of theirs has a time limit, which is what `EverythingEnds` rests on; the person
with the files is not. In the bridge both threads are weakly fair (`WorkerStep`, and `CallbackStep` for a
callback that has begun): they are threads of the operating system without a lock held across a wait.
Nothing is fair about the host's submissions, controls and clock, nor about a device: it may answer
"still moving" for ever, and `TaskEnds` holds because deadlines are events.

## What the violation runs show

- `reset_unconfirmed`. The test `ResetRejectsEveryFaultWhoseStopWasNotConfirmed`
  (`src/tests/lifecycle_control_tests.cpp:396`) states a rule. A command keeps its deadline while its
  motion is being stopped, and `HandleTimeout` (`runtime.cpp:1004`) does not look at the lifecycle. If
  the deadline passes before the device confirms the stop, `BeginFault` finds an episode pending and
  calls `FinishFault` at once: a trusted session with a recoverable alarm, which RESET accepts while
  the device may still be moving. With a workcell RESET also asks for a confirmed safe state, and the
  rule is kept: `ResetIsSafe`.
- `rejection_blocks`. The test `RejectedProgramDoesNotBlockTheNextSubmission`
  (`src/tests/roborun_tests.cpp:1070`) holds for a fresh session. After ESTOP and RESET the alarm
  history is not empty, `PrepareResult` copies it into the result, and the condition
  `result_.alarms.empty()` (`runtime.cpp:293`) fails: one refused program and the session accepts
  neither a program nor a RESET.
- `emergency_latched`. `src/ros2/README.md:25-32` sends a goal, ESTOP and RESET. If the short program is
  over when ESTOP arrives, `runtime.cpp:1358` latches the session without a device, `servo_disabled_`
  still has the value the program left, and `ResetSession` refuses for ever.
- `cancel_forgotten`. `src/ros2/README.md:37` says that a cancel waits for the confirmed stop. The worker
  clears `goal_reserved_` and `cancel_queued_` one after the other (`bridge_node.cpp:387`), and `CancelGoal`
  reads the first before it exchanges the second (503, 506). Either way the flag can be found or left
  set from the goal before, and the cancel of the next goal is accepted without a STOP.
- `cancel_paused`. The same sentence. A cancel that arrives while a PAUSE is being confirmed becomes a
  STOP the session ignores (`runtime.cpp:753`): the session pauses and the goal stays canceling.

## Hazards without a property

Of the hazards in `PROJECT.json` two have no property, each with its note. Reading the code for the
models brought up others of which no document says what should happen, so that nothing is claimed:

- an ESTOP during the stop of a fatal fault ends in `EmergencyStopped`, from which RESET is allowed
  although the primary alarm is not recoverable (`runtime.cpp:1335`);
- a WAIT_DI or SET_TOOL is satisfied at its start by the signal kept from the last snapshot, however
  old (`runtime.cpp:1561`);
- a full request queue refuses an ESTOP of the bridge's service like any other control
  (`bridge_node.cpp:545`);
- the record of the evidence barrier is scenario, id and generation (`cli_evidence_barrier.cpp:40`), so
  two runs with the same id are told apart only by the removal of the files; each run here has its own;
- a barrier that times out shows only in the exit status, which is 1 in the ESTOP scenario anyway
  (`main.cpp:524`).

## Proofs

The theorems hold for every value of the constants that satisfies the named assumptions: any programs,
scenario, inputs, poll delays, time limits, capacities and bounds. What the assumptions ask for, beyond
types, is what the code sees to:

- `ScenarioAssumption`: the scenario's events are ordered, whenever the task starts, and no connection loss
  is planned for time 0, which `ValidateScenario` refuses (`runtime.cpp:250`);
- `HeapAssumption`: times and priorities of events are integers;
- `WorkcellAssumption`: a session with a workcell has no scenario, which `main` allows for the mock only
  (`main.cpp:436`);
- `CoppeliaAssumption`: the tool of every SET_TOOL is the one gripper, another is refused by the workcell's
  check of the program (`workcell.cpp:325`); generations of snapshots are unbounded; the connection outlives
  the task;
- `TasksAssumption`: each way of starting `main` has its tasks, and ESTOP is a control `main` may give;
- `BridgeAssumption`: the bridge's session disconnects when its task ends (the default it is made with), and
  the bounds on controls and submissions never hold up the worker.

A proof that a step keeps an invariant has a lemma or a case for each handler.

**The queue and the validator.**

- `AlgorithmProofs!ScheduleKeepsOrder`: an insertion keeps a queue ordered. The events not later than
  the new one form a prefix (`RankCuts`), because being later is transitive along an ordered queue.
- `KernelProofs!HeapImplementsList`: `ImplementsList`. The stamps of stored events are distinct and below the
  counter (`HeapInv`), so every set of them has one order of service and no other (`ServiceExists`,
  `ServiceIsUnique`). A new event is the latest of its time and priority, so pushing it is `Schedule` on that
  order; `Clear` may set the counter back because nothing is left.
- `KernelProofs!ValidatorMeetsReference`: `AcceptsWellFormed`. The walk is a recursive function over
  positions, unfolded step by step (`ServoAfterSteps`); the reference asks for the last servo command before a
  position, which changes in the same steps (`PoweredStep`). The induction over the length of a program is an argument about the least position
  that would break the claim (`LeastNatural`), which needs no induction theorem with an operator parameter.

**The session.**

- `SessionTypeProofs!TypeCorrect`: `TypeOK`. One lemma for each way a task is stopped or ends, one
  per handler. It carries the range of business time: each deadline is either checked (`InRange`) or
  saturates.
- `SessionSafetyProofs!WorkConnected`: `WorkNeedsConnection`, which is inductive as it stands.
- `SessionSafetyProofs!StopIsWatched`: `StopEpisodeWatched`. The invariant is `EpisodeInv`: `TypeOK`,
  `StopEpisodeWatched` and `PauseHasCommand` (a pause episode has a command to pause). The last is
  needed because `HandleStopConfirmed` leaves `Pausing` only if a command is active. A handler that
  does not touch the episode takes only the head of the queue, which is not an event of the pending
  episode, or schedules one more event, which removes none (`WatchedTail`, `WatchedSchedule`); a poll
  of the episode either reschedules itself by the deadline or ends it.
- `SessionSafetyProofs!NoWorkWhileAlarmed`, `UntrustedStays`: `AlarmInv` adds that a pending stop under an
  alarm is one for a fault or an emergency, that a fault's stop has its alarm, and that a session that has
  ended is terminal; with `EpisodeInv` it is inductive (`SafetyInv`). The action properties
  `StopIsNotEscaped` and `EmergencyEndsConfirmed` follow from it and one more look at each handler.
- `SessionSafetyProofs!CommandIsWatched`: a command at work has a deadline, and the event that ends it
  at that deadline is in the queue (`CommandInv`). The deadline is needed because a handler drops the
  event of a command without one as stale.
- `SessionContractProofs!StillWhenReported`: `StandsStill`. With all of the above known (`KnownInv`),
  `HandleNextCommand` cannot overwrite a command at work, whose event is still to come, and
  `BeginStop` asks the device, since the session is connected.
- `SessionContractProofs!SessionKeepsContract`: the refinement `KeepsContract`. Under `ContractInv`
  each handler's step is, through the mapping of `SessionRefinement`, one step of `SessionContract`
  or a stutter; the facts about stops and alarms are what rules the forbidden changes of phase out.
- `SessionContractProofs!BudgetIsKept`: what is left of a command at work is at most what it started or
  resumed with (`BudgetInv`), so that a pause, which stores what is left, cannot add to it.
- `SessionContractProofs!QueueInOrder`, `EmergencyServedFirst`: every handler keeps the session's queue
  ordered, an ESTOP is the only event of priority 0, so a due one is at the head; an `Advance` that
  finds it there ends in an emergency stop, its end or a fault.
- `SessionContractProofs!ProgramIsKept`, `CompletedRanAll`: a program the session runs was accepted, so its
  STOP is its last command and its only one; `ProgressInv` ties `next`, the active command and the outcome
  to it. `StaysInProgram` is what justifies leaving out the branch that runs out of commands.
- `SessionContractProofs!SuccessIsEarned`: `EarnedSuccess`. The servo of a connected session that runs is
  what the accepted program makes it after its commands so far (`ServoAfterSteps` again), and the end of
  a delay that is in the queue with the present generation is at its deadline, an older one is stale, also after
  pauses (`DelayInv`).

**With a workcell** (`WorkcellProofs`). Each step is one of the session without a workcell, for which the lemmas
above hold as they are, or one of the few only a workcell brings about (`WorkcellKept`). Through this
`WorkcellKeepsSession` carries types, stop episodes, active commands, alarms and connection over. It leaves out
`UntrustedIsFinal`, which is not true here: a RESET whose disconnection fails leaves an untrusted session in
`EmergencyStopped`.
`SafeStateAsked` is inductive together with the session's invariants (`WorkcellInv`). `EmergencyEndsSafe` and
`ResetEndsSafe` rest on `SafeMeansStill`: a confirmed safe state means a device that stands still, until a RESET or a new
program has the safe state forgotten. `PolledTillTheEnd` rests on `PolledInv`: as long as the deadline of a waiting
command has not come, a poll of its present generation is in the queue by then. `EvidenceIsFresh` and `ResetEndsSafe` classify the steps once
(`StepKinds`): which leave the task alone, which pass a command and on what evidence.

**CoppeliaSim, `main` and the capture script** (`CliProofs`).

- `SimulatorDrivesSession`: `RunSpec => WorkcellSpec`. Each joined step is a step of the session with some
  workcell, with the device's snapshot, generation and delay as the choice (`DeviceIsWorkcell`); the programs are
  among those the session may be given. All of `WorkcellProofs` therefore holds of a run of the CLI.
- `DeviceInStep`, `SafeStateStays`, `HoldsUntilToldToOpen`: first what each function of the device keeps, then what
  the session does with them (`DrivenInv`): the device obeys the session's belief about motion, stop and servo; a
  confirmed safe state leaves it secure, and so does every call the session still makes; a motor on its way to
  open belongs to the SET_TOOL that runs; a backend without a connection is driven by nobody.
- `PassedToolsHaveWorked`: the device reports a tool as done only after the workpiece was seen held, or at its
  place, for as many samples as it asks for (`SettledTool`, `DoneWork`), and the session's SET_TOOL is the command
  the device works on.
- `ConfirmedByThisRun`, `VerifiedCasesAreGenuine`: `CliInv`. The files hold a record of this run only after this run has
  published it, whoever writes the confirmation has looked at the scene of the stopped simulation, and `main`'s result
  is what the script reads. For an ESTOP case, a snapshot that was counted means that the session is still
  connected (`EvidenceInv`), so the simulation that `main` stops is the one that ran.

**The bridge** (`BridgeProofs`).

- `BridgeTypeCorrect`, `GoalIsNeverLost`, `ShutdownLeavesNoGoal`: `BridgeInv` says of a goal without a result that
  exactly one place holds it (the executor, the queue, the request at hand, the active goal) and that all of them
  need the reservation, which the worker gives back only when they are empty. That makes it inductive
  whatever the session does, of which nothing is used.
- `EstopComesFirst` follows from the queue having no ESTOP behind a program (`EstopBehind`), which `Enqueued`
  sees to and Shutdown's STOP at the front does not disturb. `CanceledByItsClient` rests on `CancelInv`: whatever
  could make the verdict on a goal `canceled`, a cancel behind it in the queue, one at hand, the flag, was asked
  for by its client.
- `BridgeDrivesSession`: the session behind the bridge takes only steps of its own three calls
  (`SessionCalls`), and so keeps the invariants of the session's modules.
- `ResultIsOwn`: `OwnResult`. Between two goals the session is at rest, and while one is active the session runs
  its task, has ended it, or has refused its program and still says how badly an earlier one ended (`OwnInv`).
- `ControlsAreHandled`: `ControlsTakeEffect` for a station without a scenario (`Unscripted`). Nothing in the queue is
  then due in the past, and the one control is served before what is due with it, so the one `Advance` after
  `SubmitControl` takes it (`ControlInv`). The property speaks of such stations: the controls of a scenario wait in
  the same queue for their own time.

Only model-checked:

- liveness, which needs fairness and `ENABLED`: `TaskEnds`, `EverythingEnds`, `GoalsEnd`, `ShutdownEnds`;
- `PlansAreKept` of the scripted device;
- the five violations, which are counterexamples.

## Not modelled

- *Program parser, configuration, workcell catalogue, the scenario's loader*: text to data, pure
  functions of a file without state; what they yield are the constants of the models.
- *Screen capture, artefacts and reports* (`linux_gui_evidence.py`, most of `gui_evidence_capture.py`):
  I/O; `Screen` stands for the picture, as what the window showed when it was taken.
- *CoppeliaSim itself*: its scene graph, dynamics and geometry; `Connect`'s search for objects; what
  stopping the simulation does to the scene is external.
- *Options, printing, exit texts* of `main`, and hosts that pass no backend or no clock.
- *The action and service libraries of ROS 2*, but for what the bridge relies on.

## Plan

1. *(done)* event queue, validator, session, contract, and their runs; type correctness, connection
   and stop episodes proved.
2. *(done)* `WorkcellSession`: safe state, snapshot generations, outputs and tools by snapshot,
   revalidation in RESET.
3. *(done)* `ScriptedMock`/`ScriptedSession` and `CoppeliaSim`/`CoppeliaSession`: two devices whose answers are
   among those the session must expect, the servo of the device apart from the session's flag.
4. *(done)* `Bridge`, `BridgeProperties`: goals, cancels, controls and shutdown over two threads.
5. *(done)* `CliRun`: CLI, clean-up of the simulator, evidence barrier and capture script.
6. *(done)* Proofs of the session: alarms, commands, contract, budgets, order, progress through the program and
   `EarnedSuccess`; of the heap and the validator.
7. *(done)* Proofs of the workcell's invariants and action properties, of the bridge's goals, cancels, controls and
   results, and of the CLI's with its device and its script; the CLI refines a session with a workcell.
8. *(left)* The proof of `PlansAreKept`, with an invariant that ties the scripted device to the session as
   `DrivenInv` ties CoppeliaSim; the bridge around a `CoppeliaSession`, which the code allows.
