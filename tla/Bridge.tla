------------------------------- MODULE Bridge -------------------------------
(***************************************************************************)
(* The ROS 2 bridge around one Runtime Session, bridge_node.cpp.           *)
(*                                                                         *)
(* Two threads.  The executor thread runs the callbacks of the action      *)
(* server and of the control service, one after the other, and destroys    *)
(* the node in the end.  The worker thread owns the session and calls it.  *)
(* They share a bounded queue of requests and three flags.  A step of the  *)
(* model is what one thread does between two accesses to shared state.     *)
(*                                                                         *)
(* The handle of a goal belongs to the action library: a client's cancel   *)
(* is offered to CancelGoal while the goal executes, and the handle        *)
(* becomes "canceling" when CancelGoal has accepted it.                    *)
(***************************************************************************)
EXTENDS RuntimeSession

CONSTANTS
  MaxGoals,       \* bound: goals the clients send
  MaxServices,    \* bound: controls the clients request from the service
  Capacity,       \* kRequestQueueCapacity
  ShutdownLimit   \* kShutdownAdvanceLimit

ASSUME BridgeAssumption ==
  /\ MaxGoals \in Nat \ {0} /\ MaxServices \in Nat
  /\ Capacity \in Nat \ {0} /\ ShutdownLimit \in Nat
  /\ DisconnectOnTerminal   \* MakeRuntimeOptions leaves the default
  \* the bounds of the session never stop the worker
  /\ MaxSubmissions >= MaxGoals
  /\ MaxControls >= MaxServices + MaxGoals + 2

VARIABLES
  goals,            \* the handles
  requests,         \* requests_
  stopping,         \* stopping_
  goalReserved,     \* goal_reserved_
  cancelQueued,     \* cancel_queued_
  taskActive,       \* task_active_
  executor,         \* where the executor thread is, and for which goal
  worker,           \* where the worker thread is
  current,          \* the request it has taken
  activeGoal,       \* active_goal_, 0 for none
  cancelRequested,  \* cancel_requested_
  advances,         \* the worker's step counter during the shutdown
  services,         \* bound: controls requested so far
  ranFor            \* history: the goal whose program the session accepted last

sharedVars == <<requests, stopping, goalReserved, cancelQueued, taskActive>>
workerVars == <<worker, current, activeGoal, cancelRequested, advances, ranFor>>
bridgeVars == <<goals, sharedVars, executor, workerVars, services>>

Goals == 1 .. MaxGoals
Unsent == "unsent"
Ended == {"succeeded", "canceled", "aborted", "rejected"}
ExecutorPlaces == {"spinning", "enqueuing", "claiming", "queuing", "answering", "joining"}
WorkerPlaces == {"waiting", "processing", "rejecting", "advancing", "finishing", "inactive",
                 "unreserving", "forgetting", "draining", "stopping", "closing", "done"}

ProgramRequest(g) == [kind |-> "Program", goal |-> g]
ControlRequest(c, cancel) == [kind |-> "Control", control |-> c, cancel |-> cancel]
NoRequest == [kind |-> "None"]
Request ==
  {ProgramRequest(g) : g \in Goals} \cup
  {ControlRequest(c, cancel) : c \in Controls, cancel \in BOOLEAN}

BridgeInit ==
  /\ Init
  /\ goals = [g \in Goals |-> Unsent]
  /\ requests = <<>> /\ stopping = FALSE
  /\ goalReserved = FALSE /\ cancelQueued = FALSE /\ taskActive = FALSE
  /\ executor = [at |-> "spinning", goal |-> 0]
  /\ worker = "waiting" /\ current = NoRequest /\ activeGoal = 0
  /\ cancelRequested = FALSE /\ advances = 0
  /\ services = 0 /\ ranFor = 0

-----------------------------------------------------------------------------
(***************************************************************************)
(* The executor thread.                                                    *)
(***************************************************************************)
\* Slip: the queue has no limit.
CanEnqueueUnbounded == ~stopping

\* Enqueue, under the mutex.
CanEnqueue == ~stopping /\ Len(requests) < Capacity

\* Slip: an ESTOP waits its turn.
EnqueuedInOrder(r) == Append(requests, r)

\* An ESTOP goes to the front.
Enqueued(r) ==
  IF r.kind = "Control" /\ r.control = "ESTOP" THEN <<r>> \o requests ELSE Append(requests, r)

Spinning == executor.at = "spinning"
ExecutorAt(place, g) == executor' = [at |-> place, goal |-> g]

SendsNext(g) == goals[g] = Unsent /\ \A f \in Goals : f < g => goals[f] # Unsent

\* Slip: the reservation is read but not made.
AcceptGoalUnreserved(g) ==
  /\ Spinning /\ SendsNext(g)
  /\ ~goalReserved
  /\ goals' = [goals EXCEPT ![g] = "executing"] /\ ExecutorAt("enqueuing", g)
  /\ UNCHANGED <<vars, sharedVars, workerVars, services>>

\* goal_reserved_.exchange(true) decides.
AcceptGoal(g) ==
  /\ Spinning /\ SendsNext(g)
  /\ goalReserved' = TRUE
  /\ IF goalReserved
     THEN goals' = [goals EXCEPT ![g] = "rejected"] /\ UNCHANGED executor
     ELSE goals' = [goals EXCEPT ![g] = "executing"] /\ ExecutorAt("enqueuing", g)
  /\ UNCHANGED <<vars, requests, stopping, cancelQueued, taskActive, workerVars, services>>

AcceptGoalHandle ==
  /\ executor.at = "enqueuing"
  /\ IF CanEnqueue
     THEN requests' = Enqueued(ProgramRequest(executor.goal)) /\ UNCHANGED <<goals, goalReserved>>
     ELSE /\ goalReserved' = FALSE
          /\ goals' = [goals EXCEPT ![executor.goal] = "aborted"]
          /\ UNCHANGED requests
  /\ ExecutorAt("spinning", 0)
  /\ UNCHANGED <<vars, stopping, cancelQueued, taskActive, workerVars, services>>

(***************************************************************************)
(* CancelGoal reads goal_reserved_, exchanges cancel_queued_ and enqueues  *)
(* the STOP in three steps, between which the worker may finish the goal.  *)
(***************************************************************************)
CancelGoal(g) ==
  /\ Spinning /\ goals[g] = "executing" /\ goalReserved
  /\ ExecutorAt("claiming", g)
  /\ UNCHANGED <<vars, goals, sharedVars, workerVars, services>>

ClaimCancel ==
  /\ executor.at = "claiming"
  /\ cancelQueued' = TRUE
  /\ ExecutorAt(IF cancelQueued THEN "answering" ELSE "queuing", executor.goal)
  /\ UNCHANGED <<vars, goals, requests, stopping, goalReserved, taskActive, workerVars, services>>

QueueCancel ==
  /\ executor.at = "queuing"
  /\ IF CanEnqueue
     THEN /\ requests' = Enqueued(ControlRequest("STOP", TRUE))
          /\ ExecutorAt("answering", executor.goal)
          /\ UNCHANGED cancelQueued
     ELSE cancelQueued' = FALSE /\ ExecutorAt("spinning", 0) /\ UNCHANGED requests
  /\ UNCHANGED <<vars, goals, stopping, goalReserved, taskActive, workerVars, services>>

\* The library moves the handle on, unless the goal has ended meanwhile.
AnswerCancel ==
  /\ executor.at = "answering"
  /\ goals' = [goals EXCEPT ![executor.goal] = IF @ = "executing" THEN "canceling" ELSE @]
  /\ ExecutorAt("spinning", 0)
  /\ UNCHANGED <<vars, sharedVars, workerVars, services>>

SubmitServiceControl(c) ==
  /\ Spinning /\ services < MaxServices
  /\ services' = services + 1
  /\ requests' = IF CanEnqueue THEN Enqueued(ControlRequest(c, FALSE)) ELSE requests
  /\ UNCHANGED <<vars, goals, stopping, goalReserved, cancelQueued, taskActive, executor,
                 workerVars>>

\* The node is destroyed: Shutdown, then the executor thread joins the worker.
Shutdown ==
  /\ Spinning
  /\ stopping' = TRUE
  /\ requests' = IF taskActive THEN <<ControlRequest("STOP", FALSE)>> \o requests ELSE requests
  /\ ExecutorAt("joining", 0)
  /\ UNCHANGED <<vars, goals, goalReserved, cancelQueued, taskActive, workerVars, services>>

-----------------------------------------------------------------------------
(***************************************************************************)
(* The worker thread: Run.                                                 *)
(***************************************************************************)
AtHand(kind) == worker = "processing" /\ current.kind = kind
ExecutorIdles == UNCHANGED <<executor, services>>

TakeRequest ==
  /\ worker = "waiting" /\ requests # <<>>
  /\ current' = Head(requests) /\ requests' = Tail(requests)
  /\ worker' = "processing"
  /\ UNCHANGED <<vars, goals, stopping, goalReserved, cancelQueued, taskActive, activeGoal,
                 cancelRequested, advances, ranFor>>
  /\ ExecutorIdles

KeepRunning ==
  /\ worker = "waiting" /\ requests = <<>> /\ ~stopping
  /\ activeGoal # 0 /\ ~terminal
  /\ worker' = "advancing"
  /\ UNCHANGED <<vars, goals, sharedVars, current, activeGoal, cancelRequested, advances, ranFor>>
  /\ ExecutorIdles

\* Slip: the loop is left with requests still in the queue.
LeaveLoopAtOnce ==
  /\ worker = "waiting" /\ stopping
  /\ worker' = "draining"
  /\ UNCHANGED <<vars, goals, sharedVars, current, activeGoal, cancelRequested, advances, ranFor>>
  /\ ExecutorIdles

\* Slip: the loop is left only when the goal has ended.
LeaveLoopWhenEnded ==
  /\ worker = "waiting" /\ requests = <<>> /\ stopping /\ activeGoal = 0
  /\ worker' = "draining"
  /\ UNCHANGED <<vars, goals, sharedVars, current, activeGoal, cancelRequested, advances, ranFor>>
  /\ ExecutorIdles

LeaveLoop ==
  /\ worker = "waiting" /\ requests = <<>> /\ stopping
  /\ worker' = "draining"
  /\ UNCHANGED <<vars, goals, sharedVars, current, activeGoal, cancelRequested, advances, ranFor>>
  /\ ExecutorIdles

\* Slip: the request to cancel is that of the goal before.
TakeGoalKeepsCancel ==
  /\ activeGoal = 0
  /\ activeGoal' = current.goal /\ taskActive' = TRUE
  /\ current' = NoRequest
  /\ UNCHANGED <<goals, requests, stopping, goalReserved, cancelQueued, cancelRequested, advances>>
  /\ ExecutorIdles

\* StartProgram drops a program while a goal is active; there is none (GoalHasItsPlace).
TakeGoal ==
  /\ activeGoal = 0
  /\ activeGoal' = current.goal /\ taskActive' = TRUE /\ cancelRequested' = FALSE
  /\ current' = NoRequest
  /\ UNCHANGED <<goals, requests, stopping, goalReserved, cancelQueued, advances>>
  /\ ExecutorIdles

\* Slip: a text that does not parse is left to FinishGoalIfTerminal.
StartUnparsedFinishes ==
  /\ AtHand("Program") /\ TakeGoal
  /\ worker' = IF terminal THEN "finishing" ELSE "advancing"
  /\ UNCHANGED <<vars, ranFor>>

\* StartProgram: the text does not parse.
StartUnparsed ==
  /\ AtHand("Program") /\ TakeGoal
  /\ worker' = "rejecting"
  /\ UNCHANGED <<vars, ranFor>>

\* StartProgram: the session accepts the program or refuses it after a check of its own.
StartProgram ==
  /\ AtHand("Program") /\ TakeGoal
  /\ \E p \in Programs : SubmitProgram(p)
  /\ ranFor' = IF terminal' THEN ranFor ELSE current.goal
  /\ worker' = IF terminal' THEN "finishing" ELSE "advancing"

\* Slip: nobody ends the goal.
StartRefusedForgets ==
  /\ AtHand("Program") /\ TakeGoal
  /\ lifecycle \notin {"Idle", "Stopped"} /\ ~ReplaceableRejection
  /\ worker' = "waiting"
  /\ UNCHANGED <<vars, ranFor>>

\* StartProgram: the session has a program or is latched or faulted, and stays as it is.
StartRefused ==
  /\ AtHand("Program") /\ TakeGoal
  /\ lifecycle \notin {"Idle", "Stopped"} /\ ~ReplaceableRejection
  /\ worker' = IF terminal THEN "finishing" ELSE "advancing"
  /\ UNCHANGED <<vars, ranFor>>

\* Slip: a control is left in the session when no goal is active.
HandOverControlOnly ==
  /\ AtHand("Control")
  /\ SubmitControl(current.control)
  /\ cancelRequested' = (cancelRequested \/ current.cancel)
  /\ current' = NoRequest /\ worker' = IF activeGoal # 0 THEN "advancing" ELSE "waiting"
  /\ UNCHANGED <<goals, sharedVars, activeGoal, advances, ranFor>>
  /\ ExecutorIdles

\* SubmitControl of the worker, followed by one call of Advance in any case.
HandOverControl ==
  /\ AtHand("Control")
  /\ SubmitControl(current.control)
  /\ cancelRequested' = (cancelRequested \/ current.cancel)
  /\ current' = NoRequest /\ worker' = "advancing"
  /\ UNCHANGED <<goals, sharedVars, activeGoal, advances, ranFor>>
  /\ ExecutorIdles

\* Advance has nothing to do.
AdvanceIdles == ~MustProcessEvent /\ ~CallsNextCommand /\ UNCHANGED vars

AdvanceSession ==
  /\ worker = "advancing"
  /\ Advance \/ AdvanceIdles
  /\ worker' = IF activeGoal # 0 /\ terminal' THEN "finishing" ELSE "waiting"
  /\ UNCHANGED <<goals, sharedVars, current, activeGoal, cancelRequested, advances, ranFor>>
  /\ ExecutorIdles

(***************************************************************************)
(* FinishGoalIfTerminal and AbortWithDiagnostic end the handle, forget the *)
(* goal, and only then clear the flags, one after the other.               *)
(***************************************************************************)
Verdict ==
  IF outcome = "ProgramCompleted" THEN "succeeded"
  ELSE IF cancelRequested /\ outcome = "OperatorStopped" THEN "canceled"
  ELSE "aborted"

EndGoal ==
  /\ worker \in {"finishing", "rejecting"}
  /\ goals' = [goals EXCEPT ![activeGoal] = IF worker = "rejecting" THEN "aborted" ELSE Verdict]
  /\ activeGoal' = 0 /\ worker' = "inactive"
  /\ UNCHANGED <<vars, sharedVars, current, cancelRequested, advances, ranFor>>
  /\ ExecutorIdles

ClearTaskActive ==
  /\ worker = "inactive"
  /\ taskActive' = FALSE /\ worker' = "unreserving"
  /\ UNCHANGED <<vars, goals, requests, stopping, goalReserved, cancelQueued, current, activeGoal,
                 cancelRequested, advances, ranFor>>
  /\ ExecutorIdles

ClearReservation ==
  /\ worker = "unreserving"
  /\ goalReserved' = FALSE /\ worker' = "forgetting"
  /\ UNCHANGED <<vars, goals, requests, stopping, cancelQueued, taskActive, current, activeGoal,
                 cancelRequested, advances, ranFor>>
  /\ ExecutorIdles

ClearCancel ==
  /\ worker = "forgetting"
  /\ cancelQueued' = FALSE /\ cancelRequested' = FALSE /\ worker' = "waiting"
  /\ UNCHANGED <<vars, goals, requests, stopping, goalReserved, taskActive, current, activeGoal,
                 advances, ranFor>>
  /\ ExecutorIdles

(***************************************************************************)
(* After the loop.  The executor thread waits in join, so the flags are    *)
(* the worker's own.                                                       *)
(***************************************************************************)
BeginDrain ==
  /\ worker = "draining"
  /\ IF activeGoal # 0 /\ ~terminal
     THEN SubmitControl("STOP") /\ worker' = "stopping"
     ELSE UNCHANGED vars /\ worker' = "closing"
  /\ UNCHANGED <<goals, sharedVars, current, activeGoal, cancelRequested, advances, ranFor>>
  /\ ExecutorIdles

DrainStep ==
  /\ worker = "stopping" /\ ~terminal /\ advances < ShutdownLimit
  /\ Advance \/ AdvanceIdles
  /\ advances' = advances + 1
  /\ UNCHANGED <<goals, sharedVars, worker, current, activeGoal, cancelRequested, ranFor>>
  /\ ExecutorIdles

Forget ==
  /\ activeGoal' = 0 /\ taskActive' = FALSE /\ goalReserved' = FALSE /\ cancelQueued' = FALSE
  /\ UNCHANGED <<vars, requests, stopping, current, advances, ranFor>>
  /\ ExecutorIdles

\* AbortForUnconfirmedShutdown when the limit is reached.
EndDrain ==
  /\ worker = "stopping" /\ (terminal \/ advances = ShutdownLimit)
  /\ worker' = "closing"
  /\ IF terminal
     THEN UNCHANGED <<vars, goals, sharedVars, current, activeGoal, advances, ranFor>>
          /\ ExecutorIdles
     ELSE goals' = [goals EXCEPT ![activeGoal] = "aborted"] /\ Forget
  /\ UNCHANGED cancelRequested

Close ==
  /\ worker = "closing" /\ worker' = "done"
  /\ IF activeGoal # 0 /\ terminal
     THEN goals' = [goals EXCEPT ![activeGoal] = Verdict] /\ cancelRequested' = FALSE /\ Forget
     ELSE /\ UNCHANGED <<vars, goals, sharedVars, current, activeGoal, cancelRequested, advances,
                         ranFor>>
          /\ ExecutorIdles

-----------------------------------------------------------------------------
CallbackStep == AcceptGoalHandle \/ ClaimCancel \/ QueueCancel \/ AnswerCancel

ExecutorStep ==
  \/ \E g \in Goals : AcceptGoal(g) \/ CancelGoal(g)
  \/ \E c \in ControlsUsed : SubmitServiceControl(c)
  \/ CallbackStep
  \/ Shutdown

WorkerStep ==
  \/ TakeRequest \/ KeepRunning \/ LeaveLoop
  \/ StartUnparsed \/ StartProgram \/ StartRefused
  \/ HandOverControl \/ AdvanceSession
  \/ EndGoal \/ ClearTaskActive \/ ClearReservation \/ ClearCancel
  \/ BeginDrain \/ DrainStep \/ EndDrain \/ Close

BridgeNext == ExecutorStep \/ WorkerStep

(***************************************************************************)
(* Both threads run.  Nothing obliges a client to send, cancel or request  *)
(* anything, nor the node to be destroyed.                                 *)
(***************************************************************************)
BridgeSpec ==
  /\ BridgeInit /\ [][BridgeNext]_<<vars, bridgeVars>>
  /\ WF_<<vars, bridgeVars>>(WorkerStep) /\ WF_<<vars, bridgeVars>>(CallbackStep)
=============================================================================
