-------------------------- MODULE BridgeProperties --------------------------
(***************************************************************************)
(* What must hold of the bridge.                                           *)
(***************************************************************************)
EXTENDS Bridge, FiniteSets

Unfinished(g) == goals[g] \in {"executing", "canceling"}
CancelWaits(r) == r.kind = "Control" /\ r.cancel

(***************************************************************************)
(* The types of the bridge's own state.  Only the STOP of Shutdown may     *)
(* take a place beyond the capacity of the queue.                          *)
(***************************************************************************)
BridgeTypeOK ==
  /\ goals \in [Goals -> {Unsent, "executing", "canceling"} \cup Ended]
  /\ requests \in Seq(Request) /\ Len(requests) <= Capacity + (IF stopping THEN 1 ELSE 0)
  /\ stopping \in BOOLEAN /\ goalReserved \in BOOLEAN /\ cancelQueued \in BOOLEAN
  /\ taskActive \in BOOLEAN /\ cancelRequested \in BOOLEAN
  /\ executor \in [at : ExecutorPlaces, goal : Goals \cup {0}]
  /\ worker \in WorkerPlaces /\ current \in Request \cup {NoRequest}
  /\ activeGoal \in Goals \cup {0} /\ ranFor \in Goals \cup {0}
  /\ advances \in 0 .. ShutdownLimit /\ services \in 0 .. MaxServices

(***************************************************************************)
(* A goal that was accepted and has no result yet is nowhere lost: it is   *)
(* reserved, it is the only one, and exactly one of the two threads has    *)
(* it - the executor about to enqueue it, the queue, or the worker.  So    *)
(* the worker never meets a program while a goal is active, which          *)
(* StartProgram (bridge_node.cpp:237) would drop without a result.         *)
(***************************************************************************)
Places(g) ==
  {place \in {"executor", "queue", "taken", "active"} :
     \/ place = "executor" /\ executor = [at |-> "enqueuing", goal |-> g]
     \/ place = "queue" /\ \E n \in DOMAIN requests : requests[n] = ProgramRequest(g)
     \/ place = "taken" /\ current = ProgramRequest(g)
     \/ place = "active" /\ activeGoal = g}

GoalHasItsPlace ==
  \A g \in Goals : Unfinished(g) =>
    /\ goalReserved
    /\ Cardinality(Places(g)) = 1
    /\ \A f \in Goals : Unfinished(f) => f = g

(***************************************************************************)
(* When the worker has ended no goal is left without a result, whatever    *)
(* was in the queue when the node was destroyed, and whether or not the    *)
(* device confirmed the stop within kShutdownAdvanceLimit calls.           *)
(***************************************************************************)
ShutdownEndsGoals == worker = "done" => \A g \in Goals : ~Unfinished(g)

(***************************************************************************)
(* A control that reached the session is handled there before the worker   *)
(* waits again, also when no goal is active and nobody calls Advance.      *)
(***************************************************************************)
ControlsTakeEffect ==
  worker = "waiting" /\ activeGoal = 0 =>
    \A n \in DOMAIN queue : queue[n].type # "Control"

(***************************************************************************)
(* No program is started past an ESTOP that waits in the queue, whichever  *)
(* of the two the clients sent first and whatever Shutdown puts before     *)
(* them.                                                                   *)
(***************************************************************************)
EstopOvertakes ==
  [][current # current' /\ current'.kind = "Program" =>
       \A n \in DOMAIN requests :
         requests[n].kind = "Control" => requests[n].control # "ESTOP"
    ]_<<vars, bridgeVars>>

(***************************************************************************)
(* A goal that succeeds or is canceled reports the run of its own program, *)
(* never what the session still says of an earlier one; a goal that        *)
(* succeeds ran to the end with the device standing still.                 *)
(***************************************************************************)
OwnResult ==
  [][\A g \in Goals :
       /\ goals[g] # goals'[g] /\ goals'[g] \in {"succeeded", "canceled"} => ranFor = g
       /\ goals[g] # goals'[g] /\ goals'[g] = "succeeded" => next = Len(program) + 1 /\ ~moving
    ]_<<vars, bridgeVars>>

(***************************************************************************)
(* A goal is reported canceled only if its own client asked for it: the    *)
(* handle is canceling or the answer to the client is under way.  A cancel *)
(* of the goal before, or a STOP of the service, does not count.           *)
(***************************************************************************)
CanceledWasAsked ==
  [][\A g \in Goals :
       goals[g] # goals'[g] /\ goals'[g] = "canceled" =>
         goals[g] = "canceling" \/ executor = [at |-> "answering", goal |-> g]
    ]_<<vars, bridgeVars>>

(***************************************************************************)
(* Every accepted goal gets a result, unless the program is paused.        *)
(***************************************************************************)
GoalsEnd == \A g \in Goals : Unfinished(g) ~> ~Unfinished(g) \/ lifecycle = "Paused"

(***************************************************************************)
(* The executor thread does not wait in join for ever, whatever the        *)
(* session does and even when it is paused.                                *)
(***************************************************************************)
ShutdownEnds == stopping ~> worker = "done"

-----------------------------------------------------------------------------
(***************************************************************************)
(* src/ros2/README.md:37: a cancel waits for the confirmed stop and        *)
(* returns canceled, or aborted when the stop is not confirmed.            *)
(***************************************************************************)

(***************************************************************************)
(* Stated of every moment: a goal that is canceling has a STOP of its own  *)
(* on its way to the session, or the session has it.                       *)
(***************************************************************************)
CancelIsUnderWay ==
  \A g \in Goals : goals[g] = "canceling" =>
    \/ cancelRequested \/ CancelWaits(current)
    \/ \E n \in DOMAIN requests : CancelWaits(requests[n])

(***************************************************************************)
(* Stated of the end: a goal that is canceling gets its result.            *)
(***************************************************************************)
CancelEndsGoal == \A g \in Goals : goals[g] = "canceling" ~> ~Unfinished(g)
=============================================================================
