------------------------- MODULE WorkcellProperties -------------------------
(***************************************************************************)
(* What must hold of a Runtime Session with a workcell.                    *)
(***************************************************************************)
EXTENDS WorkcellSession

(***************************************************************************)
(* The workcell is not forgotten when the robot stops: whichever command,  *)
(* poll, timeout or control raised the first alarm of a connected task,    *)
(* the workcell has been asked for its safe state, and so it has before an *)
(* emergency or fault stop can be confirmed.  The one exception is a       *)
(* session made untrusted by a stop or a clean-up that failed: FailStop    *)
(* asks for nothing.                                                       *)
(***************************************************************************)
SafeStateAsked ==
  /\ stop.disp \in {"Fault", "Emergency"} => safeRequested
  /\ primary # "None" /\ connected /\ ~untrusted => safeRequested

(***************************************************************************)
(* An emergency stop of a connected task is reported as reached only when  *)
(* the device stands still, its servo is off and the workcell has          *)
(* confirmed its safe state by the deadline of the first request, which    *)
(* may have been a fault's.                                                *)
(***************************************************************************)
EmergencyIsSafe ==
  [][ lifecycle = "EmergencyStopping" /\ lifecycle' = "EmergencyStopped" =>
        /\ ~moving' /\ servoDisabled'
        /\ safeConfirmed' /\ now' <= safeDeadline /\ safeGeneration' >= lastGeneration ]_allVars

(***************************************************************************)
(* IgnoresRepeatedWorkcellGeneration: a command that waits for the         *)
(* workcell is passed only by a snapshot newer than every one the session  *)
(* has counted before, that shows what the command waits for.              *)
(***************************************************************************)
FreshEvidence ==
  [][ Passed /\ active.type \in {"WAIT_DI", "SET_TOOL", "SET_DO"} =>
        /\ lastGeneration' > lastGeneration
        /\ input'[Wanted.input] = Wanted.want ]_allVars

(***************************************************************************)
(* A command that waits for the device or the workcell is polled again and *)
(* again, with its present generation, until its deadline; then the event  *)
(* of the deadline is there.                                               *)
(***************************************************************************)
PolledUntilDeadline ==
  HasActive /\ lifecycle = "Running" /\ active.type # "DELAY" =>
    /\ Pending(TimeoutEvent(active))
    /\ \/ now >= active.deadline
       \/ \E n \in DOMAIN queue :
            /\ queue[n].type = "MotionPoll" /\ queue[n].gen = active.gen
            /\ queue[n].time <= active.deadline

(***************************************************************************)
(* ResetRequiresFreshCollisionFreeWorkcellRevalidation: with a workcell no *)
(* RESET is accepted before the device has confirmed its stop, since the   *)
(* safe state is confirmed only then; the session is left disconnected and *)
(* its servo off.  (Without a workcell the code does not keep this, see    *)
(* ResetNeedsConfirmedStop.)                                               *)
(***************************************************************************)
ResetIsSafe ==
  [][ lifecycle' = "Idle" /\ lifecycle # "Idle" =>
        ~moving /\ servoDisabled' /\ ~connected' /\ ~untrusted' ]_allVars
=============================================================================
