------------------------- MODULE SessionProperties -------------------------
(***************************************************************************)
(* What must hold of a Runtime Session.                                    *)
(***************************************************************************)
EXTENDS RuntimeSession

Pending(e) == \E n \in DOMAIN queue : queue[n] = e

(***************************************************************************)
(* Only a connected session has an active command or a stop episode: the   *)
(* clean-up that disconnects (FinishFault, FinishTerminal) comes after     *)
(* both are gone, so a stop is always asked of the device and never        *)
(* confirmed by BeginStop on its own.                                      *)
(***************************************************************************)
WorkNeedsConnection == HasActive \/ StopPending => connected

(***************************************************************************)
(* A stop episode cannot be lost: as long as one is pending the lifecycle  *)
(* says so, with the disposition of the latest request, and the queue      *)
(* holds both a poll of this very episode, due by its deadline, and the    *)
(* event of the deadline - whatever was paused, escalated, faulted, timed  *)
(* out or submitted in between.                                            *)
(***************************************************************************)
PollPending ==
  \E n \in DOMAIN queue :
    queue[n].type = "StopPoll" /\ queue[n].id = stop.id /\ queue[n].time <= stop.deadline

StopEpisodeWatched ==
  /\ StopPending <=> lifecycle \in {"Pausing", "Stopping", "EmergencyStopping"}
  /\ StopPending =>
       lifecycle = StopLifecycle(stop.disp) /\ PollPending /\ Pending(StopTimeoutEvent(stop))

(***************************************************************************)
(* An active command that is under way has the event that ends it at its   *)
(* deadline in the queue, with its present generation: a pause and resume  *)
(* never leaves it waiting for an event of an earlier generation.          *)
(***************************************************************************)
ActiveCommandWatched ==
  HasActive /\ lifecycle \in {"Running", "Waiting"} =>
    Pending(IF active.type = "DELAY" THEN DelayCompleteEvent(active) ELSE TimeoutEvent(active))

(***************************************************************************)
(* HandleNextCommand has no guard of its own against a busy session.  It   *)
(* is only reached with nothing under way and a command left to start, so  *)
(* no command is submitted twice and a validated program never runs into   *)
(* "program ended without a terminal command".                             *)
(***************************************************************************)
StaysInProgram ==
  CallsNextCommand =>
    lifecycle = "Running" /\ ~HasActive /\ ~StopPending /\ next \in DOMAIN program

(***************************************************************************)
(* A session that reports Paused or Stopped has had the device confirm     *)
(* that the last motion is over.  As long as nothing has gone wrong a      *)
(* motion that is under way belongs to the active command, so the session  *)
(* knows that a pause or a stop has to ask the device.                     *)
(***************************************************************************)
InOrder == lifecycle \in {"Running", "Waiting", "Pausing"} \/ stop.disp \in {"ProgramComplete", "OperatorStop"}

StandsStill ==
  moving => lifecycle \notin {"Paused", "Stopped"} /\ (InOrder => active.type = "MOVEJ")

(***************************************************************************)
(* From the first alarm on the session only stops: it neither runs, pauses *)
(* nor reports a normal stop before a RESET has cleared the alarms.        *)
(***************************************************************************)
NoWorkUnderAlarm ==
  primary # "None" => lifecycle \in {"Stopping", "EmergencyStopping", "EmergencyStopped", "Faulted"}

(***************************************************************************)
(* A session whose clean-up or stop failed is never handed out again: no   *)
(* control and no later event brings it back to Idle or to an orderly end. *)
(***************************************************************************)
UntrustedIsFinal ==
  untrusted => lifecycle \in {"Stopping", "EmergencyStopping", "Faulted"} /\ primary # "None"

(***************************************************************************)
(* ProgramCompleted is reported only when every command of the program was *)
(* passed, the last one by a confirmed stop.                               *)
(***************************************************************************)
CompletedMeansAllRan ==
  outcome = "ProgramCompleted" =>
    /\ next = Len(program) + 1
    /\ ~moving

(***************************************************************************)
(* A command is passed only when what it waits for has happened: its full  *)
(* time for a DELAY, its input for a wait, an end of the motion for a      *)
(* MOVEJ.  No event of an earlier command or generation passes it.         *)
(***************************************************************************)
Passed == HasActive /\ next' = next + 1

EarnedSuccess ==
  [][ Passed =>
        /\ active.type = "DELAY" => now' >= active.deadline
        /\ active.type \in {"WAIT_DI", "SET_TOOL"} =>
             input'[program[active.index].input] = program[active.index].want
        /\ ~moving' ]_vars

(***************************************************************************)
(* Nothing that completes by itself escapes a stop: once a stop is pending *)
(* for other reasons than a pause or the program's own STOP, the program   *)
(* makes no more progress.                                                 *)
(***************************************************************************)
NoEscapeFromStop ==
  [][ StopPending /\ stop.disp \in {"OperatorStop", "Emergency", "Fault"} =>
        next' = next /\ lifecycle' \notin {"Running", "Waiting", "Paused"} ]_vars

(***************************************************************************)
(* An emergency stop asked of a device ends in EmergencyStopped only with  *)
(* the device confirmed still and its servo disabled, and otherwise in a   *)
(* fault under an alarm (README.md:104: the application's ESTOP needs      *)
(* confirmation by device feedback).                                       *)
(***************************************************************************)
EmergencyIsConfirmed ==
  [][ lifecycle = "EmergencyStopping" /\ lifecycle' # lifecycle =>
        \/ lifecycle' = "EmergencyStopped" /\ ~moving' /\ servoDisabled'
        \/ lifecycle' = "Faulted" /\ primary' # "None" ]_vars

(***************************************************************************)
(* An ESTOP whose time has come takes effect in the very next call of      *)
(* Advance, whatever else is due at the same instant and whatever the      *)
(* session is doing; only what is due from an earlier instant precedes it. *)
(* The bounds and the clock stand still in that call and in no step of the *)
(* host.                                                                   *)
(***************************************************************************)
EstopDue ==
  \E n \in DOMAIN queue :
    /\ queue[n].type = "Control" /\ queue[n].control = "ESTOP"
    /\ queue[n].time <= now /\ queue[n].time = Head(queue).time

EmergencyFirst ==
  [][ EstopDue /\ UNCHANGED <<now, boundVars>> =>
        lifecycle' \in {"EmergencyStopping", "EmergencyStopped", "Faulted"} ]_vars

(***************************************************************************)
(* A pause takes a command's time budget along: what is left never grows,  *)
(* and a resumed command gets exactly what was left.                       *)
(***************************************************************************)
PauseKeepsBudget ==
  [][ HasActive /\ active'.index = active.index =>
        /\ active'.remaining <= active.remaining
        /\ lifecycle = "Paused" /\ lifecycle' \in {"Running", "Waiting"} =>
             active'.deadline = now' + active.remaining ]_vars

(***************************************************************************)
(* While the host advances a task that is not terminal, every stop episode *)
(* is resolved, and a running task ends or is paused.                      *)
(***************************************************************************)
TaskEnds ==
  /\ StopPending /\ ~terminal ~> ~StopPending
  /\ lifecycle \in {"Running", "Waiting"} ~> terminal \/ lifecycle = "Paused"

-----------------------------------------------------------------------------
(***************************************************************************)
(* Statements of the repository that the code does not keep; the README    *)
(* explains each counterexample.                                           *)
(***************************************************************************)

(***************************************************************************)
(* ResetRejectsEveryFaultWhoseStopWasNotConfirmed: RESET brings a session  *)
(* back to Idle only after the device confirmed that its motion is over.   *)
(***************************************************************************)
ResetNeedsConfirmedStop ==
  [][ lifecycle' = "Idle" /\ lifecycle # "Idle" => ~moving ]_vars

(***************************************************************************)
(* RejectedProgramDoesNotBlockTheNextSubmission: a session that is faulted *)
(* only because a submission was refused accepts the next one.             *)
(***************************************************************************)
RejectionDoesNotBlock ==
  lifecycle = "Faulted" /\ op = "Idle" => ReplaceableRejection

(***************************************************************************)
(* The bridge's example sends a program, then ESTOP, then RESET: a trusted *)
(* session that reports EmergencyStopped can be reset.                     *)
(***************************************************************************)
EmergencyCanBeReset ==
  lifecycle = "EmergencyStopped" => ResetAllowed
=============================================================================
