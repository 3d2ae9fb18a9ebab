---------------------------- MODULE CliProperties ----------------------------
(***************************************************************************)
(* What must hold of the CoppeliaSim backend in a session, and of the CLI  *)
(* around them.                                                            *)
(***************************************************************************)
EXTENDS CliRun

(***************************************************************************)
(* The gripper lets a held workpiece go only in a poll of a running        *)
(* SET_TOOL ... OPEN: never while the task is paused or stopped, never     *)
(* when a fault or an ESTOP has stopped the gripper at work, and never in  *)
(* the poll a RESET makes.  (A new connection builds the scene anew.)      *)
(***************************************************************************)
ReleasedOnCommand ==
  [][ device.held /\ ~device'.held /\ connected =>
        /\ lifecycle = "Running" /\ active.type = "SET_TOOL" /\ ~Wanted.want
        /\ device.motorTarget = Travel ]_runVars

(***************************************************************************)
(* A safe state that was confirmed stays safe as long as the session       *)
(* counts on it, whatever else it asks of the device: the output is off,   *)
(* the gripper has nothing left to do, the robot does not move.            *)
(***************************************************************************)
SafeStateLasts ==
  safeConfirmed /\ step = "loop" =>
    /\ ~device.output /\ device.pending = "None" /\ device.motor = device.motorTarget
    /\ ~device.motionActive

(***************************************************************************)
(* Session and device agree: a running MOVEJ has a motion to poll, nothing *)
(* else has, a stop that is awaited was submitted, and the servo is on     *)
(* exactly when the session takes it to be on.  PollMotion and PollStop    *)
(* are therefore never called out of turn.                                 *)
(***************************************************************************)
DeviceAgrees ==
  step = "loop" /\ connected =>
    /\ device.linked /\ device.running
    /\ device.servo = ~servoDisabled
    /\ device.motionActive <=> (HasActive /\ active.type = "MOVEJ" /\ lifecycle = "Running")
    /\ (StopPending => device.stopActive)

(***************************************************************************)
(* A SET_TOOL that is passed has done to the workpiece what it is for:     *)
(* CLOSED holds it, OPEN has left it at PLACE, and the gripper has come to *)
(* that end of its travel.                                                 *)
(***************************************************************************)
ToolDoesItsWork ==
  [][ Passed /\ active.type = "SET_TOOL" =>
        IF Wanted.want THEN device'.held /\ device'.motor = 0
        ELSE ~device'.held /\ device'.piece = "place" /\ device'.motor = Travel ]_runVars

(***************************************************************************)
(* DoesNotAcceptAStaleCaptureConfirmation: main takes the evidence for     *)
(* captured only when someone has looked at this run's scene, at rest -    *)
(* however the files of an earlier run are read and written meanwhile.     *)
(***************************************************************************)
ConfirmationIsOwn ==
  [][ barrier # "ok" /\ barrier' = "ok" /\ ~failed => picture = "frozen" ]_runVars

(***************************************************************************)
(* What the script calls verified: the picture shows the scene of a        *)
(* stopped simulation, all three lifecycle operations have passed, the     *)
(* workcell is safe or the work is done, and nothing is left running.      *)
(***************************************************************************)
VerifiedIsGenuine ==
  verdict = "verified" =>
    /\ picture = "frozen" /\ passed = AllPassed /\ ~alive
    /\ (setup = "normal" => barrier = "ok")
    /\ (setup = "estop" => ~device.output /\ ~moving)

(***************************************************************************)
(* A task that was submitted to main comes to an end and so does main,     *)
(* whoever does or does not confirm the evidence; and when the script is   *)
(* there, the simulator is gone at last although main hangs, fails or is   *)
(* never started.                                                          *)
(***************************************************************************)
EverythingEnds ==
  /\ setup # "plain" /\ submissions > 0 ~> step \in {"exited", "killed"}
  /\ Scripted ~> script = "over" /\ ~alive
=============================================================================
