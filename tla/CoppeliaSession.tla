-------------------------- MODULE CoppeliaSession --------------------------
(***************************************************************************)
(* A Runtime Session that drives the CoppeliaSim backend: WorkcellSession  *)
(* with the answers this device gives.  Every action of the session is     *)
(* joined to the calls its handler makes, in the order it makes them; a    *)
(* call of the Remote API may throw.  The first poll of a stop confirms    *)
(* it, a MOVEJ is never rejected and never reported as failed, and         *)
(* disabling the servo and Disconnect do not throw: the actions of the     *)
(* session for such answers are not taken.                                 *)
(***************************************************************************)
EXTENDS WorkcellSession, CoppeliaSim

CONSTANTS
  Targets,   \* the target of the n-th command, for the programs in which it is a MOVEJ
  Perilous   \* bound: the programs in which calls of the Remote API may throw and objects collide

ASSUME CoppeliaAssumption ==
  /\ Targets \in Seq(Poses) /\ Perilous \subseteq Programs
  /\ {"PART_READY", "GRIP_OK", "CLAMP_ENABLE", "GRIPPER"} \subseteq Inputs
  /\ 0 \in PollDelays /\ ~DisconnectOnTerminal
  /\ MaxGeneration = Unbounded
  \* The gripper is the one tool of a workcell, a SET_TOOL of another is refused by Validate.
  /\ \A p \in Programs : \A n \in DOMAIN p : p[n].type = "SET_TOOL" => p[n].input = "GRIPPER"

VARIABLE device

coppeliaVars == <<allVars, device>>

CoppeliaInit == WorkcellInit /\ device = Created

Calls(d) == device' = d
NoCall == UNCHANGED device

Throws == program \in Perilous

-----------------------------------------------------------------------------
(***************************************************************************)
(* What several handlers call.                                             *)
(***************************************************************************)
\* The device takes every stop of a connected session.
Stops(d) == stop' # NoStop /\ Calls(SubmitStop(d))

\* DisableServoForCleanup
ServoOff(d) == IF connected' THEN SetServoEnabled(d, FALSE) ELSE d
EndsServoOff(d) == (connected' => servoDisabled') /\ Calls(ServoOff(d))

AskedSafe(d) ==
  IF safeRequested THEN {d}
  ELSE {RequestSafeState(d)} \cup IF Throws THEN {RequestSafeStateThrows(d)} ELSE {}

\* BeginFault: the workcell first, then the robot, or the end of the task.
Faults(d) ==
  \E asked \in AskedSafe(d) :
    IF connected' /\ ~StopPending THEN Stops(asked) ELSE EndsServoOff(asked)

\* SetServoEnabled, SubmitMoveJ ... of a command find the backend connected.
Linked == IF connected THEN device ELSE Connect(device)

-----------------------------------------------------------------------------
(***************************************************************************)
(* The snapshot the session is given.                                      *)
(***************************************************************************)
\* Slip: an open gripper is enough, wherever it let the workpiece go.
ToolVerdictWhereverPlaced(d) ==
  IF d.toolStable < StableSteps THEN "unsettled"
  ELSE IF d.gripFailed \/ d.placementFailed THEN "failed"
  ELSE IF d.observed = "CLOSED" => d.held /\ d.attachedStable = StableSteps
  THEN "done" ELSE "unsettled"

\* ApplyWorkcellSnapshot, for a tool that is seen where it was commanded.
ToolVerdict(d) ==
  IF d.toolStable < StableSteps THEN "unsettled"
  ELSE IF d.gripFailed \/ d.placementFailed THEN "failed"
  ELSE IF IF d.observed = "CLOSED" THEN d.held /\ d.attachedStable = StableSteps
          ELSE ~d.held /\ d.placeStable = StableSteps
  THEN "done" ELSE "unsettled"

Values(d) ==
  [i \in Inputs |-> CASE i = "PART_READY"   -> d.partReady
                      [] i = "GRIP_OK"      -> d.held
                      [] i = "CLAMP_ENABLE" -> d.output
                      [] OTHER              -> d.observed = "CLOSED"]

SnapshotsOf(d) ==
  [valid : {TRUE}, generation : {d.generation}, input : {Values(d)},
   collision : {FALSE, Throws}, tool : {ToolVerdict(d)}]

Broken == {[valid |-> FALSE]}

-----------------------------------------------------------------------------
\* An ESTOP stops the robot after the workcell, when no stop is under way.
Asked(d) == IF StopPending THEN Calls(d) ELSE Stops(d)

DeviceControl ==
  \/ /\ ControlWithoutEffect \/ PauseRefused \/ PauseBetweenCommands \/ PauseLocalWait
        \/ ResumeBetweenCommands
     /\ Quiet /\ NoCall
  \/ ResumeWait /\ NoCall
  \/ PauseMotion /\ Quiet /\ Stops(device)
  \/ ResumeMotion /\ Quiet
       /\ TakesMotion(device) /\ Calls(SubmitMoveJ(device, Targets[active.index]))
  \/ ResumeMotionFails /\ Faulting
       /\ (Throws \/ ~TakesMotion(device)) /\ moving' = moving /\ Faults(device)
  \/ ResumePastTimeRange /\ Faulting /\ Faults(device)
  \/ Stop /\ Quiet /\ IF connected /\ ~StopPending THEN Stops(device) ELSE NoCall
  \/ EstopAccepted /\ ~connected /\ NoCall
  \/ EstopAccepted /\ connected /\ Asked(IF safeRequested THEN device ELSE RequestSafeState(device))
  \/ EstopRefused /\ Throws /\ Asked(RequestSafeStateThrows(device))

DeviceReset ==
  \/ /\ WorkcellReset(SnapshotsOf(PollWorkcell(device))) /\ PollSafeState(device)
     /\ Calls(Disconnect(PollWorkcell(device)))
  \/ WorkcellResetRejected /\ ~SafeStateReached /\ NoCall
  \/ /\ WorkcellResetRejected /\ SafeStateReached
     /\ \/ ~PollSafeState(device) \/ Throws
        \/ \E s \in SnapshotsOf(PollWorkcell(device)) : ~FitForReset(s)
     /\ Calls(PollWorkcell(device))
  \/ WorkcellResetRejected /\ SafeStateReached /\ Throws /\ NoCall

-----------------------------------------------------------------------------
(***************************************************************************)
(* HandleMotionPoll: PollMotion for a motion, then PollWorkcell.           *)
(***************************************************************************)
Swept == IF Motion THEN PollMotion(device) ELSE device

\* PollMotion has a motion to poll; "seen" is the device after both polls.
Polled(swept, seen, S) ==
  \/ SnapshotAlarms(S) /\ Faults(seen)
  \/ SnapshotSatisfies(S) /\ Calls(seen)
  \/ ToolFails(S) /\ Faults(seen)
  \/ StillWaiting(S) /\ Calls(seen)
  \/ swept.motionActive /\ MotionStillRunning(S) /\ Calls(seen)
  \/ ~swept.motionActive /\ MotionDone(S) /\ Calls(seen)
  \/ Throws /\ SnapshotAlarms(Broken) /\ Faults(swept)

DevicePoll ==
  \/ /\ TakePoll /\ (Motion => device.motionActive)
     /\ \E seen \in {PollWorkcell(Swept)} : Polled(Swept, seen, SnapshotsOf(seen))
  \/ MotionPollThrows /\ (Throws \/ ~device.motionActive) /\ Faults(device)
  \/ StalePoll /\ Quiet /\ NoCall

DeviceStop ==
  \/ StaleStopPoll /\ Quiet /\ NoCall
  \/ StopDeadline /\ Quiet /\ IF StopDeadlinePassed THEN EndsServoOff(device) ELSE NoCall
  \/ StopPollFails /\ Quiet /\ (Throws \/ ~StopIsSubmitted(device)) /\ EndsServoOff(device)
  \/ /\ StopIsSubmitted(device)
     /\ PauseConfirmed \/ OperatorStopConfirmed \/ ProgramStopConfirmed
     /\ Quiet /\ Calls(PollStop(device))
  \/ /\ StopIsSubmitted(device)
     /\ FaultMadeSafe \/ EmergencyMadeSafe
     /\ safeConfirmed' \in {PollSafeState(PollStop(device)) \/ safeConfirmed}
                            \cup IF Throws THEN {safeConfirmed} ELSE {}
     /\ EndsServoOff(PollStop(device))

DeviceEvent ==
  \/ DeviceControl \/ DeviceReset \/ DevicePoll \/ DeviceStop
  \/ (StaleDelayComplete \/ StaleTimeout \/ DelayComplete) /\ Quiet /\ NoCall
  \/ CommandTimeout /\ Faulting /\ Faults(device)

-----------------------------------------------------------------------------
DeviceNextCommand ==
  \/ ConnectFails /\ Throws /\ Faulting /\ Calls(Disconnect(device))
  \/ ServoCommand /\ Quiet /\ Calls(SetServoEnabled(Linked, program[next].type = "SERVO_ON"))
  \/ (ZeroDelay \/ StartDelay \/ StartInputWait \/ InputAlreadyThere) /\ Quiet /\ Calls(Linked)
  \/ CommandPastTimeRange /\ Faulting /\ Faults(Linked)
  \/ StartMotion /\ Quiet /\ TakesMotion(Linked) /\ Calls(SubmitMoveJ(Linked, Targets[next]))
  \/ StartMotionFails /\ Faulting
       /\ (Throws \/ ~TakesMotion(Linked)) /\ moving' = moving /\ Faults(Linked)
  \/ DeviceCommandRejected /\ Throws /\ Faulting /\ Faults(Linked)
  \/ StartOutput({0}) /\ Quiet /\ Calls(SetDigitalOutput(Linked, program[next].want))
  \/ StartTool({0}) /\ Quiet
       /\ Calls(SubmitToolCommand(Linked, IF program[next].want THEN "CLOSED" ELSE "OPEN"))
  \/ StopCommand /\ Quiet /\ Stops(Linked)

DeviceAdvance == DeviceEvent \/ DeviceNextCommand

\* The host submits one of the programs P and the controls C.
DeviceHost(P, C) ==
  /\ \/ \E p \in P : WorkcellSubmit(p)
     \/ \E c \in C : SubmitControl(c) /\ Quiet
  /\ NoCall
=============================================================================
