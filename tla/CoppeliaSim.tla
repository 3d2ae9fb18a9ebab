---------------------------- MODULE CoppeliaSim ----------------------------
(***************************************************************************)
(* The CoppeliaSim backend with a workcell (CoppeliaSimBackend in          *)
(* coppeliasim_backend.cpp): robot backend and workcell backend in one     *)
(* object, which drives a scene over the Remote API.                       *)
(*                                                                         *)
(* The backend has no thread of its own: each of its functions is an       *)
(* operator here that takes the state of backend and scene to the state    *)
(* after the call.  Poses, the gripper's travel and the counts of stable   *)
(* samples are small sets; a joint reaches the position it is set to, as a *)
(* kinematic joint does.  Where a call of the Remote API may throw is in   *)
(* CoppeliaSession: there the first such call of a function throws.        *)
(***************************************************************************)
EXTENDS Integers

CONSTANTS
  MotionSteps,   \* ComputeCoppeliaSimMotionSteps for a MOVEJ
  Travel,        \* kToolJointStep's between the closed and the open gripper
  StableSteps    \* WorkcellConfiguration::stable_steps

ASSUME DeviceAssumption ==
  MotionSteps \in Nat \ {0} /\ Travel \in Nat \ {0} /\ StableSteps \in Nat \ {0}

Poses == {"home", "pick", "place"}

(***************************************************************************)
(* The backend as it is created, and the scene as BuildWorkcell makes it   *)
(* and ValidateConnectedWorkcell demands it.                               *)
(***************************************************************************)
Created ==
  [ \* the backend
    linked |-> FALSE, running |-> FALSE, servo |-> FALSE,
    motionActive |-> FALSE, motionTarget |-> "home", motionStep |-> 0, motionStable |-> 0,
    stopActive |-> FALSE,
    motorTarget |-> Travel, commanded |-> "OPEN", observed |-> "OPEN", toolStable |-> 0,
    pending |-> "None", attachRequested |-> FALSE, releaseRequested |-> FALSE,
    attachedStable |-> 0, placeStable |-> 0, placeFailures |-> 0,
    safeRequested |-> FALSE, generation |-> 0,
    \* the last snapshot
    gripFailed |-> FALSE, placementFailed |-> FALSE, partReady |-> FALSE,
    \* the scene: "motor" is 0 for closed; "arm" and "piece" are poses, or between two
    simulating |-> FALSE, motor |-> Travel, arm |-> "home", piece |-> "pick", held |-> FALSE,
    output |-> FALSE ]

\* Samples are counted on and on; only the comparison with StableSteps matters.
Count(n, again) == IF ~again THEN 0 ELSE IF n < StableSteps THEN n + 1 ELSE n

\* Connect: a running simulation is stopped, the scene is built or loaded, and started.
Connect(d) == [Created EXCEPT !.linked = TRUE, !.running = TRUE, !.simulating = TRUE]

\* Disconnect, and a Connect that throws, forget all but the scene, which goes on.
Disconnect(d) ==
  [Created EXCEPT !.simulating = d.simulating, !.motor = d.motor, !.arm = d.arm,
                  !.piece = d.piece, !.held = d.held, !.output = d.output]

SetServoEnabled(d, enabled) == [d EXCEPT !.servo = enabled]

-----------------------------------------------------------------------------
(***************************************************************************)
(* The robot.                                                              *)
(***************************************************************************)
TakesMotion(d) == d.servo /\ d.running /\ ~d.motionActive

SubmitMoveJ(d, target) ==
  [d EXCEPT !.motionActive = TRUE, !.motionTarget = target, !.motionStep = 0, !.motionStable = 0]

\* The motion has succeeded when it is no longer active afterwards.
PollMotion(d) ==
  LET arrives == d.motionStep + 1 >= MotionSteps
      stable  == Count(d.motionStable, arrives)
      at      == IF arrives THEN d.motionTarget ELSE "between"
  IN [d EXCEPT !.motionStep = IF arrives THEN MotionSteps ELSE @ + 1,
               !.motionStable = stable,
               !.motionActive = ~(arrives /\ stable = StableSteps),
               !.arm = at,
               !.piece = IF d.held THEN at ELSE @]

\* Slip: the motion goes on under the stop.
SubmitStopMotionOn(d) == [d EXCEPT !.stopActive = TRUE]

\* Rejected only when the simulation does not run.
SubmitStop(d) == [d EXCEPT !.motionActive = FALSE, !.stopActive = TRUE]

\* The first poll confirms the stop; without a stop that was submitted it fails.
StopIsSubmitted(d) == d.stopActive /\ d.running
PollStop(d) == [d EXCEPT !.stopActive = FALSE]

\* The flags are cleared before the simulator is called.
StopSimulation(d, throws) ==
  [d EXCEPT !.servo = FALSE, !.motionActive = FALSE, !.stopActive = FALSE,
            !.running = (@ /\ throws),
            !.simulating = IF d.linked /\ d.running THEN throws ELSE @]

-----------------------------------------------------------------------------
(***************************************************************************)
(* The workcell.                                                           *)
(***************************************************************************)
SubmitToolCommand(d, position) ==
  [d EXCEPT !.commanded = position,
            !.motorTarget = IF position = "OPEN" THEN Travel ELSE 0,
            !.toolStable = 0,
            !.pending = position,
            !.attachRequested = FALSE, !.releaseRequested = FALSE]

SetDigitalOutput(d, value) == [d EXCEPT !.output = value]

\* The gripper moves by one step of its motor; its command is reached at one end of its travel.
ToolRead(d) ==
  LET motor == IF d.motor < d.motorTarget THEN d.motor + 1
               ELSE IF d.motor > d.motorTarget THEN d.motor - 1 ELSE d.motor
      open   == motor = Travel
      closed == motor = 0
  IN [d EXCEPT !.generation = @ + 1,
               !.motor = motor,
               !.observed = IF open THEN "OPEN" ELSE IF closed THEN "CLOSED" ELSE @,
               !.toolStable = Count(@, IF d.commanded = "OPEN" THEN open ELSE closed),
               !.gripFailed = FALSE]

PieceWithinReach(d) == d.piece = "pick" /\ d.arm = d.piece

\* Slip: an open gripper lets go of the workpiece whatever was commanded.
GripReadUncommanded(d) ==
  IF d.toolStable < StableSteps THEN d
  ELSE IF d.pending = "CLOSED" /\ ~d.held /\ ~d.attachRequested
  THEN IF PieceWithinReach(d) THEN [d EXCEPT !.held = TRUE, !.attachRequested = TRUE]
       ELSE [d EXCEPT !.gripFailed = TRUE]
  ELSE IF d.commanded = "OPEN" /\ d.held /\ ~d.releaseRequested
  THEN [d EXCEPT !.held = FALSE, !.releaseRequested = TRUE]
  ELSE d

\* A command that has settled takes the workpiece or lets it go, once.
GripRead(d) ==
  IF d.toolStable < StableSteps THEN d
  ELSE IF d.pending = "CLOSED" /\ ~d.held /\ ~d.attachRequested
  THEN IF PieceWithinReach(d) THEN [d EXCEPT !.held = TRUE, !.attachRequested = TRUE]
       ELSE [d EXCEPT !.gripFailed = TRUE]
  ELSE IF d.pending = "OPEN" /\ d.held /\ ~d.releaseRequested
  THEN [d EXCEPT !.held = FALSE, !.releaseRequested = TRUE]
  ELSE d

PieceRead(d) ==
  LET missed == d.pending = "OPEN" /\ d.releaseRequested /\ d.piece # "place"
      misses == Count(d.placeFailures, missed)
  IN [d EXCEPT !.attachedStable = Count(@, d.held),
               !.placeStable = Count(@, ~d.held /\ d.piece = "place"),
               !.placeFailures = misses,
               !.placementFailed = (misses = StableSteps),
               !.partReady = (d.piece = "pick")]

ReadWorkcellSnapshot(d) == PieceRead(GripRead(ToolRead(d)))

\* PollWorkcell steps the simulation first, unless PollMotion has; no property depends on it.
PollWorkcell(d) == ReadWorkcellSnapshot(d)

\* Rejected without a connection.  The gripper stays where it is and holds what it holds.
RequestSafeState(d) ==
  IF ~d.linked THEN d
  ELSE [d EXCEPT !.safeRequested = TRUE,
                 !.pending = "None", !.attachRequested = FALSE, !.releaseRequested = FALSE,
                 !.motorTarget = d.motor, !.output = FALSE]

\* The simulator fails while it is asked: neither the gripper nor the output is known to have stopped.
RequestSafeStateThrows(d) ==
  IF ~d.linked THEN d
  ELSE [d EXCEPT !.safeRequested = TRUE,
                 !.pending = "None", !.attachRequested = FALSE, !.releaseRequested = FALSE]

\* Slip: what was asked for is taken for done.
PollSafeStateAsked(d) == d.safeRequested /\ d.linked

PollSafeState(d) ==
  d.safeRequested /\ d.linked /\ ~d.output /\ d.pending = "None" /\ d.motor = d.motorTarget

=============================================================================
