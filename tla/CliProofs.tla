------------------------------ MODULE CliProofs ------------------------------
(***************************************************************************)
(* What holds of the CoppeliaSim backend in a session and of the CLI       *)
(* around them, for every value of the constants.                          *)
(***************************************************************************)
EXTENDS CliProperties, WorkcellProofs

-----------------------------------------------------------------------------
(***************************************************************************)
(* The device: what its functions keep.                                    *)
(***************************************************************************)
Fields ==
  {"linked", "running", "servo", "motionActive", "motionTarget", "motionStep", "motionStable",
   "stopActive", "motorTarget", "commanded", "observed", "toolStable", "pending",
   "attachRequested", "releaseRequested", "attachedStable", "placeStable", "placeFailures",
   "safeRequested", "generation", "gripFailed", "placementFailed", "partReady", "simulating",
   "motor", "arm", "piece", "held", "output"}

\* What the proofs need of a device's type; a gripper told to open was told how far.
DeviceOK(d) ==
  /\ DOMAIN d = Fields
  /\ d.linked \in BOOLEAN /\ d.running \in BOOLEAN /\ d.servo \in BOOLEAN
  /\ d.motionActive \in BOOLEAN /\ d.stopActive \in BOOLEAN /\ d.simulating \in BOOLEAN
  /\ d.held \in BOOLEAN /\ d.output \in BOOLEAN
  /\ d.partReady \in BOOLEAN /\ d.motor \in Int /\ d.generation \in Nat
  /\ d.pending = "OPEN" => d.motorTarget = Travel

\* The robot's side of two devices is the same; the gripper's and the output's is.
SameRobot(d, e) ==
  /\ d.linked = e.linked /\ d.running = e.running /\ d.servo = e.servo
  /\ d.motionActive = e.motionActive /\ d.stopActive = e.stopActive

SameTool(d, e) ==
  /\ d.pending = e.pending /\ d.motor = e.motor /\ d.motorTarget = e.motorTarget
  /\ d.held = e.held /\ d.output = e.output

\* The safe state, as far as the workcell goes.
Secure(d) == ~d.output /\ d.pending = "None" /\ d.motor = d.motorTarget

LEMMA CreatedTyped == DeviceOK(Created)
BY DeviceAssumption DEF Created, DeviceOK, Fields

LEMMA ConnectTyped ==
  ASSUME NEW d, DeviceOK(d)
  PROVE  /\ DeviceOK(Connect(d)) /\ DeviceOK(Disconnect(d))
         /\ Connect(d).linked /\ Connect(d).running /\ ~Connect(d).servo
         /\ ~Connect(d).motionActive /\ ~Connect(d).stopActive /\ Connect(d).pending = "None"
         /\ Disconnect(d).held = d.held /\ Disconnect(d).output = d.output
         /\ Disconnect(d).simulating = d.simulating
         /\ Disconnect(d).motor = d.motor /\ Disconnect(d).piece = d.piece
BY CreatedTyped DEF Connect, Disconnect, DeviceOK, Fields, Created

LEMMA ServoTyped ==
  ASSUME NEW d, DeviceOK(d), NEW on \in BOOLEAN
  PROVE  LET e == SetServoEnabled(d, on)
         IN /\ DeviceOK(e) /\ SameTool(e, d) /\ e.servo = on /\ e.simulating = d.simulating
            /\ e.linked = d.linked /\ e.running = d.running
            /\ e.motionActive = d.motionActive /\ e.stopActive = d.stopActive
BY DEF SetServoEnabled, DeviceOK, Fields, SameTool

LEMMA StopCallTyped ==
  ASSUME NEW d, DeviceOK(d)
  PROVE  /\ LET e == SubmitStop(d)
            IN /\ DeviceOK(e) /\ SameTool(e, d) /\ e.simulating = d.simulating
               /\ e.linked = d.linked /\ e.running = d.running
               /\ e.servo = d.servo /\ ~e.motionActive /\ e.stopActive
         /\ LET e == PollStop(d)
            IN /\ DeviceOK(e) /\ SameTool(e, d) /\ e.simulating = d.simulating
               /\ e.linked = d.linked /\ e.running = d.running
               /\ e.servo = d.servo /\ e.motionActive = d.motionActive
               /\ e.safeRequested = d.safeRequested
BY DEF SubmitStop, PollStop, DeviceOK, Fields, SameTool

LEMMA MotionCallTyped ==
  ASSUME NEW d, DeviceOK(d)
  PROVE  /\ \A target : LET e == SubmitMoveJ(d, target)
                        IN /\ DeviceOK(e) /\ SameTool(e, d) /\ e.simulating = d.simulating
                           /\ e.linked = d.linked /\ e.running = d.running
                           /\ e.servo = d.servo /\ e.motionActive
                           /\ e.stopActive = d.stopActive
         /\ LET e == PollMotion(d)
            IN /\ DeviceOK(e) /\ SameTool(e, d) /\ e.simulating = d.simulating
               /\ e.linked = d.linked /\ e.running = d.running
               /\ e.servo = d.servo /\ e.stopActive = d.stopActive
BY DEF SubmitMoveJ, PollMotion, DeviceOK, Fields, SameTool

LEMMA ToolCallTyped ==
  ASSUME NEW d, DeviceOK(d)
  PROVE  /\ \A position \in {"OPEN", "CLOSED"} :
              LET e == SubmitToolCommand(d, position)
              IN /\ DeviceOK(e) /\ SameRobot(e, d) /\ e.simulating = d.simulating
                 /\ e.pending = position /\ e.held = d.held
         /\ \A on \in BOOLEAN :
              LET e == SetDigitalOutput(d, on)
              IN /\ DeviceOK(e) /\ SameRobot(e, d) /\ e.simulating = d.simulating
                 /\ e.pending = d.pending /\ e.held = d.held
BY DEF SubmitToolCommand, SetDigitalOutput, DeviceOK, Fields, SameRobot

LEMMA SafeCallTyped ==
  ASSUME NEW d, DeviceOK(d)
  PROVE  /\ LET e == RequestSafeState(d)
            IN DeviceOK(e) /\ SameRobot(e, d) /\ e.simulating = d.simulating /\ e.held = d.held
         /\ LET e == RequestSafeStateThrows(d)
            IN DeviceOK(e) /\ SameRobot(e, d) /\ e.simulating = d.simulating /\ e.held = d.held
BY DEF RequestSafeState, RequestSafeStateThrows, DeviceOK, Fields, SameRobot

LEMMA SimulationTyped ==
  ASSUME NEW d, DeviceOK(d), NEW throws \in BOOLEAN
  PROVE  LET e == StopSimulation(d, throws)
         IN /\ DeviceOK(e) /\ SameTool(e, d)
            /\ e.simulating = IF d.linked /\ d.running THEN throws ELSE d.simulating
BY DEF StopSimulation, DeviceOK, Fields, SameTool

\* A poll of the workcell: only a gripper told to close takes the workpiece, only one told to
\* open lets it go, and one that has nothing left to do stands.
PollKeeps(d, e) ==
  /\ DeviceOK(e) /\ SameRobot(e, d) /\ e.simulating = d.simulating
  /\ e.pending = d.pending /\ e.motorTarget = d.motorTarget /\ e.output = d.output
  /\ d.motor = d.motorTarget => e.motor = d.motor
  /\ ~d.held /\ e.held => d.pending = "CLOSED"
  /\ d.held /\ ~e.held => d.pending = "OPEN"

LEMMA ToolReadKeeps ==
  ASSUME NEW d, DeviceOK(d)
  PROVE  PollKeeps(d, ToolRead(d)) /\ ToolRead(d).held = d.held
BY DeviceAssumption DEF ToolRead, DeviceOK, Fields, PollKeeps, SameRobot

LEMMA GripReadKeeps ==
  ASSUME NEW d, DeviceOK(d)
  PROVE  PollKeeps(d, GripRead(d)) /\ GripRead(d).motor = d.motor
<1> DEFINE taken   == [d EXCEPT !.held = TRUE, !.attachRequested = TRUE]
           missed  == [d EXCEPT !.gripFailed = TRUE]
           dropped == [d EXCEPT !.held = FALSE, !.releaseRequested = TRUE]
<1>1. /\ DeviceOK(taken) /\ SameRobot(taken, d) /\ taken.held
      /\ DeviceOK(missed) /\ SameRobot(missed, d) /\ missed.held = d.held
      /\ DeviceOK(dropped) /\ SameRobot(dropped, d) /\ ~dropped.held
  BY DEF DeviceOK, Fields, SameRobot
<1>2. \A e \in {taken, missed, dropped} :
        /\ e.simulating = d.simulating /\ e.pending = d.pending /\ e.output = d.output
        /\ e.motorTarget = d.motorTarget /\ e.motor = d.motor
  BY DEF DeviceOK, Fields
<1>3. \/ GripRead(d) = d
      \/ GripRead(d) = taken /\ d.pending = "CLOSED"
      \/ GripRead(d) = missed
      \/ GripRead(d) = dropped /\ d.pending = "OPEN"
  BY DEF GripRead
<1> HIDE DEF taken, missed, dropped
<1> QED
  BY <1>1, <1>2, <1>3 DEF PollKeeps, SameRobot

LEMMA PieceReadKeeps ==
  ASSUME NEW d, DeviceOK(d)
  PROVE  /\ PollKeeps(d, PieceRead(d))
         /\ PieceRead(d).motor = d.motor /\ PieceRead(d).held = d.held
BY DEF PieceRead, DeviceOK, Fields, PollKeeps, SameRobot

LEMMA PollTyped ==
  ASSUME NEW d, DeviceOK(d)
  PROVE  PollKeeps(d, PollWorkcell(d))
<1> DEFINE tool == ToolRead(d)
           grip == GripRead(tool)
<1>1. PollKeeps(d, tool) /\ tool.held = d.held
  BY ToolReadKeeps
<1>2. PollKeeps(tool, grip) /\ grip.motor = tool.motor
  BY <1>1, GripReadKeeps DEF PollKeeps
<1>3. PollKeeps(grip, PieceRead(grip)) /\ PieceRead(grip).motor = grip.motor
      /\ PieceRead(grip).held = grip.held
  BY <1>2, PieceReadKeeps DEF PollKeeps
<1>4. PollWorkcell(d) = PieceRead(grip)
  BY DEF PollWorkcell, ReadWorkcellSnapshot
<1> QED
  BY <1>1, <1>2, <1>3, <1>4 DEF PollKeeps, SameRobot
-----------------------------------------------------------------------------
(***************************************************************************)
(* The session and the device it drives.  ObeysInv is DeviceAgrees;        *)
(* SafeInv says what becomes of a confirmed safe state; by OpensInv a      *)
(* gripper that holds the workpiece has an order to open only from the     *)
(* SET_TOOL under way, or from one that the session has abandoned.         *)
(***************************************************************************)
MotionRuns == active.type = "MOVEJ" /\ lifecycle = "Running"

ObeysInv ==
  connected => /\ device.linked /\ device.running /\ device.servo = ~servoDisabled
               /\ device.motionActive <=> MotionRuns
               /\ StopPending => device.stopActive

SafeInv == safeConfirmed => safeRequested /\ Secure(device) /\ ~device.motionActive

OpensInv ==
  connected /\ lifecycle \in AtWork \cup {"Pausing"} /\ device.pending = "OPEN" /\ device.held =>
    active.type = "SET_TOOL" /\ ~Wanted.want

UnlinkedInv == ~connected => servoDisabled

DrivenInv == DeviceOK(device) /\ ObeysInv /\ SafeInv /\ OpensInv /\ UnlinkedInv

\* A device as it is before the calls of a handler that stops it.
Ready(d, conn) ==
  /\ DeviceOK(d)
  /\ conn => /\ d.linked /\ d.running /\ d.servo = ~servoDisabled
             /\ StopPending => ~d.motionActive
  /\ ~conn => servoDisabled
  /\ safeConfirmed => safeRequested /\ Secure(d) /\ ~d.motionActive

\* The safe state is asked for, or nothing happens to it.
LEMMA AskedConfirmed ==
  ASSUME AskSafeState \/ UNCHANGED safeVars
  PROVE  safeConfirmed' = safeConfirmed /\ (safeRequested => safeRequested')
BY DEF AskSafeState, safeVars

LEMMA AskedTyped ==
  ASSUME NEW d, DeviceOK(d), NEW asked \in AskedSafe(d)
  PROVE  /\ DeviceOK(asked) /\ SameRobot(asked, d) /\ asked.held = d.held
         /\ safeRequested => asked = d
BY SafeCallTyped DEF AskedSafe, SameRobot

\* The stop of a connected session: FailStop is what the device does not answer.
LEMMA StopsAgree ==
  ASSUME NEW d, DeviceOK(d), d.linked, d.running, d.servo = ~servoDisabled,
         safeConfirmed' => safeRequested' /\ Secure(d),
         NEW q, NEW disp, NEW command, NEW prim, BeginStop(q, disp, command, prim), Stops(d),
         disp = "Pause" => ~(d.pending = "OPEN" /\ d.held)
  PROVE  DrivenInv' /\ device'.held = d.held
<1>1. /\ active' = command /\ lifecycle' = StopLifecycle(disp) /\ connected' = TRUE
      /\ servoDisabled' = servoDisabled
  BY Zenon DEF BeginStop, FailStop, FinishFault, Stops
<1>2. device' = SubmitStop(d)
  BY DEF Stops, Calls
<1>3. /\ DeviceOK(device') /\ SameTool(device', d) /\ device'.linked /\ device'.running
      /\ device'.servo = d.servo /\ ~device'.motionActive /\ device'.stopActive
  BY <1>2, StopCallTyped
<1>4. lifecycle' \in StopLifecycles /\ (lifecycle' = "Pausing" => disp = "Pause")
  BY <1>1, StopLifecycleRange
<1>5. lifecycle' # "Running" /\ (lifecycle' \in AtWork \cup {"Pausing"} => disp = "Pause")
  BY <1>4 DEF StopLifecycles, AtWork
<1>6. ObeysInv' /\ UnlinkedInv'
  BY <1>1, <1>3, <1>5 DEF ObeysInv, UnlinkedInv, MotionRuns
<1>7. SafeInv' /\ OpensInv'
  BY <1>3, <1>5 DEF SafeInv, OpensInv, SameTool, Secure
<1> QED
  BY <1>1, <1>3, <1>6, <1>7 DEF DrivenInv, SameTool

\* The end of a task that switches the servo off.
LEMMA EndsOff ==
  ASSUME NEW d, DeviceOK(d), NEW conn \in BOOLEAN, conn => d.linked /\ d.running /\ ~d.motionActive,
         safeConfirmed' => safeRequested' /\ Secure(d) /\ ~d.motionActive,
         lifecycle' \in EndLifecycles, connected' = conn, ~StopPending', ~conn => servoDisabled',
         EndsServoOff(d)
  PROVE  DrivenInv' /\ device'.held = d.held
<1>2. device' = ServoOff(d) /\ (connected' => servoDisabled')
  BY DEF EndsServoOff, Calls
<1>3. /\ DeviceOK(device') /\ SameTool(device', d)
      /\ device'.linked = d.linked /\ device'.running = d.running
      /\ connected' => ~device'.servo
      /\ device'.motionActive = d.motionActive
  BY <1>2, ServoTyped DEF ServoOff, SameTool
<1>4. ObeysInv' /\ UnlinkedInv'
  BY <1>2, <1>3 DEF ObeysInv, UnlinkedInv, MotionRuns, DeviceOK, EndLifecycles
<1>5. SafeInv' /\ OpensInv'
  BY <1>3 DEF SafeInv, OpensInv, SameTool, Secure, AtWork, EndLifecycles
<1> QED
  BY <1>3, <1>4, <1>5 DEF DrivenInv, SameTool

LEMMA EndsAgree ==
  ASSUME NEW d, DeviceOK(d), NEW conn \in BOOLEAN, conn => d.linked /\ d.running /\ ~d.motionActive,
         safeConfirmed' => safeRequested' /\ Secure(d) /\ ~d.motionActive,
         NEW disabled, NEW distrust, NEW prim, FinishFault(conn, disabled, distrust, prim),
         ~conn => disabled = TRUE, EndsServoOff(d)
  PROVE  DrivenInv' /\ device'.held = d.held
<1>1. /\ lifecycle' \in EndLifecycles /\ connected' = conn /\ ~StopPending'
      /\ ~conn => servoDisabled' = TRUE
  BY CoppeliaAssumption DEF FinishFault, StopPending, EndLifecycles
<1> QED
  BY <1>1, EndsOff

LEMMA FaultsAgree ==
  ASSUME NEW d, NEW conn \in BOOLEAN, Ready(d, conn),
         NEW q, NEW kind, NEW command, BeginFault(q, conn, kind, command), AskSafeState, Faults(d)
  PROVE  DrivenInv' /\ device'.held = d.held
<1>1. PICK asked \in AskedSafe(d) :
        IF connected' /\ ~StopPending THEN Stops(asked) ELSE EndsServoOff(asked)
  BY DEF Faults
<1>2. /\ DeviceOK(asked) /\ SameRobot(asked, d) /\ asked.held = d.held
      /\ safeRequested => asked = d
  BY <1>1, AskedTyped DEF Ready
<1>3. safeConfirmed' => safeRequested' /\ Secure(asked) /\ ~asked.motionActive
  BY <1>2, AskedConfirmed DEF Ready
<1>4. CASE conn /\ ~StopPending
  <2>1. BeginStop(q, "Fault", command, Raise(primary, kind))
    BY <1>4 DEF BeginFault
  <2>2. connected' = TRUE
    BY <2>1, CoppeliaAssumption, Zenon DEF BeginStop, FailStop, FinishFault
  <2>3. Stops(asked)
    BY <1>1, <1>4, <2>2
  <2> QED
    BY <1>2, <1>3, <1>4, <2>1, <2>3, StopsAgree DEF Ready, SameRobot
<1>5. CASE ~(conn /\ ~StopPending)
  <2>1. FinishFault(conn, servoDisabled, untrusted, Raise(primary, kind))
    BY <1>5 DEF BeginFault
  <2>2. connected' = conn
    BY <2>1, CoppeliaAssumption DEF FinishFault
  <2>3. EndsServoOff(asked) /\ (conn => ~asked.motionActive)
    BY <1>1, <1>2, <1>5, <2>2 DEF Ready, SameRobot
  <2>4. ~conn => servoDisabled = TRUE
    BY DEF Ready
  <2> QED
    BY <1>2, <1>3, <2>1, <2>3, <2>4, EndsAgree DEF Ready, SameRobot
<1> QED
  BY <1>4, <1>5
-----------------------------------------------------------------------------
(***************************************************************************)
(* The steps of the session, each with the calls it makes.  Released says  *)
(* of a step when it may let go of the workpiece.                          *)
(***************************************************************************)
Released ==
  connected /\ device.held /\ ~device'.held =>
    lifecycle = "Running" /\ device.pending = "OPEN" /\ TakePoll

Grips(d) == d.pending = "OPEN" /\ d.held

\* A step that leaves the session connected and at work.
LEMMA GoesOn ==
  ASSUME DeviceOK(device'), device'.linked, device'.running, device'.servo = ~servoDisabled',
         device'.motionActive <=> MotionRuns', ~StopPending', ~safeConfirmed', connected' = TRUE,
         Grips(device') => active'.type = "SET_TOOL" /\ ~Wanted'.want
  PROVE  DrivenInv'
BY DEF DrivenInv, ObeysInv, SafeInv, OpensInv, UnlinkedInv, Grips

\* The backend as HandleNextCommand finds it once it is connected.
LEMMA LinkedAgrees ==
  ASSUME WorkcellInv, DrivenInv, CallsNextCommand
  PROVE  /\ DeviceOK(Linked) /\ Linked.linked /\ Linked.running
         /\ Linked.servo = ~servoDisabled /\ ~Linked.motionActive /\ ~Grips(Linked)
         /\ ~StopPending /\ ~HasActive /\ active.type = "NONE" /\ ~safeConfirmed
         /\ lifecycle \in {"Running", "Waiting"} /\ TypeOK
         /\ connected => Linked.held = device.held
<1>1. /\ ~StopPending /\ ~HasActive /\ lifecycle \in {"Running", "Waiting"} /\ TypeOK
  BY CallsWorking, CallsNothingActive DEF WorkcellInv, SessionInv, SafetyInv, EpisodeInv
<1>2. ~safeConfirmed
  BY <1>1 DEF WorkcellInv, SafeMeansStill, AtWork
<1>3. active.type = "NONE"
  BY <1>1 DEF HasActive, NoCommand
<1>4. CASE connected
  BY <1>1, <1>2, <1>3, <1>4
     DEF Linked, DrivenInv, ObeysInv, OpensInv, MotionRuns, Grips, AtWork, DeviceOK
<1>5. CASE ~connected
  <2>1. DeviceOK(device) /\ servoDisabled = TRUE
    BY <1>1, <1>5 DEF DrivenInv, UnlinkedInv, TypeOK
  <2>2. Linked = Connect(device)
    BY <1>5 DEF Linked
  <2>3. /\ DeviceOK(Linked) /\ Linked.linked /\ Linked.running /\ Linked.servo = FALSE
        /\ ~Linked.motionActive /\ Linked.pending = "None"
    BY <2>1, <2>2, ConnectTyped DEF DeviceOK
  <2> QED
    BY <1>1, <1>2, <1>3, <1>5, <2>1, <2>3 DEF Grips
<1> QED
  BY <1>4, <1>5

LEMMA LinkedReady ==
  ASSUME WorkcellInv, DrivenInv, CallsNextCommand
  PROVE  Ready(Linked, TRUE)
BY LinkedAgrees DEF Ready

LEMMA DrivenCommand ==
  ASSUME WorkcellInv, DrivenInv, DeviceNextCommand
  PROVE  DrivenInv' /\ Released
<1>0. CallsNextCommand
  BY DEF DeviceNextCommand, ConnectFails, CommandPastTimeRange, StartPastTimeRange,
     StartMotionFails, DeviceCommandRejected, ServoCommand, ZeroDelay, StartMotion, StartDelay,
     StopCommand, StartOutput, StartTool, DeviceCommandAccepted, StartInputWait,
     InputAlreadyThere, WaitAlreadySatisfied, Start, StartsCommand
<1>1. /\ DeviceOK(Linked) /\ Linked.linked /\ Linked.running
      /\ Linked.servo = ~servoDisabled /\ ~Linked.motionActive /\ ~Grips(Linked)
      /\ ~StopPending /\ active.type = "NONE" /\ ~safeConfirmed
      /\ lifecycle \in {"Running", "Waiting"} /\ TypeOK
      /\ connected => Linked.held = device.held
  BY <1>0, LinkedAgrees
<1>2. Quiet => ~safeConfirmed'
  BY <1>1 DEF Quiet, workcellVars, safeVars
<1>3. \A type : Start(type) => program[next] \in Command
  BY <1>1, StartTyped
<1>4. CASE ConnectFails /\ Throws /\ Faulting /\ Calls(Disconnect(device))
  <2>1. ~connected /\ FinishFault(FALSE, servoDisabled, untrusted, Raise(primary, "Fatal"))
    BY <1>4 DEF ConnectFails, BeginFault
  <2>2. lifecycle' = "Faulted" /\ connected' = FALSE /\ servoDisabled' = servoDisabled
    BY <2>1, <1>1 DEF FinishFault, TypeOK
  <2>3. DeviceOK(device')
    BY <1>4, ConnectTyped DEF DrivenInv, Calls
  <2>4. ~safeConfirmed'
    BY <1>1, <1>4, AskedConfirmed DEF Faulting
  <2> QED
    BY <2>1, <2>2, <2>3, <2>4
       DEF DrivenInv, ObeysInv, SafeInv, OpensInv, UnlinkedInv, Released
<1>5. CASE \/ CommandPastTimeRange /\ Faulting /\ Faults(Linked)
           \/ StartMotionFails /\ Faulting /\ Faults(Linked)
           \/ DeviceCommandRejected /\ Faulting /\ Faults(Linked)
  <2>1. PICK kind, command : BeginFault(queue, TRUE, kind, command)
    BY <1>5 DEF CommandPastTimeRange, StartPastTimeRange, StartMotionFails, DeviceCommandRejected,
       StartFault
  <2>2. AskSafeState /\ Faults(Linked)
    BY <1>5 DEF Faulting
  <2> QED
    BY <1>0, <1>1, <2>1, <2>2, LinkedReady, FaultsAgree DEF Released
<1>6. CASE ServoCommand /\ Quiet /\ Calls(SetServoEnabled(Linked, program[next].type = "SERVO_ON"))
  <2> DEFINE on == program[next].type = "SERVO_ON"
  <2>1. /\ connected' = TRUE /\ UNCHANGED <<lifecycle, active, stop>>
        /\ servoDisabled' = ~on
    BY <1>6 DEF ServoCommand, Pass, Start
  <2>2. /\ DeviceOK(device') /\ SameTool(device', Linked) /\ device'.servo = on
        /\ device'.linked /\ device'.running /\ ~device'.motionActive
    BY <1>1, <1>6, ServoTyped DEF Calls
  <2>3. ~StopPending' /\ ~MotionRuns' /\ ~Grips(device')
    BY <1>1, <2>1, <2>2 DEF StopPending, MotionRuns, Grips, SameTool
  <2> QED
    BY <1>1, <1>2, <1>6, <2>1, <2>2, <2>3, GoesOn DEF Released, SameTool
<1>7. CASE (ZeroDelay \/ StartDelay \/ StartInputWait \/ InputAlreadyThere) /\ Quiet /\ Calls(Linked)
  <2>1. connected' = TRUE /\ UNCHANGED <<servoDisabled, stop>> /\ active'.type # "MOVEJ"
    <3>1. CASE ZeroDelay
      BY <1>1, <3>1 DEF ZeroDelay, Pass
    <3>2. CASE StartDelay
      BY <3>2 DEF StartDelay, Begin, Activate, Start
    <3>3. CASE StartInputWait
      BY <3>3 DEF StartInputWait, Begin, Activate, Start
    <3>4. CASE InputAlreadyThere
      BY <3>4 DEF InputAlreadyThere, WaitAlreadySatisfied, NoCommand
    <3> QED
      BY <1>7, <3>1, <3>2, <3>3, <3>4
  <2>2. device' = Linked
    BY <1>7 DEF Calls
  <2> QED
    BY <1>1, <1>2, <1>7, <2>1, <2>2, GoesOn DEF Released, StopPending, MotionRuns
<1>8. CASE StartMotion /\ Quiet /\ Calls(SubmitMoveJ(Linked, Targets[next]))
  <2>1. /\ connected' = TRUE /\ UNCHANGED <<servoDisabled, stop>>
        /\ active'.type = "MOVEJ" /\ lifecycle' = "Running"
    BY <1>8 DEF StartMotion, Begin, Activate, Start
  <2>2. /\ DeviceOK(device') /\ SameTool(device', Linked) /\ device'.servo = Linked.servo
        /\ device'.linked /\ device'.running /\ device'.motionActive
    BY <1>1, <1>8, MotionCallTyped DEF Calls
  <2> QED
    BY <1>1, <1>2, <1>8, <2>1, <2>2, GoesOn DEF Released, StopPending, MotionRuns, Grips, SameTool
<1>9. CASE StartOutput({0}) /\ Quiet /\ Calls(SetDigitalOutput(Linked, program[next].want))
  <2>1. /\ connected' = TRUE /\ UNCHANGED <<servoDisabled, stop>> /\ active'.type # "MOVEJ"
        /\ Start("SET_DO")
    BY <1>9 DEF StartOutput, DeviceCommandAccepted, Begin, Activate, Start
  <2>2. program[next].want \in BOOLEAN
    BY <1>3, <2>1 DEF Command
  <2>3. /\ DeviceOK(device') /\ SameRobot(device', Linked) /\ device'.pending = Linked.pending
        /\ device'.held = Linked.held
    BY <1>1, <1>9, <2>2, ToolCallTyped DEF Calls
  <2> QED
    BY <1>1, <1>2, <1>9, <2>1, <2>3, GoesOn DEF Released, StopPending, MotionRuns, Grips, SameRobot
<1>10. CASE /\ StartTool({0}) /\ Quiet
            /\ Calls(SubmitToolCommand(Linked, IF program[next].want THEN "CLOSED" ELSE "OPEN"))
  <2>1. /\ connected' = TRUE /\ UNCHANGED <<servoDisabled, stop, program>>
        /\ active'.type = "SET_TOOL" /\ active'.index = next
    BY <1>10 DEF StartTool, DeviceCommandAccepted, Begin, Frame, Activate, Start
  <2>2. Wanted'.want = program[next].want
    BY <2>1 DEF Wanted
  <2>3. /\ DeviceOK(device') /\ SameRobot(device', Linked) /\ device'.held = Linked.held
        /\ device'.pending = IF program[next].want THEN "CLOSED" ELSE "OPEN"
    BY <1>1, <1>10, ToolCallTyped DEF Calls
  <2> QED
    BY <1>1, <1>2, <1>10, <2>1, <2>2, <2>3, GoesOn
       DEF Released, StopPending, MotionRuns, Grips, SameRobot
<1>11. CASE StopCommand /\ Quiet /\ Stops(Linked)
  <2>1. PICK command : BeginStop(queue, "ProgramComplete", command, primary)
    BY <1>11 DEF StopCommand
  <2> QED
    BY <1>1, <1>2, <1>11, <2>1, StopsAgree DEF Released
<1> QED
  BY <1>4, <1>5, <1>6, <1>7, <1>8, <1>9, <1>10, <1>11 DEF DeviceNextCommand
-----------------------------------------------------------------------------
(***************************************************************************)
(* The controls.                                                           *)
(***************************************************************************)
LEMMA DrivenFacts ==
  ASSUME WorkcellInv, DrivenInv
  PROVE  /\ TypeOK /\ Ready(device, connected)
         /\ StopPending <=> lifecycle \in StopLifecycles
         /\ HasActive \/ StopPending => connected
         /\ StopPending => ~device.motionActive
         /\ active.type # "NONE" => HasActive
         /\ safeConfirmed => lifecycle \notin AtWork \cup {"Idle", "Pausing"}
<1>1. /\ TypeOK /\ (StopPending <=> lifecycle \in StopLifecycles)
      /\ HasActive \/ StopPending => connected
  BY PendingWatched DEF WorkcellInv, SessionInv, SafetyInv, EpisodeInv, WorkNeedsConnection
<1>2. StopPending => ~device.motionActive
  BY <1>1 DEF DrivenInv, ObeysInv, MotionRuns, StopLifecycles
<1>3. Ready(device, connected)
  BY <1>1, <1>2 DEF Ready, DrivenInv, ObeysInv, SafeInv, UnlinkedInv
<1> QED
  BY <1>1, <1>2, <1>3 DEF WorkcellInv, SafeMeansStill, HasActive, NoCommand

LEMMA Stays ==
  ASSUME DrivenInv, UNCHANGED <<taskVars, program, safeVars, device>>
  PROVE  DrivenInv' /\ Released
<1>1. /\ UNCHANGED <<lifecycle, active, stop, connected, servoDisabled, program, device>>
      /\ UNCHANGED <<safeRequested, safeConfirmed>>
  BY DEF taskVars, safeVars
<1>2. (MotionRuns' <=> MotionRuns) /\ (StopPending' <=> StopPending) /\ Wanted' = Wanted
  BY <1>1 DEF MotionRuns, StopPending, Wanted
<1> QED
  BY <1>1, <1>2 DEF DrivenInv, ObeysInv, SafeInv, OpensInv, UnlinkedInv, Released

\* A step within the work that asks nothing of the device.
LEMMA WorksOn ==
  ASSUME WorkcellInv, DrivenInv, lifecycle \in AtWork, lifecycle' \in AtWork,
         UNCHANGED <<connected, servoDisabled, stop, program, safeVars, device>>,
         active'.type = active.type, active'.index = active.index, active.type # "MOVEJ"
  PROVE  DrivenInv' /\ Released
<1>1. /\ ~MotionRuns /\ ~MotionRuns' /\ (StopPending' <=> StopPending) /\ Wanted' = Wanted
      /\ UNCHANGED <<connected, servoDisabled, device, safeRequested, safeConfirmed>>
  BY DEF MotionRuns, StopPending, Wanted, safeVars
<1> QED
  BY <1>1 DEF DrivenInv, ObeysInv, SafeInv, OpensInv, UnlinkedInv, Released

LEMMA EndsUnlinked ==
  ASSUME WorkcellInv, DrivenInv, ~connected, NEW result, NEW prim,
         FinishTerminal(result, servoDisabled, prim), UNCHANGED <<safeVars, device>>
  PROVE  DrivenInv' /\ Released
<1>1. connected' = FALSE /\ servoDisabled'
  <2>1. connected = FALSE /\ servoDisabled
    BY DrivenFacts DEF TypeOK, DrivenInv, UnlinkedInv
  <2> QED
    BY <2>1 DEF FinishTerminal, FinishFault, TriesDisconnect
<1> QED
  BY <1>1 DEF DrivenInv, ObeysInv, SafeInv, OpensInv, UnlinkedInv, Released, safeVars

LEMMA EmergencyAgrees ==
  ASSUME NEW d, DeviceOK(d), d.linked, d.running, d.servo = ~servoDisabled,
         connected' = TRUE, servoDisabled' = servoDisabled, lifecycle' = "EmergencyStopping",
         StopPending => ~d.motionActive /\ d.stopActive, Asked(d),
         safeConfirmed' => safeRequested' /\ Secure(d)
  PROVE  DrivenInv' /\ device'.held = d.held
<1>1. CASE StopPending
  BY <1>1 DEF Asked, Calls, DrivenInv, ObeysInv, SafeInv, OpensInv, UnlinkedInv, MotionRuns, AtWork
<1>2. CASE ~StopPending
  <2>1. device' = SubmitStop(d)
    BY <1>2 DEF Asked, Stops, Calls
  <2>2. /\ DeviceOK(device') /\ SameTool(device', d) /\ device'.linked /\ device'.running
        /\ device'.servo = d.servo /\ ~device'.motionActive /\ device'.stopActive
    BY <2>1, StopCallTyped
  <2> QED
    BY <2>2 DEF DrivenInv, ObeysInv, SafeInv, OpensInv, UnlinkedInv, MotionRuns, AtWork,
       SameTool, Secure
<1> QED
  BY <1>1, <1>2

LEMMA DrivenControl ==
  ASSUME WorkcellInv, DrivenInv, DeviceControl
  PROVE  DrivenInv' /\ Released
<1>0. /\ TypeOK /\ Ready(device, connected)
      /\ StopPending <=> lifecycle \in StopLifecycles
      /\ HasActive \/ StopPending => connected
      /\ StopPending => ~device.motionActive
      /\ active.type # "NONE" => HasActive
      /\ safeConfirmed => lifecycle \notin AtWork \cup {"Idle", "Pausing"}
  BY DrivenFacts
<1>1. /\ active.type # "NONE" => /\ active \in ActiveCommands
                                 /\ Resumed.type = active.type /\ Resumed.index = active.index
      /\ NoCommand.type = "NONE" /\ (~HasActive => active.type = "NONE")
  BY <1>0 DEF TypeOK, HasActive, NoCommand, ActiveCommands, Resumed
<1>2. Quiet => UNCHANGED safeVars /\ UNCHANGED <<safeRequested, safeConfirmed>>
  BY DEF Quiet, workcellVars, safeVars
<1>3. connected => /\ DeviceOK(device) /\ device.linked /\ device.running
                   /\ device.servo = ~servoDisabled
                   /\ StopPending => device.stopActive
  BY DEF DrivenInv, ObeysInv
<1>4. CASE (ControlWithoutEffect \/ PauseRefused) /\ Quiet /\ NoCall
  BY <1>2, <1>4, Stays DEF ControlWithoutEffect, PauseRefused, Drop, NoCall
<1>5. CASE (PauseBetweenCommands \/ ResumeBetweenCommands) /\ Quiet /\ NoCall
  BY <1>1, <1>2, <1>5, WorksOn
     DEF PauseBetweenCommands, ResumeBetweenCommands, Frame, NoCall, AtWork
<1>6. CASE (PauseLocalWait /\ Quiet /\ NoCall) \/ (ResumeWait /\ NoCall)
  <2>1. /\ lifecycle \in AtWork /\ lifecycle' \in AtWork
        /\ active.type \in {"DELAY", "WAIT_DI", "SET_TOOL"}
        /\ UNCHANGED <<connected, servoDisabled, stop, program, safeVars, device>>
    BY <1>2, <1>6 DEF PauseLocalWait, ResumeWait, LocalWait, AtWork, Frame, NoCall
  <2>2. active'.type = active.type /\ active'.index = active.index
    BY <1>1, <1>6, <2>1 DEF PauseLocalWait, ResumeWait, ActiveCommands
  <2> QED
    BY <2>1, <2>2, WorksOn
<1>7. CASE PauseMotion /\ Quiet /\ Stops(device)
  <2>1. PICK command : BeginStop(Tail(queue), "Pause", command, primary)
    BY <1>7 DEF PauseMotion
  <2>2. active.type = "MOVEJ" /\ lifecycle \in AtWork /\ connected
    BY <1>0, <1>7 DEF PauseMotion, AtWork
  <2>3. ~(device.pending = "OPEN" /\ device.held)
    BY <2>2 DEF DrivenInv, OpensInv
  <2>4. ~safeConfirmed'
    BY <1>0, <1>2, <1>7, <2>2
  <2> QED
    BY <1>3, <1>7, <2>1, <2>2, <2>3, <2>4, StopsAgree DEF Released
<1>8. CASE ResumeMotion /\ Quiet /\ TakesMotion(device)
           /\ Calls(SubmitMoveJ(device, Targets[active.index]))
  <2>1. /\ connected /\ active.type = "MOVEJ" /\ lifecycle = "Paused" /\ ~StopPending
        /\ UNCHANGED <<connected, servoDisabled, stop>>
        /\ active' = Resumed /\ lifecycle' = "Running"
    BY <1>0, <1>8 DEF ResumeMotion, StopLifecycles
  <2>2. /\ DeviceOK(device') /\ SameTool(device', device) /\ device'.servo = device.servo
        /\ device'.linked /\ device'.running /\ device'.motionActive
    BY <1>3, <1>8, <2>1, MotionCallTyped DEF Calls
  <2>3. MotionRuns' /\ ~StopPending' /\ connected' = TRUE /\ ~safeConfirmed'
    BY <1>0, <1>1, <1>2, <1>8, <2>1 DEF MotionRuns, StopPending, AtWork, TypeOK
  <2>4. ~Grips(device')
    BY <2>1, <2>2 DEF DrivenInv, OpensInv, Grips, SameTool, AtWork
  <2> QED
    BY <1>3, <2>1, <2>2, <2>3, <2>4, GoesOn DEF Released, SameTool
<1>9. CASE (ResumeMotionFails \/ ResumePastTimeRange) /\ Faulting /\ Faults(device)
  <2>1. PICK kind, command : BeginFault(Tail(queue), connected, kind, command)
    BY <1>9 DEF ResumeMotionFails, ResumePastTimeRange, ResumeFault
  <2> QED
    BY <1>0, <1>9, <2>1, FaultsAgree DEF Faulting, Released, TypeOK
<1>10. CASE Stop /\ Quiet /\ IF connected /\ ~StopPending THEN Stops(device) ELSE NoCall
  <2>1. CASE StopPending
    BY <1>2, <1>10, <2>1, Stays DEF Stop, Frame, NoCall
  <2>2. CASE ~StopPending /\ connected
    <3>1. BeginStop(Tail(queue), "OperatorStop", active, primary)
      BY <1>10, <2>2 DEF Stop
    <3>2. safeConfirmed' => safeRequested' /\ Secure(device)
      BY <1>2, <1>10 DEF DrivenInv, SafeInv
    <3> QED
      BY <1>3, <1>10, <2>2, <3>1, <3>2, StopsAgree DEF Released
  <2>3. CASE ~StopPending /\ ~connected
    BY <1>2, <1>10, <2>3, EndsUnlinked DEF Stop, NoCall
  <2> QED
    BY <2>1, <2>2, <2>3
<1>11. CASE EstopAccepted /\ ~connected /\ NoCall
  BY <1>0, <1>2, <1>11, EndsUnlinked DEF EstopAccepted, Estop, NoCall
<1>12. CASE /\ EstopAccepted /\ connected
            /\ Asked(IF safeRequested THEN device ELSE RequestSafeState(device))
  <2> DEFINE d == IF safeRequested THEN device ELSE RequestSafeState(device)
  <2>1. /\ DeviceOK(d) /\ SameRobot(d, device) /\ d.held = device.held
        /\ safeRequested => d = device
    BY <1>3, <1>12, SafeCallTyped DEF SameRobot
  <2>2. safeConfirmed' => safeRequested' /\ Secure(d)
    BY <1>12, <2>1, AskedConfirmed DEF EstopAccepted, Faulting, DrivenInv, SafeInv
  <2>3. Asked(d)
    BY <1>12
  <2> HIDE DEF d
  <2>4. CASE StopPending
    <3>1. /\ connected' = TRUE /\ servoDisabled' = servoDisabled /\ lifecycle' = "EmergencyStopping"
      BY <1>0, <1>12, <2>4 DEF EstopAccepted, Estop, TypeOK
    <3> QED
      BY <1>0, <1>3, <1>12, <2>1, <2>2, <2>3, <3>1, EmergencyAgrees DEF Released, SameRobot
  <2>5. CASE ~StopPending
    <3>1. BeginStop(Tail(queue), "Emergency", active, primary) /\ Stops(d)
      BY <1>12, <2>3, <2>5 DEF EstopAccepted, Estop, Asked
    <3> QED
      BY <1>3, <1>12, <2>1, <2>2, <3>1, StopsAgree DEF Released, SameRobot
  <2> QED
    BY <2>4, <2>5
<1>13. CASE EstopRefused /\ Throws /\ Asked(RequestSafeStateThrows(device))
  <2> DEFINE d == RequestSafeStateThrows(device)
  <2>1. DeviceOK(d) /\ SameRobot(d, device) /\ d.held = device.held
    BY <1>3, <1>13, SafeCallTyped DEF EstopRefused
  <2>2. ~safeConfirmed'
    BY <1>13, AskedConfirmed DEF EstopRefused, Faulting, DrivenInv, SafeInv
  <2>3. Asked(d) /\ connected
    BY <1>13 DEF EstopRefused
  <2> HIDE DEF d
  <2>4. \/ /\ lifecycle' = "EmergencyStopping" /\ UNCHANGED <<connected, servoDisabled>>
        \/ ~StopPending /\ stop' = NoStop
    BY <1>13 DEF EstopRefused, FailStop, FinishFault
  <2>5. lifecycle' = "EmergencyStopping" /\ connected' = TRUE /\ servoDisabled' = servoDisabled
    BY <1>0, <2>3, <2>4 DEF Asked, Stops, TypeOK
  <2> QED
    BY <1>0, <1>3, <2>1, <2>2, <2>3, <2>5, EmergencyAgrees DEF Released, SameRobot
<1> QED
  BY <1>4, <1>5, <1>6, <1>7, <1>8, <1>9, <1>10, <1>11, <1>12, <1>13 DEF DeviceControl

LEMMA DrivenReset ==
  ASSUME WorkcellInv, DrivenInv, DeviceReset
  PROVE  DrivenInv' /\ Released
<1>1. DeviceOK(device) /\ PollKeeps(device, PollWorkcell(device))
  BY PollTyped DEF DrivenInv
<1>2. CASE /\ WorkcellReset(SnapshotsOf(PollWorkcell(device)))
           /\ Calls(Disconnect(PollWorkcell(device)))
  <2>1. connected' = FALSE /\ servoDisabled' = servoDisabled /\ servoDisabled /\ safeConfirmed
        /\ ~safeConfirmed'
    BY <1>2 DEF WorkcellReset, SafeStateReached, ResetAllowed, ForgetSafeState
  <2>2. DeviceOK(device') /\ device'.held = PollWorkcell(device).held
    BY <1>1, <1>2, ConnectTyped DEF Calls, PollKeeps
  <2>3. Released
    BY <1>1, <2>1, <2>2 DEF Released, PollKeeps, DrivenInv, SafeInv, Secure
  <2> QED
    BY <2>1, <2>2, <2>3 DEF DrivenInv, ObeysInv, SafeInv, OpensInv, UnlinkedInv
<1>3. CASE WorkcellResetRejected /\ NoCall
  BY <1>3, Stays DEF WorkcellResetRejected, Drop, Quiet, workcellVars, NoCall
<1>4. CASE WorkcellResetRejected /\ SafeStateReached /\ Calls(PollWorkcell(device))
  <2>1. /\ UNCHANGED <<lifecycle, active, stop, connected, servoDisabled>>
        /\ UNCHANGED <<safeRequested, safeConfirmed>>
        /\ device' = PollWorkcell(device)
        /\ safeConfirmed /\ lifecycle \in {"EmergencyStopped", "Faulted"}
    BY <1>4 DEF WorkcellResetRejected, Drop, Quiet, workcellVars, safeVars, taskVars, Calls,
       SafeStateReached, ResetAllowed
  <2>2. (MotionRuns' <=> MotionRuns) /\ (StopPending' <=> StopPending)
    BY <2>1 DEF MotionRuns, StopPending
  <2> QED
    BY <1>1, <2>1, <2>2
       DEF PollKeeps, SameRobot, DrivenInv, ObeysInv, SafeInv, OpensInv, UnlinkedInv, AtWork,
           Released, Secure
<1> QED
  BY <1>2, <1>3, <1>4 DEF DeviceReset
-----------------------------------------------------------------------------
(***************************************************************************)
(* The program of a session with this workcell, and what a SET_TOOL in it  *)
(* waits for.                                                              *)
(***************************************************************************)
ToolInv ==
  /\ program = <<>> \/ program \in Programs
  /\ active.type = "SET_TOOL" => Wanted.input = "GRIPPER"

SameCommand == active'.type = active.type /\ active'.index = active.index

LEMMA ActiveAfter ==
  /\ \A q, disp, command, prim : BeginStop(q, disp, command, prim) => active' \in {command, NoCommand}
  /\ \A q, conn, kind, command : BeginFault(q, conn, kind, command) => active' \in {command, NoCommand}
  /\ \A result, disabled, prim : FinishTerminal(result, disabled, prim) => active' = NoCommand
  /\ \A conn, prim : FailStop(conn, prim) => active' = NoCommand
  /\ \A q : Succeed(q) => active' = NoCommand
<1>1. \A conn, disabled, distrust, prim :
        FinishFault(conn, disabled, distrust, prim) => active' = NoCommand
  BY DEF FinishFault
<1>2. \A q, disp, command, prim : BeginStop(q, disp, command, prim) => active' \in {command, NoCommand}
  BY <1>1, Zenon DEF BeginStop, FailStop
<1> QED
  BY <1>1, <1>2 DEF BeginFault, FinishTerminal, FailStop, Succeed

\* A command of the program that becomes active, or one that stays so or ends.
LEMMA ToolKept ==
  ASSUME ToolInv, program' = program,
         active' = NoCommand \/ SameCommand \/ active'.type # "SET_TOOL"
  PROVE  ToolInv'
BY DEF ToolInv, SameCommand, Wanted, NoCommand

LEMMA ToolStarts ==
  ASSUME TypeOK, ToolInv, program' = program, StartsCommand,
         active'.type = program[next].type, active'.index = next
  PROVE  ToolInv'
<1>1. program \in Programs /\ next \in DOMAIN program
  BY EmptySeq DEF ToolInv, StartsCommand, TypeOK
<1> QED
  BY <1>1, CoppeliaAssumption DEF ToolInv, Wanted

LEMMA ToolControl ==
  ASSUME TypeOK, ToolInv, DeviceControl \/ DeviceReset
  PROVE  ToolInv'
<1>0. /\ active.type # "NONE" => active \in ActiveCommands
      /\ NoCommand.type = "NONE" /\ (~HasActive => active.type = "NONE")
  BY DEF TypeOK, HasActive, NoCommand, ActiveCommands
<1>1. \A gen, remaining, deadline : active.type # "NONE" =>
        /\ [active EXCEPT !.remaining = remaining].type = active.type
        /\ [active EXCEPT !.remaining = remaining].index = active.index
        /\ [active EXCEPT !.gen = gen].type = active.type
        /\ [active EXCEPT !.gen = gen].index = active.index
        /\ [active EXCEPT !.remaining = remaining, !.deadline = deadline, !.gen = gen].type = active.type
        /\ [active EXCEPT !.remaining = remaining, !.deadline = deadline, !.gen = gen].index = active.index
        /\ [active EXCEPT !.gen = gen, !.deadline = deadline].type = active.type
        /\ [active EXCEPT !.gen = gen, !.deadline = deadline].index = active.index
  BY <1>0 DEF ActiveCommands
<1>2. CASE \/ ControlWithoutEffect \/ PauseRefused \/ WorkcellResetRejected
           \/ PauseBetweenCommands \/ ResumeBetweenCommands
  BY <1>2, ToolKept
     DEF ControlWithoutEffect, PauseRefused, WorkcellResetRejected, Drop, taskVars,
         PauseBetweenCommands, ResumeBetweenCommands, Frame, SameCommand
<1>3. CASE PauseLocalWait \/ PauseMotion
  <2>1. program' = program /\ active.type # "NONE"
    BY <1>3 DEF PauseLocalWait, PauseMotion, Frame, LocalWait
  <2>2. CASE PauseLocalWait
    BY <1>1, <2>1, <2>2, ToolKept DEF PauseLocalWait, SameCommand
  <2>3. CASE PauseMotion
    <3>1. active' \in {[active EXCEPT !.remaining = Remaining], NoCommand}
      BY <2>3, ActiveAfter DEF PauseMotion
    <3> QED
      BY <1>1, <2>1, <3>1, ToolKept DEF SameCommand
  <2> QED
    BY <1>3, <2>2, <2>3
<1>4. CASE ResumeWait \/ ResumeMotion
  <2>1. program' = program /\ active' = Resumed /\ active.type # "NONE"
    BY <1>4 DEF ResumeWait, ResumeMotion, Frame, LocalWait
  <2>2. Resumed.type = active.type /\ Resumed.index = active.index
    BY <1>0, <2>1 DEF ActiveCommands, Resumed
  <2> QED
    BY <2>1, <2>2, ToolKept DEF SameCommand
<1>5. CASE ResumeMotionFails \/ ResumePastTimeRange
  <2>1. program' = program /\ active.type # "NONE"
    BY <1>1, <1>5 DEF ResumeMotionFails, ResumePastTimeRange, Frame, HasActive, TypeOK,
       ActiveCommands, CommandTypes
  <2>2. active' \in {[active EXCEPT !.gen = @ + 1], NoCommand}
    BY <1>5, ActiveAfter DEF ResumeMotionFails, ResumePastTimeRange, ResumeFault
  <2> QED
    BY <1>1, <2>1, <2>2, ToolKept DEF SameCommand
<1>6. CASE Stop \/ EstopAccepted \/ EstopRefused
  <2>1. program' = program
    BY <1>6 DEF Stop, EstopAccepted, Estop, EstopRefused, Frame
  <2>2. active' \in {active, NoCommand}
    BY <1>6, ActiveAfter DEF Stop, EstopAccepted, Estop, EstopRefused, taskVars
  <2> QED
    BY <2>1, <2>2, ToolKept DEF SameCommand
<1>7. CASE \E S : WorkcellReset(S)
  BY <1>7 DEF WorkcellReset, SafeStateReached, ResetAllowed, HasActive, NoCommand, ToolInv
<1> QED
  BY <1>2, <1>3, <1>4, <1>5, <1>6, <1>7 DEF DeviceControl, DeviceReset

LEMMA ToolStep ==
  ASSUME TypeOK, ToolInv, DeviceAdvance
  PROVE  ToolInv'
<1>1. CASE DevicePoll
  <2>1. program' = program /\ active' \in {active, NoCommand}
    BY <1>1, ActiveAfter
       DEF DevicePoll, Polled, SnapshotAlarms, SnapshotSatisfies, ToolFails, StillWaiting,
           MotionStillRunning, MotionDone, MotionPollThrows, StalePoll, Drop, taskVars, Frame
  <2> QED
    BY <2>1, ToolKept DEF SameCommand
<1>2. CASE DeviceStop
  <2>1. CASE PauseConfirmed
    <3>1. active' = active \/ (HasActive /\ active' = [active EXCEPT !.gen = @ + 1])
      BY <2>1 DEF PauseConfirmed
    <3>2. SameCommand
      BY <3>1 DEF SameCommand, HasActive, TypeOK, ActiveCommands
    <3> QED
      BY <2>1, <3>2, ToolKept DEF PauseConfirmed, StopConfirmed, Resolve, Frame
  <2>2. CASE OperatorStopConfirmed \/ ProgramStopConfirmed
    BY <2>2, ActiveAfter, ToolKept
       DEF OperatorStopConfirmed, ProgramStopConfirmed, StopConfirmed, Resolve, Frame
  <2>3. CASE FaultMadeSafe \/ EmergencyMadeSafe
    <3>1. active' = NoCommand
      BY <2>3, ActiveAfter DEF FaultMadeSafe, FaultStopConfirmed, EmergencyMadeSafe,
         EmergencyStopConfirmed, FinishFault
    <3> QED
      BY <2>3, <3>1, ToolKept DEF FaultMadeSafe, FaultStopConfirmed, EmergencyMadeSafe,
         EmergencyStopConfirmed, StopConfirmed, Resolve, Frame
  <2>4. CASE StaleStopPoll \/ StopPollFails \/ StopDeadline
    BY <2>4, ActiveAfter, ToolKept
       DEF StaleStopPoll, StopPollFails, StopDeadline, Drop, taskVars, Resolve, Frame, SameCommand
  <2> QED
    BY <1>2, <2>1, <2>2, <2>3, <2>4 DEF DeviceStop
<1>3. CASE StaleDelayComplete \/ StaleTimeout \/ DelayComplete \/ CommandTimeout
  BY <1>3, ActiveAfter, ToolKept
     DEF StaleDelayComplete, StaleTimeout, DelayComplete, CommandTimeout, Drop, taskVars, Frame,
         SameCommand
<1>4. CASE DeviceNextCommand
  <2>1. program' = program
    BY <1>4 DEF DeviceNextCommand, ConnectFails, CommandPastTimeRange, StartPastTimeRange,
       StartMotionFails, DeviceCommandRejected, ServoCommand, ZeroDelay, Pass, StartMotion,
       StartDelay, StopCommand, StartOutput, StartTool, DeviceCommandAccepted, StartInputWait,
       InputAlreadyThere, WaitAlreadySatisfied, Begin, StartFault, Frame
  <2>2. CASE \/ ServoCommand \/ ZeroDelay \/ InputAlreadyThere
             \/ ConnectFails \/ CommandPastTimeRange
    <3>1. active' \in {active, NoCommand}
      BY <2>2, ActiveAfter
         DEF ServoCommand, ZeroDelay, Pass, InputAlreadyThere, WaitAlreadySatisfied, ConnectFails,
             CommandPastTimeRange, StartPastTimeRange, StartFault
    <3> QED
      BY <2>1, <3>1, ToolKept DEF SameCommand
  <2>3. CASE StartMotionFails \/ DeviceCommandRejected
    <3>1. PICK kind, command :
            /\ StartFault(kind, command)
            /\ \/ command = active
               \/ /\ command = Activate(program[next])
                  /\ program[next].type \in {"MOVEJ", "SET_DO"}
      BY <2>3 DEF StartMotionFails, DeviceCommandRejected, Start
    <3>2. active' \in {command, NoCommand}
      BY <3>1, ActiveAfter DEF StartFault
    <3>3. CASE command = active
      BY <2>1, <3>2, <3>3, ToolKept DEF SameCommand
    <3>4. CASE command = Activate(program[next]) /\ program[next].type \in {"MOVEJ", "SET_DO"}
      <4>1. command.type # "SET_TOOL"
        BY <3>4 DEF Activate
      <4> QED
        BY <2>1, <3>2, <4>1, ToolKept
    <3> QED
      BY <3>1, <3>3, <3>4
  <2>4. CASE StartMotion \/ StartDelay \/ StartOutput({0}) \/ StartTool({0}) \/ StartInputWait
    BY <2>1, <2>4, ToolStarts
       DEF StartMotion, StartDelay, StartOutput, StartTool, DeviceCommandAccepted, StartInputWait,
           Start, Begin, Activate
  <2>5. CASE StopCommand
    BY <2>1, <2>5, ActiveAfter, ToolKept DEF StopCommand
  <2> QED
    BY <1>4, <2>2, <2>3, <2>4, <2>5 DEF DeviceNextCommand
<1> QED
  BY <1>1, <1>2, <1>3, <1>4, ToolControl DEF DeviceAdvance, DeviceEvent
-----------------------------------------------------------------------------
(***************************************************************************)
(* The polls.                                                              *)
(***************************************************************************)
LEMMA PollMeets ==
  ASSUME WorkcellInv, DrivenInv, TakePoll
  PROVE  /\ Ready(device, TRUE) /\ TypeOK /\ connected = TRUE
         /\ ~StopPending /\ ~safeConfirmed /\ lifecycle = "Running" /\ HasActive
         /\ device.motionActive <=> Motion
         /\ Grips(device) => active.type = "SET_TOOL" /\ ~Wanted.want
<1>1. /\ HasActive /\ lifecycle = "Running" /\ ~StopPending
  BY OwnPollRuns DEF WorkcellInv, SessionInv, SafetyInv
<1>2. /\ TypeOK /\ connected = TRUE /\ Ready(device, connected) /\ ~safeConfirmed
  BY <1>1, DrivenFacts DEF TypeOK, AtWork
<1> QED
  BY <1>1, <1>2 DEF DrivenInv, ObeysInv, OpensInv, MotionRuns, Motion, Grips, AtWork

LEMMA SeenAgrees ==
  ASSUME WorkcellInv, DrivenInv, TakePoll
  PROVE  \A d \in {Swept, PollWorkcell(Swept)} :
           /\ Ready(d, TRUE) /\ (d.motionActive <=> Swept.motionActive)
           /\ ~Motion => ~d.motionActive
           /\ Grips(d) => active.type = "SET_TOOL" /\ ~Wanted.want
           /\ device.held /\ ~d.held => device.pending = "OPEN"
<1>1. /\ DeviceOK(device) /\ device.linked /\ device.running /\ device.servo = ~servoDisabled
      /\ ~StopPending /\ ~safeConfirmed /\ (device.motionActive <=> Motion)
      /\ Grips(device) => active.type = "SET_TOOL" /\ ~Wanted.want
  BY PollMeets DEF Ready
<1>2. /\ DeviceOK(Swept) /\ SameTool(Swept, device) /\ Swept.linked /\ Swept.running
      /\ Swept.servo = device.servo
      /\ ~Motion => ~Swept.motionActive
  BY <1>1, MotionCallTyped DEF Swept, SameTool
<1>3. PollKeeps(Swept, PollWorkcell(Swept))
  BY <1>2, PollTyped
<1> QED
  BY <1>1, <1>2, <1>3 DEF Ready, PollKeeps, SameRobot, SameTool, Grips

\* A snapshot in which a SET_TOOL is done.
LEMMA DoneWork ==
  ASSUME NEW d, NEW s \in SnapshotsOf(d), active.type = "SET_TOOL", ToolInv, Satisfies(s)
  PROVE  /\ (d.observed = "CLOSED") <=> Wanted.want = TRUE
         /\ Wanted.want \in BOOLEAN
         /\ ToolVerdict(d) = "done"
         /\ d.observed = "CLOSED" => d.held
         /\ d.observed # "CLOSED" => ~d.held /\ d.placeStable = StableSteps
         /\ ~(d.toolStable < StableSteps)
<1>1. s.input = Values(d) /\ s.tool = ToolVerdict(d)
  BY DEF SnapshotsOf
<1>2. Values(d)["GRIPPER"] = (d.observed = "CLOSED")
  BY CoppeliaAssumption DEF Values
<1>3. Values(d)["GRIPPER"] = Wanted.want /\ ToolVerdict(d) = "done"
  BY <1>1 DEF Satisfies, Shows, ToolInv
<1>4. /\ ~(d.toolStable < StableSteps)
      /\ IF d.observed = "CLOSED" THEN d.held /\ d.attachedStable = StableSteps
         ELSE ~d.held /\ d.placeStable = StableSteps
  BY <1>3 DEF ToolVerdict
<1> QED
  BY <1>2, <1>3, <1>4

LEMMA DrivenPoll ==
  ASSUME WorkcellInv, DrivenInv, ToolInv, DevicePoll
  PROVE  DrivenInv' /\ Released
<1>1. CASE StalePoll /\ Quiet /\ NoCall
  BY <1>1, Stays DEF StalePoll, Drop, Quiet, workcellVars, NoCall
<1>2. CASE TakePoll
  <2>1. /\ Ready(device, TRUE) /\ TypeOK /\ connected = TRUE
        /\ ~StopPending /\ ~safeConfirmed /\ lifecycle = "Running" /\ HasActive
        /\ device.motionActive <=> Motion
    BY <1>2, PollMeets
  <2>3. \A d \in {device, Swept, PollWorkcell(Swept)} : \A kind :
          BeginFault(Tail(queue), connected, kind, active) /\ AskSafeState /\ Faults(d) =>
            DrivenInv' /\ Released
    <3> SUFFICES ASSUME NEW d \in {device, Swept, PollWorkcell(Swept)}, NEW kind,
                        BeginFault(Tail(queue), TRUE, kind, active), AskSafeState, Faults(d)
                 PROVE  DrivenInv' /\ Released
      BY <2>1
    <3>1. /\ Ready(d, TRUE)
          /\ device.held /\ ~d.held => device.pending = "OPEN"
      BY <1>2, <2>1, SeenAgrees
    <3>2. DrivenInv' /\ device'.held = d.held
      BY <3>1, FaultsAgree
    <3> QED
      BY <1>2, <2>1, <3>1, <3>2 DEF Released
  <2> DEFINE seen == PollWorkcell(Swept)
  <2>4. CASE Polled(Swept, seen, SnapshotsOf(seen))
    <3>1. /\ Ready(seen, TRUE) /\ (seen.motionActive <=> Swept.motionActive)
          /\ ~Motion => ~seen.motionActive
          /\ Grips(seen) => active.type = "SET_TOOL" /\ ~Wanted.want
          /\ device.held /\ ~seen.held => device.pending = "OPEN"
      BY <1>2, SeenAgrees
    <3>2. CASE \/ SnapshotAlarms(SnapshotsOf(seen)) /\ Faults(seen)
               \/ ToolFails(SnapshotsOf(seen)) /\ Faults(seen)
               \/ SnapshotAlarms(Broken) /\ Faults(Swept)
      BY <2>3, <3>2 DEF SnapshotAlarms, ToolFails
    <3>3. CASE \/ SnapshotSatisfies(SnapshotsOf(seen)) /\ Calls(seen)
               \/ ~Swept.motionActive /\ MotionDone(SnapshotsOf(seen)) /\ Calls(seen)
      <4>1. /\ Succeed(Tail(queue)) /\ UNCHANGED safeVars /\ device' = seen
            /\ ~Motion \/ ~Swept.motionActive
        <5>1. \A s : Satisfies(s) => active.type # "MOVEJ"
          BY DEF Satisfies
        <5> QED
          BY <3>3, <5>1 DEF SnapshotSatisfies, MotionDone, Calls, Motion
      <4>2. ~Grips(seen)
        <5>1. SUFFICES ASSUME Grips(seen) PROVE FALSE
          OBVIOUS
        <5>2. active.type = "SET_TOOL" /\ ~Wanted.want
          BY <3>1, <5>1
        <5>3. PICK s \in SnapshotsOf(seen) : Satisfies(s)
          BY <3>3, <5>2 DEF SnapshotSatisfies, MotionDone, Motion
        <5> QED
          BY <5>1, <5>2, <5>3, DoneWork DEF Grips
      <4>3. /\ active'.type = "NONE" /\ UNCHANGED <<stop, connected, servoDisabled>>
            /\ ~safeConfirmed' /\ ~StopPending'
        BY <2>1, <4>1 DEF Succeed, NoCommand, safeVars, StopPending
      <4> HIDE DEF seen
      <4>4. DrivenInv'
        BY <2>1, <3>1, <4>1, <4>2, <4>3, GoesOn DEF Ready, MotionRuns
      <4> QED
        BY <1>2, <2>1, <3>1, <4>1, <4>4 DEF Released
    <3>4. CASE \/ StillWaiting(SnapshotsOf(seen)) /\ Calls(seen)
               \/ Swept.motionActive /\ MotionStillRunning(SnapshotsOf(seen)) /\ Calls(seen)
      <4>1. /\ UNCHANGED <<taskVars, safeVars, program>> /\ device' = seen
            /\ Motion <=> seen.motionActive
        BY <3>1, <3>4 DEF StillWaiting, MotionStillRunning, Calls, Frame
      <4>2. /\ UNCHANGED <<lifecycle, active, stop, connected, servoDisabled>>
            /\ ~safeConfirmed' /\ ~StopPending' /\ Wanted' = Wanted
        BY <2>1, <4>1 DEF taskVars, safeVars, StopPending, Wanted
      <4> HIDE DEF seen
      <4>3. DrivenInv'
        BY <2>1, <3>1, <4>1, <4>2, GoesOn DEF Ready, MotionRuns, Motion
      <4> QED
        BY <1>2, <2>1, <3>1, <4>1, <4>3 DEF Released
    <3> QED
      BY <2>4, <3>2, <3>3, <3>4, Zenon DEF Polled
  <2>5. CASE MotionPollThrows /\ Faults(device)
    BY <2>3, <2>5 DEF MotionPollThrows, Faulting
  <2> QED
    BY <1>2, <2>4, <2>5 DEF DevicePoll, StalePoll, TakePoll
<1> QED
  BY <1>1, <1>2 DEF DevicePoll, MotionPollThrows
-----------------------------------------------------------------------------
(***************************************************************************)
(* The events of a stop, and of the time.                                  *)
(***************************************************************************)
LEMMA EpisodeMeets ==
  ASSUME WorkcellInv, DrivenInv, OwnEpisode
  PROVE  /\ TypeOK /\ connected = TRUE /\ StopPending
         /\ DeviceOK(device) /\ device.linked /\ device.running
         /\ device.servo = ~servoDisabled /\ ~device.motionActive /\ device.stopActive
         /\ stop.disp \notin {"Fault", "Emergency"} => ~untrusted
<1>1. StopPending
  BY DEF OwnEpisode
<1>2. /\ TypeOK /\ connected = TRUE /\ ~device.motionActive
  BY <1>1, DrivenFacts DEF TypeOK
<1>3. stop.disp \notin {"Fault", "Emergency"} => ~untrusted
  BY <1>1 DEF WorkcellInv, SessionInv, SafetyInv, AlarmInv
<1> QED
  BY <1>1, <1>2, <1>3 DEF DrivenInv, ObeysInv

\* The device after the poll that confirms a stop.
LEMMA StoppedDevice ==
  ASSUME WorkcellInv, DrivenInv, OwnEpisode
  PROVE  LET d == PollStop(device)
         IN /\ DeviceOK(d) /\ SameTool(d, device) /\ d.linked /\ d.running
            /\ d.servo = ~servoDisabled /\ ~d.motionActive
            /\ PollSafeState(d) => Secure(d)
BY EpisodeMeets, StopCallTyped DEF PollSafeState, Secure

LEMMA DrivenStop ==
  ASSUME WorkcellInv, DrivenInv, DeviceStop
  PROVE  DrivenInv' /\ Released
<1>0. Quiet => UNCHANGED <<safeVars, safeRequested, safeConfirmed>>
  BY DEF Quiet, workcellVars, safeVars
<1>1. CASE StaleStopPoll /\ Quiet /\ NoCall
  BY <1>0, <1>1, Stays DEF StaleStopPoll, Drop, NoCall
<1>2. CASE StopDeadline /\ Quiet /\ NoCall /\ ~StopDeadlinePassed
  BY <1>0, <1>2, Stays DEF StopDeadline, Drop, NoCall
<1>3. CASE OwnEpisode /\ FailStop(connected, primary) /\ Quiet /\ EndsServoOff(device)
  <2>1. FinishFault(TRUE, servoDisabled, TRUE, Raise(primary, "Fatal"))
    BY <1>3, EpisodeMeets DEF FailStop
  <2>2. safeConfirmed' => safeRequested' /\ Secure(device) /\ ~device.motionActive
    BY <1>0, <1>3 DEF DrivenInv, SafeInv
  <2>3. DrivenInv' /\ device'.held = device.held
    BY <1>3, <2>1, <2>2, EpisodeMeets, EndsAgree
  <2> QED
    BY <2>3 DEF Released
<1>4. CASE PauseConfirmed /\ Quiet /\ Calls(PollStop(device))
  <2> DEFINE d == PollStop(device)
  <2>1. OwnEpisode /\ lifecycle = "Pausing" /\ HasActive
    BY <1>4, PauseIsPausing DEF PauseConfirmed, StopConfirmed, WorkcellInv, SessionInv, SafetyInv,
       EpisodeInv, PauseHasCommand
  <2>2. /\ DeviceOK(d) /\ SameTool(d, device) /\ d.linked /\ d.running
        /\ d.servo = ~servoDisabled /\ ~d.motionActive
    BY <2>1, StoppedDevice
  <2>3. TypeOK /\ connected = TRUE /\ ~safeConfirmed
    BY <2>1, EpisodeMeets, DrivenFacts
  <2>4. /\ active'.type = active.type /\ active'.index = active.index
        /\ lifecycle' = "Paused" /\ stop' = NoStop /\ program' = program
        /\ UNCHANGED <<connected, servoDisabled>> /\ device' = d /\ ~safeConfirmed'
    BY <1>0, <1>4, <2>1, <2>3
       DEF PauseConfirmed, StopConfirmed, Resolve, Frame, Calls, TypeOK, HasActive, ActiveCommands
  <2> HIDE DEF d
  <2>5. Grips(d) => active.type = "SET_TOOL" /\ ~Wanted.want
    BY <2>1, <2>2, <2>3 DEF DrivenInv, OpensInv, Grips, SameTool
  <2>6. DrivenInv'
    BY <2>2, <2>3, <2>4, <2>5, GoesOn DEF MotionRuns, StopPending, NoStop, Wanted
  <2> QED
    BY <2>2, <2>4, <2>6 DEF Released, SameTool
<1>5. CASE (OperatorStopConfirmed \/ ProgramStopConfirmed) /\ Quiet /\ Calls(PollStop(device))
  <2> DEFINE d == PollStop(device)
  <2>1. PICK result : /\ OwnEpisode /\ stop.disp \in {"OperatorStop", "ProgramComplete"}
                      /\ FinishTerminal(result, servoDisabled, primary)
                      /\ result \in {"OperatorStopped", "ProgramCompleted"}
    BY <1>5 DEF OperatorStopConfirmed, ProgramStopConfirmed, StopConfirmed
  <2>2. /\ DeviceOK(d) /\ SameTool(d, device) /\ d.linked /\ d.running
        /\ d.servo = ~servoDisabled /\ ~d.motionActive
    BY <2>1, StoppedDevice
  <2>3. /\ TypeOK /\ connected = TRUE /\ ~untrusted
    BY <2>1, EpisodeMeets
  <2>4. /\ connected' = TRUE /\ servoDisabled' = servoDisabled /\ stop' = NoStop
        /\ lifecycle' = "Stopped" /\ device' = d
    BY <1>5, <2>1, <2>3, CoppeliaAssumption DEF FinishTerminal, TriesDisconnect, Calls
  <2>5. safeConfirmed' => safeRequested' /\ Secure(d)
    BY <1>0, <1>5, <2>2 DEF DrivenInv, SafeInv, Secure, SameTool
  <2> HIDE DEF d
  <2> QED
    BY <2>2, <2>4, <2>5
       DEF DrivenInv, ObeysInv, SafeInv, OpensInv, UnlinkedInv, MotionRuns, StopPending, NoStop,
           AtWork, Released, SameTool
<1>6. CASE /\ FaultMadeSafe \/ EmergencyMadeSafe
           /\ safeConfirmed' \in {PollSafeState(PollStop(device)) \/ safeConfirmed, safeConfirmed}
           /\ EndsServoOff(PollStop(device))
  <2> DEFINE d == PollStop(device)
  <2>1. OwnEpisode /\ stop.disp \in {"Fault", "Emergency"} /\ UNCHANGED safeRequested
    BY <1>6 DEF FaultMadeSafe, EmergencyMadeSafe, FaultStopConfirmed, EmergencyStopConfirmed,
       StopConfirmed, SafeStatePolled
  <2>2. /\ DeviceOK(d) /\ SameTool(d, device) /\ d.linked /\ d.running
        /\ d.servo = ~servoDisabled /\ ~d.motionActive
        /\ PollSafeState(d) => Secure(d)
    BY <2>1, StoppedDevice
  <2>3. TypeOK /\ connected = TRUE /\ safeRequested
    BY <2>1, EpisodeMeets DEF WorkcellInv, SafeStateAsked
  <2>4. safeConfirmed' => safeRequested' /\ Secure(d) /\ ~d.motionActive
    BY <1>6, <2>1, <2>2, <2>3 DEF DrivenInv, SafeInv, Secure, SameTool
  <2>5. \A conn, disabled, distrust, prim :
          FinishFault(conn, disabled, distrust, prim) =>
            lifecycle' \in EndLifecycles /\ (conn = TRUE => connected' = TRUE) /\ stop' = NoStop
    <3>1. ~DisconnectOnTerminal
      BY CoppeliaAssumption
    <3> QED
      BY <3>1 DEF FinishFault, EndLifecycles
  <2>6. lifecycle' \in EndLifecycles /\ connected' = TRUE /\ ~StopPending'
    <3>1. CASE FaultMadeSafe
      BY <2>3, <2>5, <3>1 DEF FaultMadeSafe, FaultStopConfirmed, StopPending
    <3>2. CASE EmergencyStopConfirmed
      BY <2>3, <2>5, <3>2, CoppeliaAssumption
         DEF EmergencyStopConfirmed, FinishTerminal, TriesDisconnect, StopPending, EndLifecycles
    <3>3. CASE EmergencyMadeSafe /\ ~EmergencyStopConfirmed
      BY <2>3, <2>5, <3>3 DEF EmergencyMadeSafe, StopPending
    <3> QED
      BY <1>6, <3>1, <3>2, <3>3
  <2>7. EndsServoOff(d)
    BY <1>6
  <2> HIDE DEF d
  <2>8. DrivenInv' /\ device'.held = d.held
    BY <2>2, <2>4, <2>6, <2>7, EndsOff
  <2> QED
    BY <2>2, <2>8 DEF Released, SameTool
<1> QED
  BY <1>1, <1>2, <1>3, <1>4, <1>5, <1>6
     DEF DeviceStop, StopDeadline, StopDeadlinePassed, StopPollFails

LEMMA DrivenEvent ==
  ASSUME WorkcellInv, DrivenInv, ToolInv, DeviceEvent
  PROVE  DrivenInv' /\ Released
<1>1. CASE (StaleDelayComplete \/ StaleTimeout) /\ Quiet /\ NoCall
  BY <1>1, Stays DEF StaleDelayComplete, StaleTimeout, Drop, Quiet, workcellVars, NoCall
<1>2. CASE DelayComplete /\ Quiet /\ NoCall
  <2>1. /\ TypeOK /\ HasActive /\ active.type = "DELAY" /\ lifecycle \in AtWork /\ ~StopPending
        /\ connected = TRUE /\ ~safeConfirmed
    BY <1>2, DrivenFacts DEF DelayComplete, DelayIsOver, AtWork, StopLifecycles, TypeOK
  <2>2. /\ lifecycle' = "Running" /\ active' = NoCommand /\ ~StopPending' /\ ~safeConfirmed'
        /\ UNCHANGED <<connected, servoDisabled, device>>
    BY <1>2, <2>1 DEF DelayComplete, Succeed, StopPending, Quiet, workcellVars, safeVars, NoCall
  <2> QED
    BY <2>1, <2>2, GoesOn
       DEF DrivenInv, ObeysInv, OpensInv, MotionRuns, NoCommand, Grips, Released
<1>3. CASE CommandTimeout /\ Faulting /\ Faults(device)
  <2>1. PICK kind : BeginFault(Tail(queue), connected, kind, active)
    BY <1>3 DEF CommandTimeout
  <2> QED
    BY <1>3, <2>1, FaultsAgree, DrivenFacts DEF Faulting, Released, TypeOK
<1> QED
  BY <1>1, <1>2, <1>3, DrivenControl, DrivenReset, DrivenPoll, DrivenStop DEF DeviceEvent

LEMMA DrivenAdvance ==
  ASSUME WorkcellInv, DrivenInv, ToolInv, DeviceAdvance
  PROVE  DrivenInv' /\ ToolInv' /\ Released
BY DrivenEvent, DrivenCommand, ToolStep DEF DeviceAdvance, WorkcellInv, SessionInv, SafetyInv, EpisodeInv

LEMMA DrivenHost ==
  ASSUME WorkcellInv, DrivenInv, ToolInv, NEW P \in SUBSET Programs, NEW C, DeviceHost(P, C)
  PROVE  DrivenInv' /\ ToolInv' /\ Released
<1>1. CASE \E c \in C : SubmitControl(c) /\ Quiet
  <2>1. UNCHANGED <<taskVars, program, safeVars, device>>
    BY <1>1 DEF DeviceHost, SubmitControl, Quiet, workcellVars, NoCall
  <2> QED
    BY <2>1, Stays, ToolKept DEF taskVars, SameCommand
<1>2. CASE \E p \in P : WorkcellSubmit(p)
  <2>1. /\ connected' = FALSE /\ servoDisabled' /\ ~safeConfirmed' /\ device' = device
        /\ active' = NoCommand /\ program' \in Programs
    BY <1>2 DEF DeviceHost, WorkcellSubmit, SubmitProgram, PrepareResult, ForgetSafeState, NoCall
  <2> QED
    BY <2>1 DEF DrivenInv, ObeysInv, SafeInv, OpensInv, UnlinkedInv, ToolInv, NoCommand, Released
<1> QED
  BY <1>1, <1>2 DEF DeviceHost
-----------------------------------------------------------------------------
(***************************************************************************)
(* A step with the device is a step of the session with any workcell.      *)
(***************************************************************************)
LEMMA SnapshotsFit ==
  ASSUME NEW d, DeviceOK(d)
  PROVE  SnapshotsOf(d) \subseteq Snapshots
<1> SUFFICES ASSUME NEW s \in SnapshotsOf(d) PROVE s \in Snapshots
  OBVIOUS
<1>1. Values(d) \in [Inputs -> BOOLEAN]
  <2>1. \A i \in Inputs : (CASE i = "PART_READY"   -> d.partReady
                             [] i = "GRIP_OK"      -> d.held
                             [] i = "CLAMP_ENABLE" -> d.output
                             [] OTHER              -> d.observed = "CLOSED") \in BOOLEAN
    BY DEF DeviceOK
  <2> QED
    BY <2>1 DEF Values
<1>2. ToolVerdict(d) \in {"unsettled", "failed", "done"}
  BY DEF ToolVerdict
<1>3. d.generation \in Generations
  BY CoppeliaAssumption DEF DeviceOK, Generations
<1>4. {FALSE, Throws} \subseteq BOOLEAN
  BY DEF Throws
<1> QED
  BY <1>1, <1>2, <1>3, <1>4 DEF SnapshotsOf, Snapshots

\* The more snapshots there may be, the more steps there are.
LEMMA MoreSnapshots ==
  ASSUME NEW S \in SUBSET Snapshots
  PROVE  /\ SnapshotAlarms(S) => SnapshotAlarms(Snapshots)
         /\ SnapshotSatisfies(S) => SnapshotSatisfies(Snapshots)
         /\ ToolFails(S) => ToolFails(Snapshots)
         /\ StillWaiting(S) => StillWaiting(Snapshots)
         /\ MotionStillRunning(S) => MotionStillRunning(Snapshots)
         /\ MotionDone(S) => MotionDone(Snapshots)
         /\ WorkcellReset(S) => WorkcellReset(Snapshots)
<1>1. /\ SnapshotAlarms(S) => SnapshotAlarms(Snapshots)
      /\ ToolFails(S) => ToolFails(Snapshots)
  BY DEF SnapshotAlarms, ToolFails
<1>2. SnapshotSatisfies(S) => SnapshotSatisfies(Snapshots)
  BY DEF SnapshotSatisfies
<1>3. StillWaiting(S) => StillWaiting(Snapshots)
  BY DEF StillWaiting
<1>4. QuietSnapshot(S) => QuietSnapshot(Snapshots)
  BY DEF QuietSnapshot
<1>5. /\ MotionStillRunning(S) => MotionStillRunning(Snapshots)
      /\ MotionDone(S) => MotionDone(Snapshots)
  BY <1>4 DEF MotionStillRunning, MotionDone
<1>6. WorkcellReset(S) => WorkcellReset(Snapshots)
  BY DEF WorkcellReset
<1> QED
  BY <1>1, <1>2, <1>3, <1>5, <1>6

LEMMA DeviceIsWorkcell ==
  ASSUME WorkcellInv, DrivenInv, DeviceAdvance
  PROVE  WorkcellAdvance
<1>1. CASE DeviceControl
  BY <1>1 DEF DeviceControl, WorkcellAdvance, WorkcellEvent, WorkcellControl
<1>2. CASE DeviceReset
  <2>1. SnapshotsOf(PollWorkcell(device)) \subseteq Snapshots
    BY PollTyped, SnapshotsFit DEF DrivenInv, PollKeeps
  <2>2. WorkcellReset(Snapshots) \/ WorkcellResetRejected
    BY <1>2, <2>1, MoreSnapshots DEF DeviceReset
  <2> QED
    BY <2>2 DEF WorkcellAdvance, WorkcellEvent, WorkcellControl
<1>3. CASE DevicePoll
  <2>1. CASE (StalePoll /\ Quiet) \/ MotionPollThrows
    BY <2>1 DEF WorkcellAdvance, WorkcellEvent
  <2>2. CASE TakePoll /\ Polled(Swept, PollWorkcell(Swept), SnapshotsOf(PollWorkcell(Swept)))
    <3> DEFINE S == SnapshotsOf(PollWorkcell(Swept))
    <3>1. S \subseteq Snapshots /\ Broken \subseteq Snapshots
      BY <2>2, SeenAgrees, SnapshotsFit DEF Ready, Broken, Snapshots
    <3>2. \/ SnapshotAlarms(S) \/ SnapshotSatisfies(S) \/ ToolFails(S) \/ StillWaiting(S)
          \/ MotionStillRunning(S) \/ MotionDone(S) \/ SnapshotAlarms(Broken)
      BY <2>2, Zenon DEF Polled
    <3> HIDE DEF S
    <3>3. \/ SnapshotAlarms(Snapshots) \/ SnapshotSatisfies(Snapshots) \/ ToolFails(Snapshots)
          \/ StillWaiting(Snapshots) \/ MotionStillRunning(Snapshots) \/ MotionDone(Snapshots)
      BY <3>1, <3>2, MoreSnapshots
    <3> QED
      BY <3>3, Zenon DEF WorkcellAdvance, WorkcellEvent
  <2> QED
    BY <1>3, <2>1, <2>2, Zenon DEF DevicePoll
<1>4. CASE DeviceStop
  BY <1>4 DEF DeviceStop, WorkcellAdvance, WorkcellEvent
<1>5. CASE \/ (StaleDelayComplete \/ StaleTimeout \/ DelayComplete) /\ Quiet
           \/ CommandTimeout /\ Faulting
  BY <1>5 DEF WorkcellAdvance, WorkcellEvent
<1>6. CASE DeviceNextCommand
  <2>1. /\ StartOutput({0}) => StartOutput(AnyDelay)
        /\ StartTool({0}) => StartTool(AnyDelay)
    BY DEF StartOutput, StartTool, DeviceCommandAccepted, AnyDelay
  <2> QED
    BY <1>6, <2>1 DEF DeviceNextCommand, WorkcellAdvance, WorkcellNextCommand
<1> QED
  BY <1>1, <1>2, <1>3, <1>4, <1>5, <1>6 DEF DeviceAdvance, DeviceEvent
-----------------------------------------------------------------------------
(***************************************************************************)
(* The run.                                                                *)
(***************************************************************************)
RunDeviceInv ==
  /\ WorkcellInv /\ ToolInv
  /\ DeviceOK(device) /\ (safeConfirmed => ~device.output)
  /\ step = "loop" => DrivenInv

LEMMA RunStarts == RunInit => RunDeviceInv
<1> SUFFICES ASSUME RunInit PROVE RunDeviceInv
  OBVIOUS
<1>1. /\ WorkcellInit /\ device = Created /\ DeviceOK(device)
      /\ ~safeConfirmed /\ ~connected /\ servoDisabled /\ active = NoCommand /\ program = <<>>
  BY CreatedTyped DEF RunInit, CoppeliaInit, WorkcellInit, Init
<1> QED
  BY <1>1, WorkcellStarts
     DEF RunDeviceInv, DrivenInv, ObeysInv, SafeInv, OpensInv, UnlinkedInv, ToolInv, NoCommand

\* A step of the run: one of the session's loop, or one in which the session stands still.
LEMMA RunSteps ==
  ASSUME RunNext
  PROVE  \/ /\ step = "loop" /\ UNCHANGED <<cliVars, fileVars, scriptVars, alive>>
            /\ DeviceHost(TasksOf, ControlsOf) \/ DeviceAdvance
         \/ UNCHANGED <<allVars, device>> /\ (step' = "loop" => step = "loop")
         \/ /\ step # "loop" /\ step' # "loop" /\ UNCHANGED allVars
            /\ device' = Disconnect(device) \/ \E throws \in BOOLEAN : device' = StopSimulation(device, throws)
<1>1. CASE Submits \/ Advances
  BY <1>1 DEF Submits, Advances
<1>2. CASE StopTheSimulation \/ DisconnectSimulator
  BY <1>2 DEF StopTheSimulation, DisconnectSimulator, Operation, Calls
<1>3. CASE Main /\ ~(StopTheSimulation \/ DisconnectSimulator)
  BY <1>3 DEF Main, StopTheSimulation, DisconnectSimulator, LeaveLoop, Operation, QuitSimulator, Return, ClearReady, ClearContinue, PublishReady,
     Confirmed, BarrierTimesOut, BarrierStep, SessionStands, coppeliaVars
<1>4. CASE BarrierFails
  BY <1>4 DEF BarrierFails, BarrierStep, SessionStands, coppeliaVars
<1>5. CASE Script
  BY <1>5 DEF Script, ReadsByHand, WritesByHand, SeesReady, MissesReady, Captures, ConfirmsCapture,
     WaitsFor, StopsAll, ScriptStep, MainStands, SessionStands, coppeliaVars
<1> QED
  BY <1>1, <1>2, <1>3, <1>4, <1>5 DEF RunNext
LEMMA HostIsSession ==
  ASSUME setup \in Setups, DeviceHost(TasksOf, ControlsOf)
  PROVE  WorkcellNext /\ TasksOf \subseteq Programs
<1>1. TasksOf \subseteq Programs /\ ControlsOf \subseteq ControlsUsed
  BY TasksAssumption DEF TasksOf, ControlsOf
<1> QED
  BY <1>1 DEF DeviceHost, WorkcellNext

LEMMA StandsStillInv ==
  ASSUME RunDeviceInv, UNCHANGED <<allVars, device>>, step' = "loop" => step = "loop"
  PROVE  RunDeviceInv'
<1>1. WorkcellInv'
  BY WorkcellKept DEF RunDeviceInv
<1>2. UNCHANGED <<taskVars, program, safeVars, device, active, safeConfirmed>>
  BY DEF allVars, vars, taskVars, workcellVars, safeVars
<1>3. ToolInv'
  BY <1>2, ToolKept DEF RunDeviceInv, SameCommand
<1>4. DrivenInv => DrivenInv'
  BY <1>2, Stays
<1> QED
  BY <1>1, <1>2, <1>3, <1>4 DEF RunDeviceInv

LEMMA RunKeeps ==
  ASSUME setup \in Setups, RunDeviceInv, [RunNext]_runVars
  PROVE  /\ RunDeviceInv' /\ [WorkcellNext]_allVars
         /\ device'.held = device.held \/ (Released /\ step = "loop")
<1>1. CASE UNCHANGED runVars
  BY <1>1, StandsStillInv DEF runVars, coppeliaVars, cliVars
<1>2. CASE UNCHANGED <<allVars, device>> /\ (step' = "loop" => step = "loop")
  BY <1>2, StandsStillInv
<1>3. CASE /\ step = "loop" /\ UNCHANGED <<cliVars, fileVars, scriptVars, alive>>
           /\ DeviceHost(TasksOf, ControlsOf) \/ DeviceAdvance
  <2>1. DrivenInv /\ ToolInv /\ WorkcellInv
    BY <1>3 DEF RunDeviceInv
  <2>2. DrivenInv' /\ ToolInv' /\ Released /\ WorkcellNext
    BY <1>3, <2>1, DrivenAdvance, DrivenHost, HostIsSession, DeviceIsWorkcell DEF WorkcellNext
  <2>3. WorkcellInv'
    BY <2>1, <2>2, WorkcellKept
  <2>4. DeviceOK(device)' /\ (safeConfirmed' => ~device'.output)
    BY <2>2 DEF DrivenInv, SafeInv, Secure
  <2> QED
    BY <1>3, <2>2, <2>3, <2>4 DEF RunDeviceInv
<1>4. CASE /\ step # "loop" /\ step' # "loop" /\ UNCHANGED allVars
           /\ device' = Disconnect(device) \/ \E throws \in BOOLEAN : device' = StopSimulation(device, throws)
  <2>1. /\ DeviceOK(device') /\ device'.held = device.held /\ device'.output = device.output
    BY <1>4, ConnectTyped, SimulationTyped DEF RunDeviceInv, SameTool
  <2>2. WorkcellInv'
    BY <1>4, WorkcellKept DEF RunDeviceInv
  <2>3. UNCHANGED <<taskVars, program, active, safeConfirmed>>
    BY <1>4 DEF allVars, vars, taskVars, workcellVars, safeVars
  <2>4. ToolInv'
    BY <2>3, ToolKept DEF RunDeviceInv, SameCommand
  <2> QED
    BY <1>4, <2>1, <2>2, <2>3, <2>4 DEF RunDeviceInv
<1> QED
  BY <1>1, <1>2, <1>3, <1>4, RunSteps

\* Who started the CLI stays.
LEMMA SetupStays == RunInit /\ [][RunNext]_runVars => [](setup \in Setups)
<1>1. RunInit => setup \in Setups
  BY DEF RunInit
<1>2. setup \in Setups /\ [RunNext]_runVars => (setup \in Setups)'
  <2> SUFFICES ASSUME setup \in Setups, RunNext \/ UNCHANGED runVars PROVE setup' = setup
    OBVIOUS
  <2>1. CASE UNCHANGED runVars
    BY <2>1 DEF runVars, cliVars
  <2>2. CASE Submits \/ Advances
    BY <2>2 DEF Submits, Advances, cliVars
  <2>3. CASE Main \/ BarrierFails
    BY <2>3 DEF Main, LeaveLoop, StopTheSimulation, DisconnectSimulator, QuitSimulator, Return,
       ClearReady, ClearContinue, PublishReady, Confirmed, BarrierTimesOut, BarrierFails,
       BarrierStep, Operation, ScriptStands
  <2>4. CASE Script
    BY <2>4 DEF Script, ReadsByHand, WritesByHand, SeesReady, MissesReady, Captures,
       ConfirmsCapture, WaitsFor, StopsAll, ScriptStep
  <2> QED
    BY <2>1, <2>2, <2>3, <2>4 DEF RunNext
<1> QED
  BY <1>1, <1>2, PTL

LEMMA RunDeviceHolds == RunSpec => [](RunDeviceInv /\ setup \in Setups)
<1>1. RunDeviceInv /\ setup \in Setups /\ [RunNext]_runVars => RunDeviceInv'
  BY RunKeeps
<1> QED
  BY <1>1, RunStarts, SetupStays, PTL DEF RunSpec

(***************************************************************************)
(* What the session asks of the CoppeliaSim backend, the answers it gets   *)
(* and the controls and programs of the CLI make a behaviour of a session  *)
(* with some workcell: whatever WorkcellSession promises holds in a run of *)
(* the CLI (runtime.cpp with coppeliasim_backend.cpp and main.cpp).        *)
(***************************************************************************)
THEOREM SimulatorDrivesSession == RunSpec => WorkcellSpec
<1>1. RunInit => WorkcellInit
  BY DEF RunInit, CoppeliaInit
<1>2. RunDeviceInv /\ setup \in Setups /\ [RunNext]_runVars => [WorkcellNext]_allVars
  BY RunKeeps
<1> QED
  BY <1>1, <1>2, RunDeviceHolds, PTL DEF RunSpec, WorkcellSpec

(***************************************************************************)
(* As long as main advances the task, a running MOVEJ has a motion at the  *)
(* backend and nothing else has, an awaited stop was submitted there, and  *)
(* the servo is as the session believes: PollMotion and PollStop are never *)
(* called out of turn (coppeliasim_backend.cpp, the handlers in            *)
(* runtime.cpp).                                                           *)
(***************************************************************************)
THEOREM DeviceInStep == RunSpec => []DeviceAgrees
<1>1. RunDeviceInv => DeviceAgrees
  BY DrivenFacts DEF RunDeviceInv, DeviceAgrees, DrivenInv, ObeysInv, MotionRuns
<1> QED
  BY <1>1, RunDeviceHolds, PTL

(***************************************************************************)
(* A safe state that PollSafeState has confirmed stays: until the next     *)
(* program the session sends the gripper, the output and the robot nothing *)
(* that undoes it (runtime.cpp, coppeliasim_backend.cpp).                  *)
(***************************************************************************)
THEOREM SafeStateStays == RunSpec => []SafeStateLasts
<1>1. RunDeviceInv => SafeStateLasts
  BY DEF RunDeviceInv, SafeStateLasts, DrivenInv, SafeInv, Secure
<1> QED
  BY <1>1, RunDeviceHolds, PTL

(***************************************************************************)
(* Only a poll of a running SET_TOOL ... OPEN lets a held workpiece go,    *)
(* with the gripper told to open all the way (ReadWorkcellSnapshot in      *)
(* coppeliasim_backend.cpp).                                               *)
(***************************************************************************)
THEOREM HoldsUntilToldToOpen == RunSpec => ReleasedOnCommand
<1>1. RunDeviceInv /\ setup \in Setups /\ [RunNext]_runVars =>
        [ device.held /\ ~device'.held /\ connected =>
            /\ lifecycle = "Running" /\ active.type = "SET_TOOL" /\ ~Wanted.want
            /\ device.motorTarget = Travel ]_runVars
  <2> SUFFICES ASSUME RunDeviceInv, setup \in Setups, [RunNext]_runVars,
                      device.held, ~device'.held, connected
               PROVE  /\ lifecycle = "Running" /\ active.type = "SET_TOOL" /\ ~Wanted.want
                      /\ device.motorTarget = Travel
    OBVIOUS
  <2>1. step = "loop" /\ lifecycle = "Running" /\ device.pending = "OPEN"
    BY RunKeeps DEF Released
  <2> QED
    BY <2>1 DEF RunDeviceInv, DrivenInv, OpensInv, AtWork, DeviceOK
<1> QED
  BY <1>1, RunDeviceHolds, PTL DEF RunSpec, ReleasedOnCommand

\* A tool that has settled is at the end of its travel it was sent to, and seen there.
LEMMA SettledTool ==
  ASSUME NEW d, DeviceOK(d)
  PROVE  LET e == PollWorkcell(d)
         IN /\ ~(e.toolStable < StableSteps) =>
                 \/ e.observed = "CLOSED" /\ e.motor = 0
                 \/ e.observed = "OPEN" /\ e.motor = Travel
            /\ e.placeStable = StableSteps => e.piece = "place"
<1> DEFINE tool == ToolRead(d)
           grip == GripRead(tool)
           e    == PieceRead(grip)
<1>0. PollWorkcell(d) = e
  BY DEF PollWorkcell, ReadWorkcellSnapshot
<1>1. /\ ~(tool.toolStable < StableSteps) =>
           \/ tool.observed = "CLOSED" /\ tool.motor = 0
           \/ tool.observed = "OPEN" /\ tool.motor = Travel
      /\ DOMAIN tool = Fields
  BY DeviceAssumption DEF ToolRead, DeviceOK, Fields, Count
<1>2. /\ grip.toolStable = tool.toolStable /\ grip.observed = tool.observed
      /\ grip.motor = tool.motor /\ DOMAIN grip = Fields
  <2> HIDE DEF tool
  <2> QED
    BY <1>1 DEF GripRead, Fields
<1>3. /\ e.toolStable = grip.toolStable /\ e.observed = grip.observed /\ e.motor = grip.motor
      /\ e.placeStable = StableSteps => e.piece = "place"
  <2> HIDE DEF grip
  <2> QED
    BY <1>2, DeviceAssumption DEF PieceRead, Fields, Count
<1> HIDE DEF tool, grip, e
<1> QED
  BY <1>0, <1>1, <1>2, <1>3

LEMMA DoneByPoll ==
  ASSUME WorkcellInv, DrivenInv, ToolInv, DeviceAdvance, HasActive, next' = next + 1,
         active.type = "SET_TOOL"
  PROVE  \E s \in SnapshotsOf(PollWorkcell(Swept)) :
           TakePoll /\ Satisfies(s) /\ device' = PollWorkcell(Swept)
<1>0. next \in Nat
  BY DEF WorkcellInv, SessionInv, SafetyInv, EpisodeInv, TypeOK
<1>1. TakePoll
  <2>1. WorkcellNext
    BY DeviceIsWorkcell DEF WorkcellNext
  <2> QED
    BY <2>1, PassedBySnapshot DEF SnapshotSatisfies
<1>2. DevicePoll
  <2>1. ~DeviceNextCommand
    BY <1>1 DEF TakePoll, Take, DeviceNextCommand, ConnectFails, CommandPastTimeRange,
       StartPastTimeRange, StartMotionFails, DeviceCommandRejected, ServoCommand, ZeroDelay,
       StartMotion, StartDelay, StopCommand, StartOutput, StartTool, DeviceCommandAccepted,
       StartInputWait, InputAlreadyThere, WaitAlreadySatisfied, Start, StartsCommand,
       CallsNextCommand
  <2>2. ~DeviceControl /\ ~DeviceReset
    BY <1>1 DEF TakePoll, Take, TakeControl, DeviceControl, DeviceReset, ControlWithoutEffect,
       PauseRefused, PauseBetweenCommands, PauseLocalWait, ResumeBetweenCommands, ResumeWait,
       PauseMotion, ResumeMotion, ResumeMotionFails, ResumePastTimeRange, Stop, EstopAccepted,
       Estop, EstopRefused, WorkcellReset, WorkcellResetRejected
  <2>3. ~DeviceStop /\ ~(StaleDelayComplete \/ StaleTimeout \/ DelayComplete) /\ ~CommandTimeout
    BY <1>1 DEF TakePoll, Take, DeviceStop, StaleStopPoll, StopDeadline, StopPollFails,
       PauseConfirmed, OperatorStopConfirmed, ProgramStopConfirmed, StopConfirmed, FaultMadeSafe,
       FaultStopConfirmed, EmergencyMadeSafe, EmergencyStopConfirmed, StaleDelayComplete,
       StaleTimeout, DelayComplete, CommandTimeout
  <2> QED
    BY <2>1, <2>2, <2>3 DEF DeviceAdvance, DeviceEvent
<1>3. next' # next
  BY <1>0
<1>4. SnapshotSatisfies(SnapshotsOf(PollWorkcell(Swept))) /\ device' = PollWorkcell(Swept)
  BY <1>2, <1>3
     DEF DevicePoll, Polled, SnapshotAlarms, ToolFails, StillWaiting, MotionStillRunning,
         MotionDone, MotionPollThrows, StalePoll, Drop, Motion, Calls
<1> QED
  BY <1>4 DEF SnapshotSatisfies

(***************************************************************************)
(* A SET_TOOL is passed only with its work done on the workpiece, not just *)
(* with the gripper at its end (ApplyWorkcellSnapshot in runtime.cpp on    *)
(* what ReadWorkcellSnapshot in coppeliasim_backend.cpp has seen).         *)
(***************************************************************************)
THEOREM PassedToolsHaveWorked == RunSpec => ToolDoesItsWork
<1>1. RunDeviceInv /\ setup \in Setups /\ [RunNext]_runVars =>
        [ Passed /\ active.type = "SET_TOOL" =>
            IF Wanted.want THEN device'.held /\ device'.motor = 0
            ELSE ~device'.held /\ device'.piece = "place" /\ device'.motor = Travel ]_runVars
  <2> SUFFICES ASSUME RunDeviceInv, setup \in Setups, RunNext, HasActive, next' = next + 1,
                      active.type = "SET_TOOL"
               PROVE  IF Wanted.want THEN device'.held /\ device'.motor = 0
                      ELSE ~device'.held /\ device'.piece = "place" /\ device'.motor = Travel
    BY DEF Passed
  <2>0. next \in Nat \ {0}
    BY DEF RunDeviceInv, WorkcellInv, SessionInv, SafetyInv, EpisodeInv, TypeOK
  <2>1. step = "loop" /\ DeviceAdvance
    <3>1. ~(UNCHANGED allVars)
      BY <2>0 DEF allVars, vars
    <3>2. ~DeviceHost(TasksOf, ControlsOf)
      BY <2>0 DEF DeviceHost, WorkcellSubmit, SubmitProgram, PrepareResult, SubmitControl
    <3> QED
      BY <3>1, <3>2, RunSteps
  <2>2. WorkcellInv /\ DrivenInv /\ ToolInv
    BY <2>1 DEF RunDeviceInv
  <2> DEFINE d == PollWorkcell(Swept)
  <2>3. PICK s \in SnapshotsOf(d) : TakePoll /\ Satisfies(s) /\ device' = d
    BY <2>1, <2>2, DoneByPoll
  <2>4. /\ (d.observed = "CLOSED") <=> Wanted.want = TRUE
        /\ Wanted.want \in BOOLEAN
        /\ d.observed = "CLOSED" => d.held
        /\ d.observed # "CLOSED" => ~d.held /\ d.placeStable = StableSteps
        /\ ~(d.toolStable < StableSteps)
    BY <2>2, <2>3, DoneWork
  <2>5. DeviceOK(Swept)
    BY <2>2, <2>3, SeenAgrees DEF Ready
  <2>6. /\ \/ d.observed = "CLOSED" /\ d.motor = 0
           \/ d.observed = "OPEN" /\ d.motor = Travel
        /\ d.placeStable = StableSteps => d.piece = "place"
    BY <2>4, <2>5, SettledTool
  <2> HIDE DEF d
  <2> QED
    BY <2>3, <2>4, <2>6
<1> QED
  BY <1>1, RunDeviceHolds, PTL DEF RunSpec, ToolDoesItsWork
-----------------------------------------------------------------------------
(***************************************************************************)
(* The evidence: what main shows after the task is the scene of a session  *)
(* that is connected, so that the simulation it stops is the one that ran. *)
(***************************************************************************)
EvidenceInv == lastGeneration # NoGeneration => connected = TRUE

LEMMA KeepsConnection ==
  /\ \A q, disp, command, prim : BeginStop(q, disp, command, prim) => connected' = TRUE
  /\ \A q, kind, command : BeginFault(q, TRUE, kind, command) => connected' = TRUE
  /\ \A result, disabled, prim :
       FinishTerminal(result, disabled, prim) /\ connected = TRUE => connected' = TRUE
  /\ \A disabled, distrust, prim : FinishFault(TRUE, disabled, distrust, prim) => connected' = TRUE
  /\ \A prim : FailStop(TRUE, prim) => connected' = TRUE
<1>1. ~DisconnectOnTerminal
  BY CoppeliaAssumption
<1>2. \A disabled, distrust, prim : FinishFault(TRUE, disabled, distrust, prim) => connected' = TRUE
  BY <1>1 DEF FinishFault
<1>3. \A q, disp, command, prim : BeginStop(q, disp, command, prim) => connected' = TRUE
  BY <1>2, Zenon DEF BeginStop, FailStop
<1>4. \A q, kind, command : BeginFault(q, TRUE, kind, command) => connected' = TRUE
  BY <1>2, <1>3, Zenon DEF BeginFault
<1>5. \A result, disabled, prim :
        FinishTerminal(result, disabled, prim) /\ connected = TRUE => connected' = TRUE
  <2> SUFFICES ASSUME NEW result, NEW disabled, NEW prim,
                      FinishTerminal(result, disabled, prim), connected = TRUE
               PROVE  connected' = TRUE
    OBVIOUS
  <2>1. \/ connected' = (connected /\ ~DisconnectOnTerminal)
        \/ \E distrust, p : FinishFault(connected, disabled, distrust, p)
        \/ \E distrust, p : FinishFault(connected /\ ~DisconnectOnTerminal, disabled, distrust, p)
    BY Zenon DEF FinishTerminal
  <2>2. (connected /\ ~DisconnectOnTerminal) = TRUE
    BY <1>1
  <2> QED
    BY <1>2, <2>1, <2>2
<1> QED
  BY <1>2, <1>3, <1>4, <1>5 DEF FailStop

LEMMA StaysConnected ==
  ASSUME TypeOK, connected, DeviceAdvance
  PROVE  connected' = TRUE \/ lastGeneration' = NoGeneration
<1>0. connected = TRUE
  BY DEF TypeOK
<1>1. CASE DeviceControl
  <2>1. CASE \/ ControlWithoutEffect \/ PauseRefused \/ PauseBetweenCommands \/ PauseLocalWait
             \/ ResumeBetweenCommands \/ ResumeWait \/ ResumeMotion
    BY <1>0, <2>1 DEF ControlWithoutEffect, PauseRefused, Drop, taskVars, PauseBetweenCommands,
       PauseLocalWait, ResumeBetweenCommands, ResumeWait, ResumeMotion
  <2>2. CASE PauseMotion \/ ResumeMotionFails \/ ResumePastTimeRange
    BY <1>0, <2>2, KeepsConnection DEF PauseMotion, ResumeMotionFails, ResumePastTimeRange, ResumeFault
  <2>3. CASE Stop \/ EstopAccepted \/ EstopRefused
    <3>1. CASE Stop
      BY <1>0, <3>1, KeepsConnection DEF Stop, taskVars
    <3>2. CASE Estop
      BY <1>0, <3>2, KeepsConnection DEF Estop
    <3>3. CASE EstopRefused
      BY <1>0, <3>3, KeepsConnection DEF EstopRefused
    <3> QED
      BY <2>3, <3>1, <3>2, <3>3 DEF EstopAccepted
  <2> QED
    BY <1>1, <2>1, <2>2, <2>3 DEF DeviceControl
<1>2. CASE DeviceReset
  BY <1>0, <1>2 DEF DeviceReset, WorkcellReset, ForgetSafeState, WorkcellResetRejected, Drop, taskVars
<1>3. CASE DevicePoll
  BY <1>0, <1>3, KeepsConnection
     DEF DevicePoll, Polled, SnapshotAlarms, ToolFails, SnapshotSatisfies, MotionDone, Succeed,
         StillWaiting, MotionStillRunning, MotionPollThrows, StalePoll, Drop, taskVars
<1>4. CASE DeviceStop
  <2>1. CASE StaleStopPoll \/ StopDeadline \/ StopPollFails \/ PauseConfirmed
    BY <1>0, <2>1, KeepsConnection
       DEF StaleStopPoll, StopDeadline, StopPollFails, PauseConfirmed, Drop, taskVars
  <2>2. CASE OperatorStopConfirmed \/ ProgramStopConfirmed
    BY <1>0, <2>2, KeepsConnection DEF OperatorStopConfirmed, ProgramStopConfirmed
  <2>3. CASE FaultMadeSafe \/ EmergencyMadeSafe
    BY <1>0, <2>3, KeepsConnection
       DEF FaultMadeSafe, EmergencyMadeSafe, FaultStopConfirmed, EmergencyStopConfirmed
  <2> QED
    BY <1>4, <2>1, <2>2, <2>3 DEF DeviceStop
<1>5. CASE StaleDelayComplete \/ StaleTimeout \/ DelayComplete \/ CommandTimeout
  BY <1>0, <1>5, KeepsConnection
     DEF StaleDelayComplete, StaleTimeout, DelayComplete, Succeed, CommandTimeout, Drop, taskVars
<1>6. CASE DeviceNextCommand
  <2>1. CASE ConnectFails \/ CommandPastTimeRange \/ StartMotionFails \/ DeviceCommandRejected
             \/ StopCommand
    BY <1>0, <2>1, KeepsConnection
       DEF ConnectFails, CommandPastTimeRange, StartPastTimeRange, StartMotionFails,
           DeviceCommandRejected, StartFault, StopCommand
  <2>2. CASE ServoCommand \/ ZeroDelay \/ StartDelay \/ StartInputWait \/ InputAlreadyThere
             \/ StartMotion \/ StartOutput({0}) \/ StartTool({0})
    BY <2>2 DEF ServoCommand, ZeroDelay, Pass, StartDelay, StartInputWait, InputAlreadyThere,
       WaitAlreadySatisfied, StartMotion, StartOutput, StartTool, DeviceCommandAccepted, Begin
  <2> QED
    BY <1>6, <2>1, <2>2 DEF DeviceNextCommand
<1> QED
  BY <1>1, <1>2, <1>3, <1>4, <1>5, <1>6 DEF DeviceAdvance, DeviceEvent

LEMMA GenerationMoves ==
  ASSUME WorkcellInv, WorkcellNext
  PROVE  lastGeneration' \in {lastGeneration, NoGeneration} \/ connected = TRUE
<1>1. TakePoll => connected = TRUE
  BY OwnPollRuns DEF WorkcellInv, SessionInv, SafetyInv, EpisodeInv, WorkNeedsConnection, TypeOK
<1>2. Quiet \/ Faulting => lastGeneration' = lastGeneration
  BY DEF Quiet, workcellVars, Faulting
<1>3. CASE \E p \in Programs : WorkcellSubmit(p)
  BY <1>3 DEF WorkcellSubmit, ForgetSafeState
<1>4. CASE PollByWorkcell \/ MotionPollThrows
  BY <1>1, <1>4
     DEF PollByWorkcell, SnapshotAlarms, MotionFailsUnderAlarm, SnapshotSatisfies, ToolFails,
         StillWaiting, MotionStillRunning, MotionDone, MotionFailed, MotionPollThrows
<1>5. CASE WorkcellReset(Snapshots)
  BY <1>5 DEF WorkcellReset, ForgetSafeState
<1>6. CASE ResetDisconnectFails(Snapshots)
  BY <1>6 DEF ResetDisconnectFails, SafeStateReached, WorkcellInv, SessionInv, SafetyInv,
     EpisodeInv, TypeOK
<1>7. CASE FaultMadeSafe \/ EmergencyMadeSafe
  BY <1>7 DEF FaultMadeSafe, EmergencyMadeSafe, SafeStatePolled
<1>8. CASE EstopAccepted \/ EstopRefused \/ WorkcellResetRejected \/ ResumeWait
  BY <1>2, <1>8 DEF EstopAccepted, EstopRefused, WorkcellResetRejected, ResumeWait
<1>9. WorkcellControl =>
        \/ Quiet \/ Faulting \/ EstopAccepted \/ EstopRefused \/ ResumeWait
        \/ WorkcellReset(Snapshots) \/ ResetDisconnectFails(Snapshots) \/ WorkcellResetRejected
  BY Zenon DEF WorkcellControl
<1>10. WorkcellEvent =>
         \/ WorkcellControl \/ PollByWorkcell \/ MotionPollThrows \/ Quiet \/ Faulting
         \/ FaultMadeSafe \/ EmergencyMadeSafe
  BY Zenon DEF WorkcellEvent, PollByWorkcell
<1>11. WorkcellNextCommand => Quiet \/ Faulting
  BY Zenon DEF WorkcellNextCommand
<1> QED
  BY <1>2, <1>3, <1>4, <1>5, <1>6, <1>7, <1>8, <1>9, <1>10, <1>11
     DEF WorkcellNext, WorkcellAdvance

LEMMA EvidenceKept ==
  ASSUME WorkcellInv, DrivenInv, EvidenceInv, DeviceHost(TasksOf, ControlsOf) \/ DeviceAdvance,
         setup \in Setups
  PROVE  EvidenceInv'
<1>1. CASE DeviceAdvance
  <2>1. connected => connected' = TRUE \/ lastGeneration' = NoGeneration
    BY <1>1, StaysConnected DEF WorkcellInv, SessionInv, SafetyInv, EpisodeInv
  <2>2. lastGeneration' \in {lastGeneration, NoGeneration} \/ connected = TRUE
    BY <1>1, DeviceIsWorkcell, GenerationMoves DEF WorkcellNext
  <2> QED
    BY <2>1, <2>2 DEF EvidenceInv
<1>2. CASE DeviceHost(TasksOf, ControlsOf)
  BY <1>2 DEF DeviceHost, WorkcellSubmit, ForgetSafeState, SubmitControl, taskVars, Quiet,
     workcellVars, EvidenceInv
<1> QED
  BY <1>1, <1>2
-----------------------------------------------------------------------------
(***************************************************************************)
(* The barrier and the script.                                             *)
(***************************************************************************)
AtBarrier == {"clear_ready", "clear_continue", "publish", "wait"}
BeforePublish == {"loop", "stop_simulation", "clear_ready", "clear_continue", "publish"}
AfterBarrier == {"disconnect", "quit_simulator", "return", "exited"}

\* Nothing of this run is about before main publishes it.
FilesInv ==
  /\ readyFile \in {"none", "stale", "own"}
  /\ step \in BeforePublish => readyFile # "own" /\ continueFile # "own" /\ copied # "own"
  /\ step = "wait" => readyFile = "own"
  /\ alive \/ step \in {"return", "exited", "killed"}
  /\ readyFile = "own" /\ step \in AfterBarrier => barrier # "none"

\* The simulation that main has stopped is the one of the evidence, and it stays stopped.
SceneInv ==
  /\ step \in {"loop", "stop_simulation"} => EvidenceInv
  /\ step = "stop_simulation" /\ connected => device.linked /\ device.running
  /\ step \in AtBarrier \/ readyFile = "own" => ~device.simulating

AfterReady == {"captures", "confirms", "waits for main", "waits for simulator"}
AfterCapture == {"confirms", "waits for main", "waits for simulator", "stops all", "over"}

\* Whoever has confirmed the record of this run has looked at its scene before.
LookedInv ==
  /\ setup = "plain" => script = "none" /\ step \notin AtBarrier
  /\ setup = "by hand" =>
       /\ script \in {"waits for ready", "writes copy"}
       /\ step = "wait" /\ "own" \in {copied, continueFile} => picture = "frozen"
  /\ Scripted =>
       /\ readyFile # "stale" /\ continueFile # "stale"
       /\ script \in {"waits for ready"} \cup AfterReady \cup AfterCapture
       /\ script \in AfterReady => readyFile = "own"
       /\ script \in {"stops all", "over"} /\ ~failed => readyFile = "own"
       /\ script \in AfterCapture \/ continueFile = "own" => picture = "frozen" \/ failed

EndInv ==
  /\ exitStatus # NotExited => step = "exited"
  /\ barrier \in {"none", "ok", "failed"} /\ (exitStatus = 0 => barrier # "failed")
  /\ script = "over" => step \in {"exited", "killed"}
  /\ verdict # "none" => script = "over"

CliInv ==
  /\ failed \in BOOLEAN /\ alive \in BOOLEAN
  /\ FilesInv /\ SceneInv /\ LookedInv /\ EndInv /\ VerifiedIsGenuine

LEMMA CliStarts == RunInit => CliInv
<1> SUFFICES ASSUME RunInit PROVE CliInv
  OBVIOUS
<1>1. /\ lastGeneration = NoGeneration /\ step = "loop" /\ script \in {"none", "waits for ready"}
      /\ setup \in Setups /\ copied = "none" /\ failed = FALSE /\ verdict = "none" /\ alive = TRUE
      /\ barrier = "none" /\ exitStatus = NotExited
      /\ readyFile \in {"stale", "none"} /\ continueFile \in {"stale", "none"}
      /\ Scripted => readyFile = "none" /\ continueFile = "none"
      /\ script = (IF setup = "plain" THEN "none" ELSE "waits for ready")
  BY DEF RunInit, CoppeliaInit, WorkcellInit, Scripted
<1> QED
  BY <1>1 DEF CliInv, FilesInv, SceneInv, EvidenceInv, LookedInv, EndInv, VerifiedIsGenuine,
     AtBarrier, BeforePublish, AfterBarrier, AfterReady, AfterCapture, Scripted, Setups, NotExited

\* Of a step of main only: the script's part stands still.
LEMMA CliMain ==
  ASSUME setup \in Setups, RunDeviceInv, CliInv, Main \/ BarrierFails
  PROVE  CliInv'
<1>0. /\ DeviceOK(device) /\ alive \in BOOLEAN /\ failed \in BOOLEAN
      /\ UNCHANGED <<setup, script, copied, failed, picture, verdict>>
  BY DEF RunDeviceInv, CliInv, Main, LeaveLoop, StopTheSimulation, DisconnectSimulator,
     QuitSimulator, Return, ClearReady, ClearContinue, PublishReady, Confirmed, BarrierTimesOut,
     BarrierFails, BarrierStep, Operation, ScriptStands, scriptVars
<1>1. step \notin {"exited", "killed"} /\ script # "over" /\ verdict = "none" /\ exitStatus = NotExited
  BY DEF CliInv, EndInv, Main, LeaveLoop, StopTheSimulation, DisconnectSimulator,
     QuitSimulator, Return, ClearReady, ClearContinue, PublishReady, Confirmed, BarrierTimesOut,
     BarrierFails, BarrierStep, Operation
<1>2. CASE LeaveLoop
  <2>1. /\ UNCHANGED <<lastGeneration, connected, device, alive, readyFile, continueFile, barrier, exitStatus>>
        /\ step = "loop" /\ step' = "stop_simulation"
    BY <1>2 DEF LeaveLoop, SessionStands, coppeliaVars, allVars, vars, taskVars, workcellVars, fileVars
  <2>2. connected => device.linked /\ device.running
    BY <2>1 DEF RunDeviceInv, DrivenInv, ObeysInv
  <2> QED
    BY <1>0, <1>1, <2>1, <2>2
       DEF CliInv, FilesInv, SceneInv, EvidenceInv, LookedInv, EndInv, VerifiedIsGenuine,
           AtBarrier, BeforePublish, AfterBarrier, AfterReady, AfterCapture, Scripted
<1>3. CASE StopTheSimulation
  <2>1. PICK ok \in BOOLEAN :
          /\ step = "stop_simulation"
          /\ step' = IF EvidenceCaptureRequested /\ ok /\ HasWorkcellEvidence
                     THEN "clear_ready" ELSE "disconnect"
          /\ device' = StopSimulation(device, ~ok)
          /\ barrier' \in {barrier, "failed"}
          /\ UNCHANGED <<lastGeneration, connected, alive, readyFile, continueFile, exitStatus>>
    BY <1>3 DEF StopTheSimulation, Operation, Calls, allVars, vars, taskVars, workcellVars, fileVars
  <2>2. step' = "clear_ready" => ~device'.simulating /\ setup # "plain"
    <3>1. SUFFICES ASSUME step' = "clear_ready" PROVE ~device'.simulating /\ setup # "plain"
      OBVIOUS
    <3>2. ok /\ lastGeneration # NoGeneration /\ setup # "plain"
      BY <2>1, <3>1 DEF HasWorkcellEvidence, EvidenceCaptureRequested
    <3>3. device.linked /\ device.running
      BY <2>1, <3>2 DEF CliInv, SceneInv, EvidenceInv
    <3> QED
      BY <1>0, <2>1, <3>2, <3>3, SimulationTyped
  <2>3. readyFile # "own" /\ continueFile # "own" /\ copied # "own" /\ alive
    BY <2>1 DEF CliInv, FilesInv, BeforePublish
  <2>4. FilesInv' /\ SceneInv'
    BY <1>0, <2>1, <2>2, <2>3 DEF CliInv, FilesInv, SceneInv, BeforePublish, AfterBarrier, AtBarrier
  <2>5. LookedInv'
    BY <1>0, <2>1, <2>2 DEF CliInv, LookedInv, AtBarrier, Scripted
  <2>6. EndInv'
    BY <1>0, <1>1, <2>1 DEF CliInv, EndInv, NotExited
  <2> QED
    BY <1>0, <1>1, <2>1, <2>4, <2>5, <2>6 DEF CliInv, VerifiedIsGenuine
<1>4. CASE DisconnectSimulator
  <2>1. /\ step = "disconnect" /\ step' = "quit_simulator" /\ device' = Disconnect(device)
        /\ UNCHANGED <<alive, readyFile, continueFile, barrier, exitStatus>>
    BY <1>4 DEF DisconnectSimulator, Operation, Calls, fileVars
  <2>2. device'.simulating = device.simulating
    BY <1>0, <2>1, ConnectTyped
  <2> QED
    BY <1>0, <1>1, <2>1, <2>2
       DEF CliInv, FilesInv, SceneInv, LookedInv, EndInv, VerifiedIsGenuine,
           AtBarrier, BeforePublish, AfterBarrier, AfterReady, AfterCapture, Scripted
<1>5. CASE QuitSimulator
  <2>1. /\ step = "quit_simulator" /\ step' = "return" /\ alive' \in {alive, FALSE}
        /\ UNCHANGED <<device, readyFile, continueFile, barrier, exitStatus>>
    BY <1>0, <1>5 DEF QuitSimulator, Operation, SessionStands, coppeliaVars, fileVars
  <2> QED
    BY <1>0, <1>1, <2>1
       DEF CliInv, FilesInv, SceneInv, LookedInv, EndInv, VerifiedIsGenuine,
           AtBarrier, BeforePublish, AfterBarrier, AfterReady, AfterCapture, Scripted
<1>6. CASE Return
  <2>1. /\ step = "return" /\ step' = "exited" /\ (exitStatus' = 0 => barrier # "failed")
        /\ UNCHANGED <<device, readyFile, continueFile, barrier, alive>>
    BY <1>6 DEF Return, SessionStands, coppeliaVars, fileVars
  <2> QED
    BY <1>0, <1>1, <2>1
       DEF CliInv, FilesInv, SceneInv, LookedInv, EndInv, VerifiedIsGenuine,
           AtBarrier, BeforePublish, AfterBarrier, AfterReady, AfterCapture, Scripted
<1>7. CASE ClearReady \/ ClearContinue \/ PublishReady
  <2>1. /\ \/ /\ step = "clear_ready" /\ step' = "clear_continue"
              /\ readyFile' = "none" /\ continueFile' = continueFile
           \/ /\ step = "clear_continue" /\ step' = "publish"
              /\ readyFile' = readyFile /\ continueFile' = "none"
           \/ /\ step = "publish" /\ step' = "wait"
              /\ readyFile' = "own" /\ continueFile' = continueFile
        /\ UNCHANGED <<device, barrier, exitStatus, alive>>
    BY <1>7 DEF ClearReady, ClearContinue, PublishReady, BarrierStep, SessionStands, coppeliaVars
  <2> QED
    BY <1>0, <1>1, <2>1
       DEF CliInv, FilesInv, SceneInv, LookedInv, EndInv, VerifiedIsGenuine,
           AtBarrier, BeforePublish, AfterBarrier, AfterReady, AfterCapture, Scripted
<1>8. CASE Confirmed \/ BarrierTimesOut \/ BarrierFails
  <2>1. /\ step \in AtBarrier /\ step' = "disconnect" /\ barrier' \in {"ok", "failed"}
        /\ UNCHANGED <<device, readyFile, continueFile, exitStatus, alive>>
    BY <1>8 DEF Confirmed, BarrierTimesOut, BarrierFails, BarrierStep, AtBarrier, SessionStands,
       coppeliaVars, fileVars
  <2>2. FilesInv' /\ SceneInv'
    BY <1>0, <2>1 DEF CliInv, FilesInv, SceneInv, BeforePublish, AfterBarrier, AtBarrier
  <2>3. LookedInv'
    BY <1>0, <2>1 DEF CliInv, LookedInv, AtBarrier, Scripted
  <2>4. EndInv'
    BY <1>0, <1>1, <2>1 DEF CliInv, EndInv, NotExited
  <2> QED
    BY <1>0, <1>1, <2>1, <2>2, <2>3, <2>4 DEF CliInv, VerifiedIsGenuine
<1> QED
  BY <1>2, <1>3, <1>4, <1>5, <1>6, <1>7, <1>8 DEF Main

\* Nobody but main and the script changes what they keep.
LEMMA CliLoop ==
  ASSUME setup \in Setups, RunDeviceInv, CliInv, Submits \/ Advances
  PROVE  CliInv'
<1>1. /\ step = "loop" /\ UNCHANGED <<cliVars, fileVars, scriptVars, alive>>
      /\ DeviceHost(TasksOf, ControlsOf) \/ DeviceAdvance
  BY DEF Submits, Advances
<1>2. /\ UNCHANGED <<setup, step, passed, barrier, exitStatus, readyFile, continueFile, script>>
      /\ UNCHANGED <<copied, failed, picture, verdict, alive>>
  BY <1>1 DEF cliVars, fileVars, scriptVars
<1>3. EvidenceInv'
  BY <1>1, EvidenceKept DEF RunDeviceInv, CliInv, SceneInv
<1>4. SceneInv'
  BY <1>1, <1>2, <1>3 DEF CliInv, FilesInv, SceneInv, AtBarrier, BeforePublish
<1>5. verdict = "none"
  BY <1>1 DEF CliInv, EndInv
<1>6. FilesInv' /\ EndInv'
  BY <1>2 DEF CliInv, FilesInv, EndInv
<1>7. LookedInv'
  BY <1>2 DEF CliInv, LookedInv, Scripted
<1> QED
  BY <1>2, <1>4, <1>5, <1>6, <1>7 DEF CliInv, VerifiedIsGenuine

LEMMA CliScript ==
  ASSUME setup \in Setups, RunDeviceInv, CliInv, Script
  PROVE  CliInv'
<1>0. /\ alive \in BOOLEAN /\ failed \in BOOLEAN
      /\ UNCHANGED <<setup, passed, barrier, exitStatus, readyFile, device, lastGeneration, connected>>
      /\ UNCHANGED <<outcome, safeConfirmed, moving>>
      /\ setup # "plain" /\ script # "over" /\ verdict = "none"
  <2>1. UNCHANGED <<setup, passed, barrier, exitStatus, readyFile, coppeliaVars>>
    BY DEF Script, ReadsByHand, WritesByHand, SeesReady, MissesReady, Captures, ConfirmsCapture,
       WaitsFor, StopsAll, ScriptStep, SessionStands, fileVars
  <2>2. script \notin {"none", "over"}
    BY DEF Script, ReadsByHand, WritesByHand, SeesReady, MissesReady, Captures, ConfirmsCapture,
       WaitsFor, StopsAll, ScriptStep
  <2> QED
    BY <2>1, <2>2 DEF CliInv, LookedInv, EndInv, coppeliaVars, allVars, vars, taskVars, workcellVars, safeVars
<1>1. CASE ReadsByHand
  <2>1. /\ setup = "by hand" /\ script' = "writes copy" /\ copied' = readyFile
        /\ picture' = Screen /\ UNCHANGED <<step, alive, continueFile, failed, verdict>>
    BY <1>1 DEF ReadsByHand, MainStands, fileVars
  <2>2. step = "wait" => picture' = "frozen"
    BY <2>1 DEF CliInv, FilesInv, SceneInv, AtBarrier, Screen
  <2> QED
    BY <1>0, <2>1, <2>2
       DEF CliInv, FilesInv, SceneInv, EvidenceInv, LookedInv, EndInv, VerifiedIsGenuine, Scripted
<1>2. CASE WritesByHand
  <2>1. /\ script = "writes copy" /\ script' = "waits for ready" /\ continueFile' = copied
        /\ UNCHANGED <<step, alive, copied, failed, picture, verdict>>
    BY <1>2 DEF WritesByHand, ScriptStep, MainStands
  <2>2. setup = "by hand"
    BY <1>0, <2>1 DEF CliInv, LookedInv, Setups, Scripted, AfterReady, AfterCapture
  <2>3. FilesInv' /\ SceneInv' /\ EndInv'
    BY <1>0, <2>1 DEF CliInv, FilesInv, SceneInv, EvidenceInv, EndInv
  <2>4. LookedInv'
    BY <1>0, <2>1, <2>2 DEF CliInv, LookedInv, Scripted
  <2> QED
    BY <1>0, <2>1, <2>3, <2>4 DEF CliInv, VerifiedIsGenuine
<1>3. CASE SeesReady \/ MissesReady
  <2>1. /\ Scripted /\ script = "waits for ready" /\ copied' = copied
        /\ \/ script' = "captures" /\ failed' = failed /\ readyFile # "none"
           \/ script' = "stops all" /\ failed' = TRUE
        /\ UNCHANGED <<step, alive, continueFile, picture, verdict>>
    BY <1>3 DEF SeesReady, MissesReady, ScriptStep, MainStands
  <2>2. readyFile \in {"none", "own"}
    BY <2>1 DEF CliInv, LookedInv, FilesInv
  <2>3. FilesInv' /\ SceneInv' /\ EndInv'
    BY <1>0, <2>1 DEF CliInv, FilesInv, SceneInv, EvidenceInv, EndInv
  <2>4. LookedInv'
    <3>1. CASE script' = "captures" /\ failed' = failed /\ readyFile # "none"
      BY <1>0, <2>1, <2>2, <3>1 DEF CliInv, LookedInv, Scripted, AfterReady, AfterCapture
    <3>2. CASE script' = "stops all" /\ failed' = TRUE
      BY <1>0, <2>1, <2>2, <3>2 DEF CliInv, LookedInv, Scripted, AfterReady, AfterCapture
    <3> QED
      BY <2>1, <3>1, <3>2
  <2> QED
    BY <1>0, <2>1, <2>3, <2>4 DEF CliInv, VerifiedIsGenuine
<1>4. script \notin {"waits for ready", "writes copy"} => Scripted
  BY <1>0 DEF CliInv, LookedInv, Setups, Scripted
<1>5. CASE Captures
  <2>1. PICK ok \in {alive, FALSE} :
          /\ script = "captures" /\ script' = "confirms"
          /\ failed' = (failed \/ ~ok) /\ picture' = IF ok THEN Screen ELSE picture
          /\ UNCHANGED <<step, alive, copied, continueFile, verdict>>
    BY <1>5 DEF Captures, ScriptStep, MainStands
  <2>2. Scripted /\ readyFile = "own"
    BY <1>4, <2>1 DEF CliInv, LookedInv, AfterReady
  <2>3. picture' = "frozen" \/ failed'
    BY <1>0, <2>1, <2>2 DEF CliInv, SceneInv, Screen
  <2>4. failed' \in BOOLEAN
    BY <1>0, <2>1
  <2> QED
    BY <1>0, <2>1, <2>2, <2>3, <2>4
       DEF CliInv, FilesInv, SceneInv, EvidenceInv, LookedInv, EndInv, VerifiedIsGenuine, Scripted,
           AfterReady, AfterCapture
<1>6. CASE ConfirmsCapture
  <2>1. /\ script = "confirms" /\ script' = "waits for main" /\ continueFile' = readyFile
        /\ UNCHANGED <<step, alive, copied, failed, picture, verdict>>
    BY <1>6 DEF ConfirmsCapture, ScriptStep, MainStands
  <2>2. Scripted /\ readyFile = "own"
    BY <1>4, <2>1 DEF CliInv, LookedInv, AfterReady
  <2> QED
    BY <1>0, <2>1, <2>2
       DEF CliInv, FilesInv, SceneInv, EvidenceInv, LookedInv, EndInv, VerifiedIsGenuine, Scripted,
           AfterReady, AfterCapture
<1>7. CASE \/ WaitsFor("waits for main", step = "exited", "waits for simulator")
           \/ WaitsFor("waits for simulator", ~alive, "stops all")
  <2>1. /\ \/ script = "waits for main" /\ script' = "waits for simulator"
           \/ script = "waits for simulator" /\ script' = "stops all"
        /\ failed' \in BOOLEAN /\ (failed => failed')
        /\ UNCHANGED <<step, alive, copied, continueFile, picture, verdict>>
    BY <1>0, <1>7 DEF WaitsFor, ScriptStep, MainStands
  <2>2. Scripted /\ readyFile = "own"
    BY <1>4, <2>1 DEF CliInv, LookedInv, AfterReady
  <2> QED
    BY <1>0, <2>1, <2>2
       DEF CliInv, FilesInv, SceneInv, EvidenceInv, LookedInv, EndInv, VerifiedIsGenuine, Scripted,
           AfterReady, AfterCapture
<1>8. CASE StopsAll
  <2>1. /\ script = "stops all" /\ script' = "over" /\ alive' = FALSE
        /\ step' = (IF step = "exited" THEN "exited" ELSE "killed")
        /\ verdict' = (IF Verified THEN "verified" ELSE "failed")
        /\ UNCHANGED <<copied, continueFile, failed, picture>>
    BY <1>8 DEF StopsAll, ScriptStep
  <2>2. Scripted /\ ((readyFile = "own" /\ picture = "frozen") \/ failed)
    BY <1>4, <2>1 DEF CliInv, LookedInv, AfterReady, AfterCapture
  <2>3. FilesInv' /\ SceneInv'
    BY <1>0, <2>1 DEF CliInv, FilesInv, SceneInv, EvidenceInv, BeforePublish, AfterBarrier, AtBarrier
  <2>4. LookedInv' /\ EndInv'
    BY <1>0, <1>4, <2>1, <2>2 DEF CliInv, LookedInv, EndInv, AfterReady, AfterCapture, AtBarrier, Scripted
  <2>5. VerifiedIsGenuine'
    <3> SUFFICES ASSUME Verified
                 PROVE  /\ picture = "frozen" /\ passed = AllPassed
                        /\ (setup = "normal" => barrier = "ok")
                        /\ (setup = "estop" => ~device.output /\ ~moving)
      BY <1>0, <2>1 DEF VerifiedIsGenuine, AllPassed
    <3>1. readyFile = "own" /\ picture = "frozen" /\ passed = AllPassed
      BY <1>4, <2>1, <2>2 DEF Verified
    <3>2. setup = "normal" => barrier = "ok"
      <4>1. SUFFICES ASSUME setup = "normal" PROVE barrier = "ok"
        OBVIOUS
      <4>2. exitStatus = 0 /\ step = "exited"
        BY <4>1 DEF Verified, NormalState, CliInv, EndInv, NotExited
      <4> QED
        BY <3>1, <4>2 DEF CliInv, FilesInv, EndInv, AfterBarrier
    <3>3. setup = "estop" => ~device.output /\ ~moving
      BY DEF Verified, EstopState, RunDeviceInv, WorkcellInv, SafeMeansStill
    <3> QED
      BY <3>1, <3>2, <3>3
  <2> QED
    BY <1>0, <2>1, <2>3, <2>4, <2>5 DEF CliInv
<1> QED
  BY <1>1, <1>2, <1>3, <1>5, <1>6, <1>7, <1>8 DEF Script

LEMMA CliHolds == RunSpec => [](RunDeviceInv /\ setup \in Setups /\ CliInv)
<1>1. RunDeviceInv /\ setup \in Setups /\ CliInv /\ [RunNext]_runVars => CliInv'
  <2>1. CASE UNCHANGED runVars
    <3>1. /\ UNCHANGED <<setup, step, passed, barrier, exitStatus, readyFile, continueFile, script>>
          /\ UNCHANGED <<copied, failed, picture, verdict, alive, device>>
          /\ UNCHANGED <<connected, lastGeneration, moving>>
      BY <2>1 DEF runVars, coppeliaVars, allVars, vars, taskVars, workcellVars, cliVars, fileVars,
         scriptVars
    <3>2. CliInv => FilesInv' /\ SceneInv' /\ EndInv'
      BY <3>1 DEF CliInv, FilesInv, SceneInv, EvidenceInv, EndInv
    <3>3. CliInv => LookedInv'
      BY <3>1 DEF CliInv, LookedInv, Scripted
    <3> QED
      BY <3>1, <3>2, <3>3 DEF CliInv, VerifiedIsGenuine
  <2> QED
    BY <2>1, CliLoop, CliMain, CliScript DEF RunNext
<1> QED
  BY <1>1, CliStarts, RunDeviceHolds, PTL DEF RunSpec

(***************************************************************************)
(* PublishEvidenceAndWait returns only on the very record it has published *)
(* (cli_evidence_barrier.cpp), and whoever writes that record, by hand or  *)
(* as gui_evidence_capture.py does, has looked at the stopped scene first. *)
(***************************************************************************)
THEOREM ConfirmedByThisRun == RunSpec => ConfirmationIsOwn
<1>1. RunDeviceInv /\ setup \in Setups /\ CliInv /\ [RunNext]_runVars =>
        [ barrier # "ok" /\ barrier' = "ok" /\ ~failed => picture = "frozen" ]_runVars
  <2> SUFFICES ASSUME setup \in Setups, CliInv, RunNext, barrier # "ok", barrier' = "ok", ~failed
               PROVE  picture = "frozen"
    OBVIOUS
  <2>1. step = "wait" /\ continueFile = "own"
    <3>1. ~Submits /\ ~Advances /\ ~Script
      BY DEF Submits, Advances, cliVars, Script, ReadsByHand, WritesByHand, SeesReady, MissesReady,
         Captures, ConfirmsCapture, WaitsFor, StopsAll, ScriptStep
    <3>2. Main \/ BarrierFails
      BY <3>1 DEF RunNext
    <3> QED
      BY <3>2 DEF Main, LeaveLoop, StopTheSimulation, DisconnectSimulator, QuitSimulator, Return,
         ClearReady, ClearContinue, PublishReady, Confirmed, RecordMatches, BarrierTimesOut,
         BarrierFails, BarrierStep
  <2> QED
    BY <2>1 DEF CliInv, LookedInv, AtBarrier, Setups, Scripted
<1> QED
  BY <1>1, CliHolds, PTL DEF RunSpec, ConfirmationIsOwn

(***************************************************************************)
(* A case that verify_case passes was seen at rest, with all lifecycle     *)
(* operations of main passed and nothing left running; a normal one with   *)
(* its capture confirmed, an ESTOP one with the output off and the robot   *)
(* still (gui_evidence_capture.py, main.cpp, simulator_lifecycle.cpp).     *)
(***************************************************************************)
THEOREM VerifiedCasesAreGenuine == RunSpec => []VerifiedIsGenuine
<1>1. CliInv => VerifiedIsGenuine
  BY DEF CliInv
<1> QED
  BY <1>1, CliHolds, PTL
=============================================================================
