----------------------- MODULE SessionContractProofs -----------------------
(***************************************************************************)
(* What the safety of a Runtime Session makes of it, for every value of    *)
(* the constants: it keeps its contract; a pause does not change how much  *)
(* time a command has; an ESTOP that is due is served first; a session     *)
(* stays in its program, completes only what it ran and passes a command   *)
(* only when what the command waits for has happened.                      *)
(***************************************************************************)
EXTENDS SessionRefinement, SessionSafetyProofs

-----------------------------------------------------------------------------
(***************************************************************************)
(* StandsStill, from what is known so far: a motion that is under way      *)
(* belongs to the active command, an active command has its last event in  *)
(* the queue, so HandleNextCommand, which overwrites the active command,   *)
(* is not reached; and it is connected, so a stop asks the device.         *)
(***************************************************************************)
KnownInv == SafetyInv /\ CommandInv /\ WorkNeedsConnection

LEMMA KnownHolds == Spec => []KnownInv
<1>1. Init => CommandInv
  BY IdleCommand DEF Init, CommandInv, HasActive
<1>2. SafetyInv /\ CommandInv /\ [Next]_vars => CommandInv'
  BY CommandStep DEF SafetyInv
<1>3. SafetyInv /\ CommandInv /\ WorkNeedsConnection <=> KnownInv
  BY DEF KnownInv
<1> QED
  BY <1>1, <1>2, <1>3, SafetyHolds, WorkConnected, PTL DEF Spec

LEMMA StillAtRest ==
  ASSUME ~moving'
  PROVE  StandsStill'
BY DEF StandsStill

LEMMA SameStill ==
  ASSUME StandsStill, UNCHANGED <<moving, lifecycle, active, stop>>
  PROVE  StandsStill'
BY DEF StandsStill, InOrder

\* A motion of which nothing is in order any more is not claimed to be over.
LEMMA OutOfOrder ==
  ASSUME lifecycle' \notin {"Running", "Waiting", "Pausing", "Paused", "Stopped"},
         stop'.disp \notin {"ProgramComplete", "OperatorStop"}
  PROVE  StandsStill'
BY DEF StandsStill, InOrder

LEMMA FinishFaultStill ==
  ASSUME NEW conn, NEW disabled, NEW distrust, NEW prim, FinishFault(conn, disabled, distrust, prim)
  PROVE  StandsStill'
<1>1. lifecycle' = "Faulted" /\ stop'.disp = "None"
  BY DEF FinishFault, NoStop
<1> QED
  BY <1>1, OutOfOrder

LEMMA FinishEmergencyStill ==
  ASSUME NEW disabled, NEW prim, FinishTerminal("EmergencyStopped", disabled, prim)
  PROVE  StandsStill'
<1>1. CASE lifecycle' = "EmergencyStopped" /\ stop' = NoStop
  BY <1>1, OutOfOrder DEF NoStop
<1> QED
  BY <1>1, FinishFaultStill DEF FinishTerminal

\* A stop asked of the device, in order only if the motion belongs to the active command.
LEMMA BeginStopStill ==
  ASSUME NEW q, NEW disp \in Dispositions, NEW command, NEW prim,
         BeginStop(q, disp, command, prim),
         disp \in {"Fault", "Emergency"} \/ (moving' => command.type = "MOVEJ")
  PROVE  StandsStill'
<1> DEFINE episode == [id |-> nextStop, disp |-> disp,
                       deadline |-> SaturatingAdd(now', StopTimeout)]
<1>1. \/ FailStop(TRUE, prim)
      \/ lifecycle' = StopLifecycle(disp) /\ stop' = episode /\ active' = command
  BY Zenon DEF BeginStop
<1>2. episode.disp = disp
  OBVIOUS
<1> HIDE DEF episode
<1>3. CASE FailStop(TRUE, prim)
  BY <1>3, FinishFaultStill DEF FailStop
<1>4. CASE lifecycle' = StopLifecycle(disp) /\ stop' = episode /\ active' = command
  <2>1. lifecycle' \in StopLifecycles /\ stop'.disp = disp
    BY <1>2, <1>4, StopLifecycleRange
  <2>2. CASE disp \in {"Fault", "Emergency"}
    <3>1. lifecycle' # "Pausing"
      BY <1>4, <2>2, StopLifecycleRange
    <3> QED
      BY <2>1, <2>2, <3>1, OutOfOrder DEF StopLifecycles
  <2>3. CASE moving' => command.type = "MOVEJ"
    BY <1>4, <2>1, <2>3 DEF StandsStill, StopLifecycles
  <2> QED
    BY <2>2, <2>3
<1> QED
  BY <1>1, <1>3, <1>4

LEMMA BeginFaultStill ==
  ASSUME NEW q, NEW conn, NEW kind, NEW command, BeginFault(q, conn, kind, command)
  PROVE  StandsStill'
BY BeginStopStill, FinishFaultStill DEF BeginFault, Dispositions

\* Between commands, and while a command waits, the device stands still.
LEMMA WaitsStill ==
  ASSUME StandsStill, lifecycle \in {"Running", "Waiting"}, active.type # "MOVEJ"
  PROVE  ~moving
BY DEF StandsStill, InOrder

LEMMA NoCommandType == /\ NoCommand.type = "NONE" /\ NoStop.disp = "None"
                       /\ \A type : LocalWait(type) => type # "MOVEJ"
BY DEF NoCommand, NoStop, LocalWait

LEMMA HostStill ==
  ASSUME StandsStill,
         \/ \E p \in Programs : SubmitProgram(p)
         \/ \E c \in ControlsUsed : SubmitControl(c)
         \/ HostAdvancesClock
  PROVE  StandsStill'
BY SameStill, StillAtRest DEF SubmitProgram, PrepareResult, SubmitControl, HostAdvancesClock, taskVars

LEMMA ControlStill ==
  ASSUME KnownInv, StandsStill, HandleControl
  PROVE  StandsStill'
<1>1. CASE ControlWithoutEffect \/ ResetRejected
  BY <1>1, SameStill DEF ControlWithoutEffect, ResetRejected, Drop, taskVars
<1>2. CASE PauseBetweenCommands \/ PauseLocalWait
  <2>1. lifecycle \in {"Running", "Waiting"} /\ active.type # "MOVEJ" /\ UNCHANGED moving
    BY <1>2, NoCommandType DEF PauseBetweenCommands, PauseLocalWait, HasActive
  <2> QED
    BY <2>1, WaitsStill, StillAtRest
<1>3. CASE PauseMotion
  <2>1. active \in ActiveCommands
    BY <1>3, NoCommandType DEF PauseMotion, KnownInv, SafetyInv, EpisodeInv, TypeOK
  <2>2. [active EXCEPT !.remaining = Remaining].type = "MOVEJ"
    BY <1>3, <2>1 DEF PauseMotion, ActiveCommands
  <2> QED
    BY <1>3, <2>2, BeginStopStill DEF PauseMotion, Dispositions
<1>4. CASE \/ ResumeBetweenCommands \/ ResumeLocalWait \/ ResumeSatisfiedWait
  BY <1>4, StillAtRest
     DEF ResumeBetweenCommands, ResumeLocalWait, ResumeSatisfiedWait, StandsStill
<1>5. CASE ResumeMotion
  <2>1. active \in ActiveCommands /\ active.type = "MOVEJ"
    BY <1>5, NoCommandType DEF ResumeMotion, KnownInv, SafetyInv, EpisodeInv, TypeOK
  <2>2. Resumed.type = "MOVEJ"
    BY <2>1 DEF Resumed, ActiveCommands
  <2> QED
    BY <1>5, <2>2 DEF ResumeMotion, StandsStill
<1>6. CASE ResumeMotionFails \/ ResumePastTimeRange
  BY <1>6, BeginFaultStill DEF ResumeMotionFails, ResumePastTimeRange, ResumeFault
<1>7. CASE Stop
  <2>1. CASE StopPending
    BY <1>7, <2>1, SameStill DEF Stop, taskVars
  <2>2. CASE ~StopPending
    <3>1. lifecycle # "Pausing"
      BY <2>2, PendingWatched DEF KnownInv, SafetyInv, EpisodeInv, StopLifecycles
    <3>2. moving => active.type = "MOVEJ"
      BY <1>7, <3>1 DEF Stop, StandsStill, InOrder
    <3>3. ~connected => ~moving
      BY <3>2, NoCommandType DEF KnownInv, WorkNeedsConnection, HasActive
    <3>4. UNCHANGED moving
      BY <1>7 DEF Stop
    <3>5. CASE connected
      BY <1>7, <2>2, <3>2, <3>4, <3>5, BeginStopStill DEF Stop, Dispositions
    <3>6. CASE ~connected
      BY <3>3, <3>4, <3>6, StillAtRest
    <3> QED
      BY <3>5, <3>6
  <2> QED
    BY <2>1, <2>2
<1>8. CASE Estop
  <2>1. CASE StopPending
    <3>1. stop \in StopEpisodes
      BY <2>1 DEF KnownInv, SafetyInv, EpisodeInv, TypeOK, StopPending
    <3>2. stop'.disp = "Emergency" /\ lifecycle' = "EmergencyStopping"
      BY <1>8, <2>1, <3>1 DEF Estop, StopEpisodes
    <3> QED
      BY <3>2, OutOfOrder
  <2>2. CASE ~StopPending
    BY <1>8, <2>2, BeginStopStill, FinishEmergencyStill DEF Estop, Dispositions
  <2> QED
    BY <2>1, <2>2
<1>9. CASE Reset
  BY <1>9, OutOfOrder, NoCommandType DEF Reset, ResetAllowed, StopPending
<1> QED
  BY <1>1, <1>2, <1>3, <1>4, <1>5, <1>6, <1>7, <1>8, <1>9 DEF HandleControl

LEMMA EventStill ==
  ASSUME KnownInv, StandsStill, HandleEvent, ~HandleControl
  PROVE  StandsStill'
<1>1. CASE \/ StaleMotionPoll \/ StaleDelayComplete \/ StaleTimeout \/ StaleStopPoll
           \/ MotionRunning \/ StillStopping \/ (StopDeadline /\ ~StopDeadlinePassed)
  BY <1>1, SameStill
     DEF StaleMotionPoll, StaleDelayComplete, StaleTimeout, StaleStopPoll, MotionRunning,
         StillStopping, StopDeadline, Drop, taskVars
<1>2. CASE MotionSucceeded
  BY <1>2, StillAtRest DEF MotionSucceeded
<1>3. CASE DelayComplete
  <2>1. ~moving
    BY <1>3, WaitsStill DEF DelayComplete, DelayIsOver
  <2> QED
    BY <1>3, <2>1, StillAtRest DEF DelayComplete
<1>4. CASE MotionFails \/ CommandTimeout \/ ConnectionLoss
  BY <1>4, BeginFaultStill DEF MotionFails, CommandTimeout, ConnectionLoss
<1>5. CASE StopPollFails \/ (StopDeadline /\ StopDeadlinePassed)
  BY <1>5, FinishFaultStill DEF StopPollFails, StopDeadline, FailStop
<1>6. CASE \/ PauseConfirmed \/ FaultStopConfirmed \/ EmergencyStopConfirmed
           \/ OperatorStopConfirmed \/ ProgramStopConfirmed
  BY <1>6, StillAtRest DEF PauseConfirmed, FaultStopConfirmed, EmergencyStopConfirmed,
     OperatorStopConfirmed, ProgramStopConfirmed, StopConfirmed
<1>7. CASE InputChange
  <2>1. CASE InputSatisfies(Head(queue))
    <3>1. ~moving
      BY <2>1, WaitsStill DEF InputSatisfies
    <3> QED
      BY <1>7, <3>1, StillAtRest DEF InputChange
  <2>2. CASE ~InputSatisfies(Head(queue))
    BY <1>7, <2>2, SameStill DEF InputChange, taskVars
  <2> QED
    BY <2>1, <2>2
<1> QED
  BY <1>1, <1>2, <1>3, <1>4, <1>5, <1>6, <1>7 DEF HandleEvent

\* HandleNextCommand is reached only between two commands, with the device still.
LEMMA CallsIdle ==
  ASSUME KnownInv, StandsStill, CallsNextCommand
  PROVE  lifecycle \in {"Running", "Waiting"} /\ ~StopPending /\ ~HasActive /\ ~moving
<1>1. lifecycle \in {"Running", "Waiting"} /\ ~StopPending
  BY CallsWorking DEF KnownInv, SafetyInv
<1>2. ~HasActive
  BY CallsNothingActive DEF KnownInv
<1>3. ~moving
  BY <1>1, <1>2, WaitsStill, NoCommandType DEF HasActive
<1> QED
  BY <1>1, <1>2, <1>3

LEMMA NextCommandStill ==
  ASSUME KnownInv, StandsStill, HandleNextCommand
  PROVE  StandsStill'
<1>1. ~moving
  BY NextCommandCalls, CallsIdle
<1>2. CASE ConnectFails \/ ServoCommandThrows \/ StartPastTimeRange \/ StartMotionFails
  BY <1>2, BeginFaultStill
     DEF ConnectFails, ServoCommandThrows, StartPastTimeRange, StartMotionFails, StartFault
<1>3. CASE StartMotion
  BY <1>3 DEF StartMotion, Start, Begin, Activate, StandsStill
<1>4. CASE \/ ServoCommand \/ SetDo \/ ZeroDelay \/ StartDelay \/ StartWait
           \/ WaitAlreadySatisfied \/ StopCommand
  BY <1>1, <1>4, StillAtRest
     DEF ServoCommand, SetDo, ZeroDelay, Pass, StartDelay, StartWait, WaitAlreadySatisfied,
         StopCommand
<1> QED
  BY <1>2, <1>3, <1>4 DEF HandleNextCommand

LEMMA StillStep ==
  ASSUME KnownInv, StandsStill, [Next]_vars
  PROVE  StandsStill'
<1>1. CASE UNCHANGED vars
  BY <1>1, SameStill DEF vars
<1> QED
  BY <1>1, HostStill, ControlStill, EventStill, NextCommandStill DEF Next, Advance

(***************************************************************************)
(* A session that reports Paused or Stopped has a device that stands       *)
(* still, and as long as nothing went wrong a moving device belongs to the *)
(* active command (runtime.cpp, PauseMotion by BeginStop, HandleControl).  *)
(***************************************************************************)
THEOREM StillWhenReported == Spec => []StandsStill
<1>1. Init => StandsStill
  BY DEF Init, StandsStill
<1>2. KnownInv /\ StandsStill /\ [Next]_vars => StandsStill'
  BY StillStep
<1> QED
  BY <1>1, <1>2, KnownHolds, PTL DEF Spec

-----------------------------------------------------------------------------
(***************************************************************************)
(* The refinement.  ContractInv is what the step simulation uses.          *)
(***************************************************************************)
ContractInv == KnownInv /\ StandsStill

ContractStep == Contract!ContractNext \/ UNCHANGED Contract!view

LEMMA ContractInvFacts ==
  ASSUME ContractInv
  PROVE  /\ TypeOK /\ EpisodeInv /\ AlarmInv /\ CommandInv
         /\ StopPending <=> lifecycle \in StopLifecycles
         /\ untrusted => primary # "None"
BY PendingWatched DEF ContractInv, KnownInv, SafetyInv, EpisodeInv, AlarmInv

LEMMA PhaseValues ==
  /\ PhaseOf("Idle") = "idle"
  /\ \A l \in {"Running", "Waiting"} : PhaseOf(l) = "working"
  /\ PhaseOf("Paused") = "held"
  /\ \A l \in StopLifecycles : PhaseOf(l) = "stopping"
  /\ PhaseOf("Stopped") = "ended"
  /\ PhaseOf("EmergencyStopped") = "latched"
  /\ PhaseOf("Faulted") = "faulted"
  /\ \A l \in Lifecycles : /\ PhaseOf(l) = "stopping" <=> l \in StopLifecycles
                           /\ PhaseOf(l) = "latched" <=> l = "EmergencyStopped"
BY DEF PhaseOf, StopLifecycles, Lifecycles

\* What the host cannot see.
LEMMA Unseen ==
  ASSUME UNCHANGED <<lifecycle, moving, primary, untrusted>>
  PROVE  ContractStep
BY DEF ContractStep, Contract!view

\* AlarmRaised, in the terms of the session.
Raised == primary' \in {"Recoverable", "Fatal"} /\ (primary # "None" => primary' = primary)

LEMMA RaisedContract == Raised => Contract!AlarmRaised
BY DEF Raised, Contract!AlarmRaised

LEMMA RaiseRaised ==
  ASSUME TypeOK
  PROVE  /\ \A kind \in {"Recoverable", "Fatal"} : primary' = Raise(primary, kind) => Raised
         /\ \A k1, k2 \in {"Recoverable", "Fatal"} :
              primary' = Raise(Raise(primary, k1), k2) => Raised
         /\ primary # "None" /\ primary' = primary => Raised
BY DEF Raise, Raised, TypeOK

(***************************************************************************)
(* FinishFault is a Confirm when the device has just been confirmed still, *)
(* and a GiveUp otherwise.                                                 *)
(***************************************************************************)
LEMMA FinishFaultFacts ==
  ASSUME TypeOK, NEW conn, NEW disabled, NEW distrust, NEW prim,
         FinishFault(conn, disabled, distrust, prim),
         untrusted => distrust,
         \/ prim = primary /\ primary # "None"
         \/ \E kind \in {"Recoverable", "Fatal"} : prim = Raise(primary, kind)
         \/ \E k1, k2 \in {"Recoverable", "Fatal"} : prim = Raise(Raise(primary, k1), k2)
  PROVE  lifecycle' = "Faulted" /\ Raised /\ (untrusted => untrusted')
<1>1. /\ lifecycle' = "Faulted" /\ (distrust => untrusted')
      /\ primary' = prim \/ primary' = Raise(prim, "Fatal")
  BY DEF FinishFault, SetPrimary
<1>2. prim # "None" => Raise(prim, "Fatal") = prim
  BY RaiseAlarm
<1>3. prim # "None"
  BY RaiseAlarm DEF Raise
<1> QED
  BY <1>1, <1>2, <1>3, RaiseRaised

LEMMA GiveUpStep ==
  ASSUME lifecycle' = "Faulted", Raised, untrusted => untrusted',
         lifecycle \in {"Running", "Waiting", "Paused"} \/ UNCHANGED moving
  PROVE  ContractStep
<1>1. PhaseOf(lifecycle)' = "faulted"
  BY PhaseValues
<1>2. lifecycle \in {"Running", "Waiting", "Paused"} => PhaseOf(lifecycle) \in {"working", "held"}
  BY PhaseValues
<1>3. Contract!GiveUp
  BY <1>1, <1>2, RaisedContract DEF Contract!GiveUp, Contract!AtRest
<1> QED
  BY <1>3 DEF ContractStep, Contract!ContractNext

LEMMA HaltStep ==
  ASSUME ContractInv, ~StopPending, lifecycle' \in StopLifecycles, UNCHANGED untrusted,
         primary' = primary \/ Raised,
         lifecycle \in {"Running", "Waiting", "Paused"} \/ UNCHANGED moving
  PROVE  ContractStep
<1>1. PhaseOf(lifecycle)' = "stopping" /\ PhaseOf(lifecycle) # "stopping"
  BY ContractInvFacts, PhaseValues DEF TypeOK
<1>2. lifecycle \in {"Running", "Waiting", "Paused"} => PhaseOf(lifecycle) \in {"working", "held"}
  BY PhaseValues
<1>3. Contract!Halt
  BY <1>1, <1>2, RaisedContract DEF Contract!Halt, Contract!AtRest
<1> QED
  BY <1>3 DEF ContractStep, Contract!ContractNext

LEMMA BeginStopStep ==
  ASSUME ContractInv, ~StopPending, NEW q, NEW disp, NEW command, NEW prim,
         BeginStop(q, disp, command, prim),
         prim = primary \/ \E kind \in {"Recoverable", "Fatal"} : prim = Raise(primary, kind),
         lifecycle \in {"Running", "Waiting", "Paused"} \/ UNCHANGED moving
  PROVE  ContractStep
<1>1. \/ FailStop(TRUE, prim)
      \/ lifecycle' = StopLifecycle(disp) /\ SetPrimary(prim) /\ UNCHANGED untrusted
  BY Zenon DEF BeginStop
<1>2. CASE FailStop(TRUE, prim)
  <2>1. lifecycle' = "Faulted" /\ Raised /\ (untrusted => untrusted')
    BY <1>2, ContractInvFacts, FinishFaultFacts DEF FailStop
  <2> QED
    BY <2>1, GiveUpStep
<1>3. CASE lifecycle' = StopLifecycle(disp) /\ SetPrimary(prim) /\ UNCHANGED untrusted
  <2>1. primary' = primary \/ Raised
    BY <1>3, ContractInvFacts, RaiseRaised DEF SetPrimary
  <2> QED
    BY <1>3, <2>1, StopLifecycleRange, HaltStep
<1> QED
  BY <1>1, <1>2, <1>3

LEMMA BeginFaultStep ==
  ASSUME ContractInv, NEW q, NEW conn, NEW kind \in {"Recoverable", "Fatal"}, NEW command,
         BeginFault(q, conn, kind, command),
         lifecycle \in {"Running", "Waiting", "Paused"} \/ UNCHANGED moving
  PROVE  ContractStep
<1>1. CASE conn /\ ~StopPending
  BY <1>1, BeginStopStep DEF BeginFault
<1>2. CASE ~(conn /\ ~StopPending)
  <2>1. FinishFault(conn, servoDisabled, untrusted, Raise(primary, kind))
    BY <1>2 DEF BeginFault
  <2>2. lifecycle' = "Faulted" /\ Raised /\ (untrusted => untrusted')
    BY <2>1, ContractInvFacts, FinishFaultFacts
  <2> QED
    BY <2>2, GiveUpStep
<1> QED
  BY <1>1, <1>2

\* Between two visible states of work.
LEMMA WorkStep ==
  ASSUME lifecycle \in {"Running", "Waiting"}, lifecycle' \in {"Running", "Waiting"},
         UNCHANGED <<primary, untrusted>>
  PROVE  ContractStep
<1>1. PhaseOf(lifecycle) = "working" /\ PhaseOf(lifecycle)' = "working"
  BY PhaseValues
<1>2. Contract!Work
  BY <1>1 DEF Contract!Work
<1> QED
  BY <1>2 DEF ContractStep, Contract!ContractNext

LEMMA ContinueStep ==
  ASSUME lifecycle = "Paused", lifecycle' \in {"Running", "Waiting"}, UNCHANGED <<primary, untrusted>>
  PROVE  ContractStep
<1>1. PhaseOf(lifecycle) = "held" /\ PhaseOf(lifecycle)' = "working"
  BY PhaseValues
<1>2. Contract!Continue
  BY <1>1 DEF Contract!Continue
<1> QED
  BY <1>2 DEF ContractStep, Contract!ContractNext

LEMMA HoldStep ==
  ASSUME lifecycle \in {"Running", "Waiting"}, lifecycle' = "Paused", ~moving,
         UNCHANGED <<moving, primary, untrusted>>
  PROVE  ContractStep
<1>1. PhaseOf(lifecycle) = "working" /\ PhaseOf(lifecycle)' = "held"
  BY PhaseValues
<1>2. Contract!Hold
  BY <1>1 DEF Contract!Hold
<1> QED
  BY <1>2 DEF ContractStep, Contract!ContractNext

\* The device is confirmed still.
LEMMA ConfirmStep ==
  ASSUME lifecycle \in StopLifecycles, ~moving',
         \/ /\ lifecycle' \in {"Paused", "Stopped"} /\ primary = "None"
            /\ UNCHANGED <<primary, untrusted>>
         \/ lifecycle' = "EmergencyStopped" /\ ~untrusted /\ Raised /\ UNCHANGED untrusted
         \/ lifecycle' = "Faulted" /\ Raised /\ (untrusted => untrusted')
  PROVE  ContractStep
<1>1. /\ PhaseOf(lifecycle) = "stopping"
      /\ lifecycle' \in {"Paused", "Stopped"} => PhaseOf(lifecycle)' \in {"held", "ended"}
      /\ lifecycle' = "EmergencyStopped" => PhaseOf(lifecycle)' = "latched"
      /\ lifecycle' = "Faulted" => PhaseOf(lifecycle)' = "faulted"
  BY PhaseValues
<1>2. Contract!Confirm
  BY <1>1, RaisedContract DEF Contract!Confirm
<1> QED
  BY <1>2 DEF ContractStep, Contract!ContractNext

\* FinishTerminal is one step in all three of its ways.
LEMMA FinishTerminalFacts ==
  ASSUME ContractInv, NEW result, NEW disabled, NEW prim, FinishTerminal(result, disabled, prim),
         \/ prim = primary /\ ~untrusted
         \/ prim = Raise(primary, "Recoverable")
  PROVE  \/ /\ lifecycle' = IF result = "EmergencyStopped" THEN "EmergencyStopped" ELSE "Stopped"
            /\ primary' = prim /\ ~untrusted /\ UNCHANGED untrusted
         \/ lifecycle' = "Faulted" /\ Raised /\ (untrusted => untrusted')
<1>1. TypeOK
  BY ContractInvFacts
<1>2. CASE FinishFault(connected, disabled, TRUE, Raise(prim, "Fatal"))
  BY <1>1, <1>2, FinishFaultFacts
<1>3. CASE untrusted /\ FinishFault(connected /\ ~DisconnectOnTerminal, disabled, TRUE, prim)
  BY <1>1, <1>3, FinishFaultFacts
<1>4. CASE /\ ~untrusted /\ SetPrimary(prim) /\ UNCHANGED untrusted
           /\ lifecycle' = IF result = "EmergencyStopped" THEN "EmergencyStopped" ELSE "Stopped"
  BY <1>4 DEF SetPrimary
<1> QED
  BY <1>2, <1>3, <1>4 DEF FinishTerminal

LEMMA HostContract ==
  ASSUME ContractInv,
         \/ \E p \in Programs : SubmitProgram(p)
         \/ \E c \in ControlsUsed : SubmitControl(c)
         \/ HostAdvancesClock
  PROVE  ContractStep
<1>1. ASSUME NEW p \in Programs, SubmitProgram(p) PROVE ContractStep
  <2>1. lifecycle \in {"Idle", "Stopped", "Faulted"}
    BY <1>1 DEF SubmitProgram, ReplaceableRejection
  <2>2. primary = "None"
    BY <1>1, ContractInvFacts
       DEF SubmitProgram, ReplaceableRejection, AlarmInv, AlarmLifecycles
  <2>3. lifecycle' \in {"Running", "Faulted"} /\ ~moving' /\ UNCHANGED <<primary, untrusted>>
    BY <1>1 DEF SubmitProgram, PrepareResult
  <2>4. /\ PhaseOf(lifecycle) \in {"idle", "ended", "faulted"}
        /\ PhaseOf(lifecycle)' \in {"working", "faulted"}
    BY <2>1, <2>3, PhaseValues
  <2>5. Contract!Submission
    BY <2>2, <2>3, <2>4 DEF Contract!Submission
  <2> QED
    BY <2>5 DEF ContractStep, Contract!ContractNext
<1>2. CASE (\E c \in ControlsUsed : SubmitControl(c)) \/ HostAdvancesClock
  BY <1>2, Unseen DEF SubmitControl, HostAdvancesClock, taskVars
<1> QED
  BY <1>1, <1>2

LEMMA StopContract ==
  ASSUME ContractInv, Stop
  PROVE  ContractStep
<1>1. UNCHANGED moving /\ lifecycle \in {"Running", "Waiting", "Pausing", "Paused"}
  BY DEF Stop
<1>2. CASE StopPending
  BY <1>1, <1>2, Unseen DEF Stop, taskVars
<1>3. CASE ~StopPending /\ connected
  BY <1>1, <1>3, BeginStopStep DEF Stop
<1>4. CASE ~StopPending /\ ~connected
  <2>1. lifecycle \in {"Running", "Waiting", "Paused"}
    BY <1>1, <1>4, ContractInvFacts DEF StopLifecycles
  <2>2. primary = "None" /\ ~untrusted
    BY <2>1, ContractInvFacts, WorkingIsQuiet DEF AlarmLifecycles
  <2>3. ~moving
    BY <1>4, <2>1, NoCommandType
       DEF ContractInv, KnownInv, WorkNeedsConnection, StandsStill, InOrder, HasActive
  <2>4. FinishTerminal("OperatorStopped", servoDisabled, primary)
    BY <1>4 DEF Stop
  <2>5. CASE lifecycle' = "Stopped" /\ UNCHANGED <<primary, untrusted>>
    <3>1. PhaseOf(lifecycle) \in {"working", "held"} /\ PhaseOf(lifecycle)' = "ended"
      BY <2>1, <2>5, PhaseValues
    <3>2. Contract!StopAlone
      BY <1>1, <2>3, <2>5, <3>1 DEF Contract!StopAlone
    <3> QED
      BY <3>2 DEF ContractStep, Contract!ContractNext
  <2>6. CASE lifecycle' = "Faulted" /\ Raised /\ (untrusted => untrusted')
    BY <1>1, <2>6, GiveUpStep
  <2> QED
    BY <2>2, <2>4, <2>5, <2>6, FinishTerminalFacts
<1> QED
  BY <1>2, <1>3, <1>4

LEMMA EstopContract ==
  ASSUME ContractInv, Estop
  PROVE  ContractStep
<1>1. UNCHANGED moving /\ lifecycle \notin {"EmergencyStopping", "EmergencyStopped"}
  BY DEF Estop
<1>2. CASE StopPending
  <2>1. lifecycle' = "EmergencyStopping" /\ UNCHANGED <<primary, untrusted>>
    BY <1>2 DEF Estop
  <2>2. PhaseOf(lifecycle) = "stopping" /\ PhaseOf(lifecycle)' = "stopping"
    BY <1>2, <2>1, ContractInvFacts, PhaseValues DEF StopLifecycles
  <2> QED
    BY <1>1, <2>1, <2>2 DEF ContractStep, Contract!view
<1>3. CASE ~StopPending /\ connected
  BY <1>1, <1>3, BeginStopStep DEF Estop
<1>4. CASE ~StopPending /\ ~connected
  <2>1. FinishTerminal("EmergencyStopped", servoDisabled, Raise(primary, "Recoverable"))
    BY <1>4 DEF Estop
  <2>2. CASE /\ lifecycle' = "EmergencyStopped" /\ primary' = Raise(primary, "Recoverable")
             /\ ~untrusted /\ UNCHANGED untrusted
    <3>1. /\ PhaseOf(lifecycle) \notin {"stopping", "latched"}
          /\ PhaseOf(lifecycle)' = "latched"
      BY <1>1, <1>4, <2>2, ContractInvFacts, PhaseValues DEF TypeOK
    <3>2. Raised
      BY <2>2, ContractInvFacts, RaiseRaised
    <3>3. Contract!LatchAlone
      BY <1>1, <2>2, <3>1, <3>2, RaisedContract DEF Contract!LatchAlone
    <3> QED
      BY <3>3 DEF ContractStep, Contract!ContractNext
  <2>3. CASE lifecycle' = "Faulted" /\ Raised /\ (untrusted => untrusted')
    BY <1>1, <2>3, GiveUpStep
  <2> QED
    BY <2>1, <2>2, <2>3, FinishTerminalFacts
<1> QED
  BY <1>2, <1>3, <1>4

LEMMA ControlContract ==
  ASSUME ContractInv, HandleControl
  PROVE  ContractStep
<1>1. CASE ControlWithoutEffect \/ ResetRejected
  BY <1>1, Unseen DEF ControlWithoutEffect, ResetRejected, Drop, taskVars
<1>2. CASE PauseBetweenCommands \/ PauseLocalWait
  <2>1. /\ lifecycle \in {"Running", "Waiting"} /\ active.type # "MOVEJ" /\ lifecycle' = "Paused"
        /\ UNCHANGED <<moving, primary, untrusted>>
    BY <1>2, NoCommandType DEF PauseBetweenCommands, PauseLocalWait, HasActive
  <2>2. ~moving
    BY <2>1, WaitsStill DEF ContractInv
  <2> QED
    BY <2>1, <2>2, HoldStep
<1>3. CASE PauseMotion
  <2>1. ~StopPending
    BY <1>3, ContractInvFacts DEF PauseMotion, StopLifecycles
  <2> QED
    BY <1>3, <2>1, BeginStopStep DEF PauseMotion
<1>4. CASE ResumeBetweenCommands \/ ResumeLocalWait \/ ResumeSatisfiedWait \/ ResumeMotion
  BY <1>4, ContinueStep
     DEF ResumeBetweenCommands, ResumeLocalWait, ResumeSatisfiedWait, Succeed, ResumeMotion
<1>5. CASE ResumeMotionFails \/ ResumePastTimeRange
  BY <1>5, BeginFaultStep DEF ResumeMotionFails, ResumePastTimeRange, ResumeFault
<1>6. CASE Reset
  <2>1. /\ lifecycle = "EmergencyStopped" \/ (lifecycle = "Faulted" /\ primary = "Recoverable")
        /\ ~untrusted /\ lifecycle' = "Idle" /\ primary' = "None" /\ UNCHANGED <<moving, untrusted>>
    BY <1>6 DEF Reset, ResetAllowed
  <2>2. Contract!Clear
    BY <2>1, PhaseValues DEF Contract!Clear
  <2> QED
    BY <2>2 DEF ContractStep, Contract!ContractNext
<1> QED
  BY <1>1, <1>2, <1>3, <1>4, <1>5, <1>6, StopContract, EstopContract DEF HandleControl

LEMMA CommandEventContract ==
  ASSUME ContractInv,
         \/ StaleMotionPoll \/ MotionRunning \/ MotionSucceeded \/ MotionFails
         \/ DelayComplete \/ StaleDelayComplete
         \/ CommandTimeout \/ StaleTimeout
         \/ InputChange \/ ConnectionLoss
  PROVE  ContractStep
<1>1. CASE StaleMotionPoll \/ StaleDelayComplete \/ StaleTimeout \/ MotionRunning
  BY <1>1, Unseen
     DEF StaleMotionPoll, StaleDelayComplete, StaleTimeout, MotionRunning, Drop, taskVars
<1>2. CASE MotionSucceeded \/ DelayComplete
  BY <1>2, WorkStep DEF MotionSucceeded, DelayComplete, PollIsCurrent, DelayIsOver, Succeed
<1>3. CASE MotionFails \/ CommandTimeout \/ ConnectionLoss
  BY <1>3, BeginFaultStep DEF MotionFails, CommandTimeout, ConnectionLoss
<1>4. CASE InputChange
  <2>1. CASE InputSatisfies(Head(queue)) /\ Succeed(Tail(queue))
    BY <2>1, WorkStep DEF InputSatisfies, Succeed
  <2>2. CASE UNCHANGED taskVars /\ UNCHANGED moving
    BY <2>2, Unseen DEF taskVars
  <2> QED
    BY <1>4, <2>1, <2>2 DEF InputChange
<1> QED
  BY <1>1, <1>2, <1>3, <1>4

LEMMA StopEventContract ==
  ASSUME ContractInv,
         \/ StaleStopPoll \/ StillStopping \/ StopPollFails \/ StopDeadline
         \/ PauseConfirmed \/ FaultStopConfirmed \/ EmergencyStopConfirmed
         \/ OperatorStopConfirmed \/ ProgramStopConfirmed
  PROVE  ContractStep
<1>0. \A disp : StopConfirmed(disp) =>
        lifecycle \in StopLifecycles /\ StopPending /\ stop.disp = disp /\ ~moving'
  BY ContractInvFacts DEF StopConfirmed, OwnEpisode
<1>1. CASE StaleStopPoll \/ StillStopping \/ (StopDeadline /\ ~StopDeadlinePassed)
  BY <1>1, Unseen DEF StaleStopPoll, StillStopping, StopDeadline, Drop, taskVars
<1>2. CASE StopPollFails \/ (StopDeadline /\ StopDeadlinePassed)
  <2>1. FinishFault(connected, servoDisabled, TRUE, Raise(primary, "Fatal")) /\ UNCHANGED moving
    BY <1>2 DEF StopPollFails, StopDeadline, FailStop
  <2>2. lifecycle' = "Faulted" /\ Raised /\ (untrusted => untrusted')
    BY <2>1, ContractInvFacts, FinishFaultFacts
  <2> QED
    BY <2>1, <2>2, GiveUpStep
<1>3. CASE PauseConfirmed
  <2>1. lifecycle \in StopLifecycles /\ ~moving' /\ stop.disp = "Pause"
    BY <1>0, <1>3 DEF PauseConfirmed
  <2>2. HasActive /\ primary = "None"
    BY <1>0, <1>3, <2>1, ContractInvFacts DEF PauseConfirmed, EpisodeInv, PauseHasCommand, AlarmInv
  <2>3. lifecycle' = "Paused" /\ UNCHANGED <<primary, untrusted>>
    BY <1>3, <2>2 DEF PauseConfirmed
  <2> QED
    BY <2>1, <2>2, <2>3, ConfirmStep
<1>4. CASE FaultStopConfirmed
  <2>1. /\ lifecycle \in StopLifecycles /\ ~moving' /\ stop.disp = "Fault"
        /\ FinishFault(connected, servoDisabled, untrusted, primary)
    BY <1>0, <1>4 DEF FaultStopConfirmed
  <2>2. primary # "None"
    BY <2>1, ContractInvFacts DEF AlarmInv
  <2>3. lifecycle' = "Faulted" /\ Raised /\ (untrusted => untrusted')
    BY <2>1, <2>2, ContractInvFacts, FinishFaultFacts
  <2> QED
    BY <2>1, <2>3, ConfirmStep
<1>5. CASE EmergencyStopConfirmed
  <2>1. lifecycle \in StopLifecycles /\ ~moving'
    BY <1>0, <1>5 DEF EmergencyStopConfirmed
  <2>2. CASE /\ lifecycle' = "EmergencyStopped" /\ primary' = Raise(primary, "Recoverable")
             /\ ~untrusted /\ UNCHANGED untrusted
    <3>1. Raised
      BY <2>2, ContractInvFacts, RaiseRaised
    <3> QED
      BY <2>1, <2>2, <3>1, ConfirmStep
  <2>3. CASE lifecycle' = "Faulted" /\ Raised /\ (untrusted => untrusted')
    BY <2>1, <2>3, ConfirmStep
  <2>4. CASE FinishFault(connected, servoDisabled, TRUE, Raise(primary, "Fatal"))
    BY <2>3, <2>4, ContractInvFacts, FinishFaultFacts
  <2>5. CASE untrusted /\ FinishFault(connected, TRUE, TRUE, primary)
    BY <2>3, <2>5, ContractInvFacts, FinishFaultFacts
  <2>6. CASE FinishTerminal("EmergencyStopped", TRUE, Raise(primary, "Recoverable"))
    BY <2>2, <2>3, <2>6, FinishTerminalFacts
  <2> QED
    BY <1>5, <2>4, <2>5, <2>6 DEF EmergencyStopConfirmed
<1>6. CASE OperatorStopConfirmed \/ ProgramStopConfirmed
  <2>1. lifecycle \in StopLifecycles /\ ~moving' /\ primary = "None" /\ ~untrusted
    BY <1>0, <1>6, ContractInvFacts DEF OperatorStopConfirmed, ProgramStopConfirmed, AlarmInv
  <2>2. PICK result \in {"OperatorStopped", "ProgramCompleted"} :
          FinishTerminal(result, servoDisabled, primary)
    BY <1>6 DEF OperatorStopConfirmed, ProgramStopConfirmed
  <2>3. \/ lifecycle' = "Stopped" /\ UNCHANGED <<primary, untrusted>>
        \/ lifecycle' = "Faulted" /\ Raised /\ (untrusted => untrusted')
    BY <2>1, <2>2, FinishTerminalFacts
  <2> QED
    BY <2>1, <2>3, ConfirmStep
<1> QED
  BY <1>1, <1>2, <1>3, <1>4, <1>5, <1>6

LEMMA NextCommandContract ==
  ASSUME ContractInv, HandleNextCommand
  PROVE  ContractStep
<1>1. lifecycle \in {"Running", "Waiting"} /\ ~StopPending
  BY NextCommandCalls, CallsIdle DEF ContractInv
<1>2. CASE ConnectFails \/ ServoCommandThrows \/ StartPastTimeRange \/ StartMotionFails
  BY <1>1, <1>2, BeginFaultStep
     DEF ConnectFails, ServoCommandThrows, StartPastTimeRange, StartMotionFails, StartFault
<1>3. CASE StopCommand
  BY <1>1, <1>3, BeginStopStep DEF StopCommand
<1>4. CASE \/ ServoCommand \/ SetDo \/ ZeroDelay \/ StartMotion \/ StartDelay \/ StartWait
           \/ WaitAlreadySatisfied
  <2>1. lifecycle' \in {"Running", "Waiting"} /\ UNCHANGED <<primary, untrusted>>
    BY <1>1, <1>4 DEF ServoCommand, SetDo, ZeroDelay, Pass, StartMotion, StartDelay, StartWait,
       Begin, WaitAlreadySatisfied
  <2> QED
    BY <1>1, <2>1, WorkStep
<1> QED
  BY <1>2, <1>3, <1>4 DEF HandleNextCommand

LEMMA StepContract ==
  ASSUME ContractInv, [Next]_vars
  PROVE  ContractStep
<1>1. CASE UNCHANGED vars
  BY <1>1, Unseen DEF vars
<1>2. CASE HandleEvent
  BY <1>2, ControlContract, CommandEventContract, StopEventContract DEF HandleEvent
<1> QED
  BY <1>1, <1>2, HostContract, NextCommandContract DEF Next, Advance

(***************************************************************************)
(* Every behaviour of the session is one its contract allows: work only in *)
(* a session without alarm, a rest that is reported only with the device   *)
(* still or under an alarm, and a spoiled session never handed out again   *)
(* (runtime.cpp, all of RuntimeExecution's handlers).                      *)
(***************************************************************************)
THEOREM SessionKeepsContract == Spec => KeepsContract
<1>1. Init => Contract!ContractInit
  BY PhaseValues DEF Init, Contract!ContractInit
<1>2. ContractInv /\ [Next]_vars => [Contract!ContractNext]_(Contract!view)
  BY StepContract DEF ContractStep
<1>3. KnownInv /\ StandsStill => ContractInv
  BY DEF ContractInv
<1> QED
  BY <1>1, <1>2, <1>3, KnownHolds, StillWhenReported, PTL
     DEF Spec, KeepsContract, Contract!ContractSpec

-----------------------------------------------------------------------------
(***************************************************************************)
(* PauseKeepsBudget rests on this: what a command at work has left is      *)
(* never more than what it had when it was started or last resumed.        *)
(***************************************************************************)
BudgetInv == HasActive /\ lifecycle \in Working => active.deadline <= now + active.remaining

\* What PauseKeepsBudget asks of a step.
Budget ==
  HasActive /\ active'.index = active.index =>
    /\ active'.remaining <= active.remaining
    /\ lifecycle = "Paused" /\ lifecycle' \in {"Running", "Waiting"} =>
         active'.deadline = now' + active.remaining

BudgetStep == BudgetInv' /\ Budget

LEMMA ActiveFacts ==
  ASSUME TypeOK, HasActive
  PROVE  /\ active \in ActiveCommands /\ active.remaining \in Nat
         /\ active.index # NoCommand.index /\ active.remaining <= active.remaining
<1>1. active \in ActiveCommands
  BY DEF TypeOK, HasActive
<1> QED
  BY <1>1 DEF ActiveCommands, NoCommand

LEMMA ClockRuns ==
  ASSUME TypeOK, [Next]_vars
  PROVE  now \in Nat /\ now' \in Nat /\ now <= now'
<1>1. now \in Nat
  BY SessionAssumption DEF TypeOK, Time
<1>2. TypeOK'
  BY TypeStep
<1>3. now' \in Nat
  BY <1>2, SessionAssumption DEF TypeOK, Time
<1>4. \A type : Take(type) => now <= now'
  <2>1. \A type : Take(type) => Head(queue).time \in Nat /\ now' = Greatest(now, Head(queue).time)
    BY TakeTyped, HeadTyped, SessionAssumption DEF Take, Time
  <2> QED
    BY <1>1, <2>1 DEF Greatest
<1>5. CASE \E p \in Programs : SubmitProgram(p)
  BY <1>1, <1>5 DEF SubmitProgram, PrepareResult
<1>6. CASE UNCHANGED vars \/ (\E c \in ControlsUsed : SubmitControl(c)) \/ HostAdvancesClock
  BY <1>1, <1>6 DEF vars, SubmitControl, HostAdvancesClock
<1>7. HandleNextCommand => now' = now
  <2>1. ConnectFails \/ ServoCommand \/ ServoCommandThrows \/ SetDo \/ ZeroDelay => now' = now
    BY DEF ConnectFails, ServoCommand, ServoCommandThrows, SetDo, ZeroDelay, Start
  <2>2. \/ StartPastTimeRange \/ StartMotion \/ StartMotionFails \/ StartDelay \/ StartWait
        \/ WaitAlreadySatisfied \/ StopCommand
        => now' = now
    BY Zenon DEF StartPastTimeRange, StartMotion, StartMotionFails, StartDelay, StartWait,
       WaitAlreadySatisfied, StopCommand, Start
  <2> QED
    BY <2>1, <2>2 DEF HandleNextCommand
<1>8. HandleControl => \E type : Take(type)
  <2>1. ControlWithoutEffect \/ ResetRejected \/ Reset \/ Stop \/ Estop => Take("Control")
    BY Zenon DEF ControlWithoutEffect, ResetRejected, Reset, Stop, Estop, TakeControl
  <2>2. PauseBetweenCommands \/ PauseMotion \/ PauseLocalWait => Take("Control")
    BY Zenon DEF PauseBetweenCommands, PauseMotion, PauseLocalWait, TakeControl
  <2>3. ResumeBetweenCommands \/ ResumeMotion \/ ResumeMotionFails => Take("Control")
    BY Zenon DEF ResumeBetweenCommands, ResumeMotion, ResumeMotionFails, TakeControl
  <2>4. ResumePastTimeRange \/ ResumeSatisfiedWait \/ ResumeLocalWait => Take("Control")
    BY Zenon DEF ResumePastTimeRange, ResumeSatisfiedWait, ResumeLocalWait, TakeControl
  <2> QED
    BY <2>1, <2>2, <2>3, <2>4, Zenon DEF HandleControl
<1>9. HandleEvent /\ ~HandleControl => \E type : Take(type)
  <2>1. StaleMotionPoll \/ MotionRunning \/ MotionSucceeded \/ MotionFails => Take("MotionPoll")
    BY Zenon DEF StaleMotionPoll, MotionRunning, MotionSucceeded, MotionFails
  <2>2. /\ DelayComplete \/ StaleDelayComplete => Take("DelayComplete")
        /\ CommandTimeout \/ StaleTimeout => Take("Timeout")
        /\ InputChange => Take("Input")
        /\ ConnectionLoss => Take("ConnectionLoss")
    BY Zenon DEF DelayComplete, StaleDelayComplete, CommandTimeout, StaleTimeout, InputChange,
       ConnectionLoss
  <2>3. /\ StaleStopPoll \/ StillStopping \/ StopPollFails => Take("StopPoll")
        /\ StopDeadline => Take("StopTimeout")
    BY Zenon DEF StaleStopPoll, StillStopping, StopPollFails, StopDeadline
  <2>4. \/ PauseConfirmed \/ FaultStopConfirmed \/ EmergencyStopConfirmed
        \/ OperatorStopConfirmed \/ ProgramStopConfirmed
        => Take("StopPoll")
    BY Zenon DEF PauseConfirmed, FaultStopConfirmed, EmergencyStopConfirmed,
       OperatorStopConfirmed, ProgramStopConfirmed, StopConfirmed
  <2> QED
    BY <2>1, <2>2, <2>3, <2>4, Zenon DEF HandleEvent
<1>10. CASE HandleEvent
  BY <1>1, <1>3, <1>4, <1>8, <1>9, <1>10
<1> QED
  BY <1>1, <1>3, <1>5, <1>6, <1>7, <1>10 DEF Next, Advance

-----------------------------------------------------------------------------
(***************************************************************************)
(* The three things a step can do to the active command.                   *)
(***************************************************************************)
LEMMA CommandGone ==
  ASSUME TypeOK, active' = NoCommand
  PROVE  BudgetStep
BY ActiveFacts DEF BudgetStep, Budget, BudgetInv, HasActive

LEMMA CommandKept ==
  ASSUME TypeOK, CommandInv, BudgetInv, [Next]_vars, UNCHANGED active,
         HasActive /\ lifecycle' \in Working => lifecycle \in Working
  PROVE  BudgetStep
<1>1. Budget
  BY ActiveFacts DEF Budget, Working
<1>2. BudgetInv'
  <2> SUFFICES ASSUME HasActive, lifecycle' \in Working
               PROVE  active.deadline <= now' + active.remaining
    BY DEF BudgetInv, HasActive
  <2>1. active.deadline \in Time /\ active.deadline <= now + active.remaining
    BY DEF CommandInv, BudgetInv
  <2> QED
    BY <2>1, ActiveFacts, ClockRuns, SessionAssumption DEF Time
<1> QED
  BY <1>1, <1>2 DEF BudgetStep

LEMMA CommandRests ==
  ASSUME TypeOK, lifecycle' \notin Working, active' = NoCommand \/ active'.remaining <= active.remaining
  PROVE  BudgetStep
<1>1. CASE active'.remaining <= active.remaining
  BY <1>1 DEF BudgetStep, Budget, BudgetInv, Working
<1> QED
  BY <1>1, CommandGone

LEMMA ExitBudget ==
  ASSUME TypeOK
  PROVE  /\ \A conn, disabled, distrust, prim :
              FinishFault(conn, disabled, distrust, prim) => BudgetStep
         /\ \A result, disabled, prim : FinishTerminal(result, disabled, prim) => BudgetStep
         /\ \A q : Succeed(q) => BudgetStep
<1>1. \A conn, disabled, distrust, prim :
        FinishFault(conn, disabled, distrust, prim) => BudgetStep
  BY CommandGone DEF FinishFault
<1>2. \A result, disabled, prim : FinishTerminal(result, disabled, prim) => BudgetStep
  BY <1>1, CommandGone DEF FinishTerminal
<1>3. \A q : Succeed(q) => BudgetStep
  BY CommandGone DEF Succeed
<1> QED
  BY <1>1, <1>2, <1>3

LEMMA BeginBudget ==
  ASSUME TypeOK, NEW q, NEW command, HasActive => command.remaining <= active.remaining
  PROVE  /\ \A disp, prim : BeginStop(q, disp, command, prim) => BudgetStep
         /\ \A conn, kind : BeginFault(q, conn, kind, command) => BudgetStep
<1>1. ASSUME NEW disp, NEW prim, BeginStop(q, disp, command, prim) PROVE BudgetStep
  <2>1. \/ FailStop(TRUE, prim)
        \/ lifecycle' = StopLifecycle(disp) /\ active' = command
    BY <1>1, Zenon DEF BeginStop
  <2>2. CASE FailStop(TRUE, prim)
    BY <2>2, ExitBudget DEF FailStop
  <2>3. CASE lifecycle' = StopLifecycle(disp) /\ active' = command
    <3>1. lifecycle' \notin Working
      BY <2>3, StopLifecycleRange DEF StopLifecycles, Working
    <3> QED
      BY <2>3, <3>1 DEF BudgetStep, Budget, BudgetInv, Working
  <2> QED
    BY <2>1, <2>2, <2>3
<1>2. ASSUME NEW conn, NEW kind, BeginFault(q, conn, kind, command) PROVE BudgetStep
  BY <1>1, <1>2, ExitBudget DEF BeginFault
<1> QED
  BY <1>1, <1>2

LEMMA ControlBudget ==
  ASSUME TypeOK, CommandInv, BudgetInv, [Next]_vars, HandleControl
  PROVE  BudgetStep
<1>0. /\ HasActive => /\ active \in ActiveCommands /\ active.remaining \in Nat
                      /\ active.remaining <= active.remaining
      /\ active.type \in {"MOVEJ", "DELAY", "WAIT_DI", "SET_TOOL"} => HasActive
  BY ActiveFacts DEF HasActive, NoCommand
<1>1. CASE ControlWithoutEffect \/ ResetRejected
  BY <1>1, CommandKept DEF ControlWithoutEffect, ResetRejected, Drop, taskVars
<1>2. CASE PauseBetweenCommands \/ ResumeBetweenCommands \/ Reset
  <2>1. active' = NoCommand
    BY <1>2 DEF PauseBetweenCommands, ResumeBetweenCommands, Reset, ResetAllowed, HasActive
  <2> QED
    BY <2>1, CommandGone
<1>3. CASE PauseMotion \/ PauseLocalWait
  <2>1. HasActive /\ lifecycle \in Working
    BY <1>0, <1>3 DEF PauseMotion, PauseLocalWait, LocalWait, Working
  <2>2. active.deadline \in Nat /\ active.deadline <= now + active.remaining
    BY <2>1, SessionAssumption DEF CommandInv, BudgetInv, Time
  <2>3. Remaining \in Nat /\ Remaining <= active.remaining
    BY <1>0, <2>1, <2>2, ClockRuns DEF Remaining, Greatest
  <2>4. CASE PauseMotion
    <3>1. [active EXCEPT !.remaining = Remaining].remaining = Remaining
      BY <1>0, <2>1 DEF ActiveCommands
    <3> QED
      BY <2>3, <2>4, <3>1, BeginBudget DEF PauseMotion
  <2>5. CASE PauseLocalWait
    <3>1. active' = [active EXCEPT !.remaining = Remaining, !.deadline = NoDeadline, !.gen = @ + 1]
          /\ lifecycle' = "Paused"
      BY <2>5 DEF PauseLocalWait
    <3>2. active'.remaining = Remaining
      BY <1>0, <2>1, <3>1 DEF ActiveCommands
    <3> QED
      BY <2>3, <3>1, <3>2, CommandRests DEF Working
  <2> QED
    BY <1>3, <2>4, <2>5
<1>4. CASE ResumeMotion \/ ResumeLocalWait
  <2>1. HasActive /\ active' = Resumed
    BY <1>0, <1>4 DEF ResumeMotion, ResumeLocalWait, LocalWait
  <2>2. active'.remaining = active.remaining /\ active'.deadline = now' + active.remaining
    BY <1>0, <2>1 DEF Resumed, ActiveCommands
  <2>3. now' + active.remaining <= now' + active.remaining
    BY <1>0, <2>1, ClockRuns
  <2> QED
    BY <1>0, <2>1, <2>2, <2>3 DEF BudgetStep, Budget, BudgetInv
<1>5. CASE ResumeMotionFails \/ ResumePastTimeRange
  <2>1. HasActive
    BY <1>0, <1>5 DEF ResumeMotionFails, ResumePastTimeRange
  <2>2. [active EXCEPT !.gen = @ + 1].remaining = active.remaining
    BY <1>0, <2>1 DEF ActiveCommands
  <2> QED
    BY <1>0, <1>5, <2>1, <2>2, BeginBudget DEF ResumeMotionFails, ResumePastTimeRange, ResumeFault
<1>6. CASE ResumeSatisfiedWait
  BY <1>6, ExitBudget DEF ResumeSatisfiedWait
<1>7. CASE Stop
  <2>1. CASE StopPending
    BY <1>7, <2>1, CommandKept DEF Stop, taskVars
  <2>2. CASE ~StopPending
    BY <1>0, <1>7, <2>2, BeginBudget, ExitBudget DEF Stop
  <2> QED
    BY <2>1, <2>2
<1>8. CASE Estop
  <2>1. CASE StopPending
    BY <1>8, <2>1, CommandKept DEF Estop, Working
  <2>2. CASE ~StopPending
    BY <1>0, <1>8, <2>2, BeginBudget, ExitBudget DEF Estop
  <2> QED
    BY <2>1, <2>2
<1> QED
  BY <1>1, <1>2, <1>3, <1>4, <1>5, <1>6, <1>7, <1>8 DEF HandleControl

LEMMA EventBudget ==
  ASSUME EpisodeInv, CommandInv, BudgetInv, [Next]_vars, HandleEvent, ~HandleControl
  PROVE  BudgetStep
<1>0. TypeOK /\ (HasActive => active \in ActiveCommands /\ active.remaining <= active.remaining)
  BY ActiveFacts DEF EpisodeInv
<1>1. CASE \/ StaleMotionPoll \/ StaleDelayComplete \/ StaleTimeout \/ StaleStopPoll
           \/ MotionRunning \/ StillStopping \/ (StopDeadline /\ ~StopDeadlinePassed)
  BY <1>0, <1>1, CommandKept
     DEF StaleMotionPoll, StaleDelayComplete, StaleTimeout, StaleStopPoll, MotionRunning,
         StillStopping, StopDeadline, Drop, taskVars
<1>2. CASE MotionSucceeded \/ DelayComplete
  BY <1>0, <1>2, ExitBudget DEF MotionSucceeded, DelayComplete
<1>3. CASE MotionFails \/ CommandTimeout \/ ConnectionLoss
  BY <1>0, <1>3, BeginBudget DEF MotionFails, CommandTimeout, ConnectionLoss
<1>4. CASE StopPollFails \/ (StopDeadline /\ StopDeadlinePassed)
  BY <1>0, <1>4, ExitBudget DEF StopPollFails, StopDeadline, FailStop
<1>5. CASE FaultStopConfirmed \/ EmergencyStopConfirmed \/ OperatorStopConfirmed
           \/ ProgramStopConfirmed
  BY <1>0, <1>5, ExitBudget DEF FaultStopConfirmed, EmergencyStopConfirmed,
     OperatorStopConfirmed, ProgramStopConfirmed
<1>6. CASE PauseConfirmed
  <2>1. HasActive
    BY <1>6 DEF PauseConfirmed, StopConfirmed, EpisodeInv, PauseHasCommand
  <2>2. active' = [active EXCEPT !.gen = @ + 1] /\ lifecycle' = "Paused"
    BY <1>6, <2>1 DEF PauseConfirmed
  <2>3. active'.remaining = active.remaining
    BY <1>0, <2>1, <2>2 DEF ActiveCommands
  <2> QED
    BY <1>0, <2>1, <2>2, <2>3, CommandRests DEF Working
<1>7. CASE InputChange
  <2>1. CASE Succeed(Tail(queue))
    BY <1>0, <2>1, ExitBudget
  <2>2. CASE UNCHANGED taskVars
    BY <1>0, <2>2, CommandKept DEF taskVars
  <2> QED
    BY <1>7, <2>1, <2>2 DEF InputChange
<1> QED
  BY <1>1, <1>2, <1>3, <1>4, <1>5, <1>6, <1>7 DEF HandleEvent

\* A command that starts has all of its time; none was under way before.
LEMMA NextCommandBudget ==
  ASSUME ContractInv, BudgetInv, [Next]_vars, HandleNextCommand
  PROVE  BudgetStep
<1>1. TypeOK /\ ~HasActive /\ Budget
  BY NextCommandCalls, CallsIdle, ContractInvFacts DEF ContractInv, Budget
<1>2. CASE ConnectFails \/ ServoCommandThrows \/ StartPastTimeRange \/ StartMotionFails \/ StopCommand
  BY <1>1, <1>2, BeginBudget
     DEF ConnectFails, ServoCommandThrows, StartPastTimeRange, StartMotionFails, StartFault,
         StopCommand
<1>3. CASE ServoCommand \/ SetDo \/ ZeroDelay \/ WaitAlreadySatisfied
  <2>1. active' = NoCommand
    BY <1>1, <1>3 DEF ServoCommand, SetDo, ZeroDelay, Pass, WaitAlreadySatisfied, HasActive
  <2> QED
    BY <1>1, <2>1, CommandGone
<1>4. CASE StartMotion \/ StartDelay \/ StartWait
  <2>1. active' = Activate(program[next]) /\ now' = now
    BY <1>4 DEF StartMotion, StartDelay, StartWait, Begin, Start
  <2>2. now \in Nat /\ program[next].timeout \in Nat
    BY <1>1, <1>4, ClockRuns, StartTyped DEF StartMotion, StartDelay, StartWait
  <2>3. active'.deadline <= now' + active'.remaining
    BY <2>1, <2>2 DEF Activate
  <2> QED
    BY <1>1, <2>3 DEF BudgetStep, BudgetInv
<1> QED
  BY <1>2, <1>3, <1>4 DEF HandleNextCommand

LEMMA StepBudget ==
  ASSUME ContractInv, BudgetInv, [Next]_vars
  PROVE  BudgetStep
<1>0. TypeOK /\ EpisodeInv /\ CommandInv
  BY ContractInvFacts
<1>1. CASE UNCHANGED vars
  BY <1>0, <1>1, CommandKept DEF vars
<1>2. CASE \E p \in Programs : SubmitProgram(p)
  BY <1>0, <1>2, CommandGone DEF SubmitProgram, PrepareResult
<1>3. CASE (\E c \in ControlsUsed : SubmitControl(c)) \/ HostAdvancesClock
  BY <1>0, <1>3, CommandKept DEF SubmitControl, HostAdvancesClock, taskVars
<1>4. CASE HandleEvent
  BY <1>0, <1>4, ControlBudget, EventBudget
<1>5. CASE HandleNextCommand
  BY <1>5, NextCommandBudget
<1> QED
  BY <1>1, <1>2, <1>3, <1>4, <1>5 DEF Next, Advance

(***************************************************************************)
(* However often a command is paused and resumed, it never gets more time  *)
(* than it had, and exactly what was left (runtime.cpp, HandleControl,     *)
(* PauseLocalCommand, ResumeActiveCommand).                                *)
(***************************************************************************)
THEOREM BudgetIsKept == Spec => PauseKeepsBudget
<1>1. Init => BudgetInv
  BY DEF Init, BudgetInv, HasActive
<1>2. ContractInv /\ BudgetInv /\ [Next]_vars => BudgetInv'
  BY StepBudget DEF BudgetStep
<1>3. ContractInv /\ BudgetInv /\ [Next]_vars =>
        [ HasActive /\ active'.index = active.index =>
            /\ active'.remaining <= active.remaining
            /\ lifecycle = "Paused" /\ lifecycle' \in {"Running", "Waiting"} =>
                 active'.deadline = now' + active.remaining ]_vars
  BY StepBudget DEF BudgetStep, Budget
<1>4. KnownInv /\ StandsStill => ContractInv
  BY DEF ContractInv
<1> QED
  BY <1>1, <1>2, <1>3, <1>4, KnownHolds, StillWhenReported, PTL DEF Spec, PauseKeepsBudget

-----------------------------------------------------------------------------
(***************************************************************************)
(* EmergencyFirst rests on the order of the queue, which every handler     *)
(* keeps: it takes the first event and schedules what comes next.          *)
(***************************************************************************)
OrderedQueue(q) == q \in Seq(Event) /\ Ordered(q)

LEMMA OrderSchedule ==
  ASSUME NEW q, OrderedQueue(q), NEW e \in Event
  PROVE  OrderedQueue(Schedule(q, e))
<1>1. Timed(Event)
  BY SessionAssumption
     DEF Timed, Event, ControlEvents, CommandEvents, StopEvents, InputEvents, LossEvents, Time
<1> QED
  BY <1>1, ScheduleKeepsOrder, ScheduleTyped DEF OrderedQueue

LEMMA OrderEmpty == OrderedQueue(<<>>)
BY DEF OrderedQueue, Ordered

LEMMA OrderTake ==
  ASSUME TypeOK, OrderedQueue(queue), NEW type, Take(type)
  PROVE  OrderedQueue(Tail(queue)) /\ now' \in Time
BY TakeTyped, TailKeepsOrder DEF OrderedQueue

LEMMA OrderBeginStop ==
  ASSUME TypeOK, now' \in Time, NEW q, OrderedQueue(q), NEW disp \in Dispositions,
         NEW command, NEW prim, BeginStop(q, disp, command, prim)
  PROVE  OrderedQueue(queue')
<1>1. ASSUME NEW delay \in PollDelays \cup {0},
             LET episode == [id |-> nextStop, disp |-> disp,
                             deadline |-> SaturatingAdd(now', StopTimeout)]
                 poll == Least(episode.deadline, SaturatingAdd(now', delay))
             IN queue' = Schedule(Schedule(q, StopPollEvent(poll, episode)),
                                  StopTimeoutEvent(episode))
      PROVE  OrderedQueue(queue')
  <2> DEFINE episode == [id |-> nextStop, disp |-> disp,
                         deadline |-> SaturatingAdd(now', StopTimeout)]
             poll == Least(episode.deadline, SaturatingAdd(now', delay))
  <2>1. StopTimeout \in Nat /\ delay \in Nat
    BY SessionAssumption
  <2>2. episode.deadline \in Time /\ poll \in Time
    BY <2>1, TimeArithmetic
  <2>3. episode \in StopEpisodes
    BY <2>2 DEF StopEpisodes, TypeOK
  <2>4. queue' = Schedule(Schedule(q, StopPollEvent(poll, episode)), StopTimeoutEvent(episode))
    BY <1>1
  <2> HIDE DEF episode, poll
  <2> QED
    BY <2>2, <2>3, <2>4, EventTypes, OrderSchedule
<1> QED
  BY <1>1 DEF BeginStop

LEMMA OrderBeginFault ==
  ASSUME TypeOK, now' \in Time, NEW q, OrderedQueue(q), NEW conn, NEW kind, NEW command,
         BeginFault(q, conn, kind, command)
  PROVE  OrderedQueue(queue')
BY OrderBeginStop DEF BeginFault, Dispositions

LEMMA HostOrder ==
  ASSUME TypeOK, OrderedQueue(queue),
         \/ \E p \in Programs : SubmitProgram(p)
         \/ \E c \in ControlsUsed : SubmitControl(c)
         \/ HostAdvancesClock
  PROVE  OrderedQueue(queue')
<1>1. ASSUME NEW p \in Programs, SubmitProgram(p) PROVE OrderedQueue(queue')
  BY <1>1, OrderEmpty, ScenarioAssumption DEF SubmitProgram, OrderedQueue, TypeOK
<1>2. ASSUME NEW c \in ControlsUsed, SubmitControl(c) PROVE OrderedQueue(queue')
  BY <1>2, SessionAssumption, EventTypes, OrderSchedule DEF SubmitControl, TypeOK
<1>3. CASE HostAdvancesClock
  BY <1>3 DEF HostAdvancesClock
<1> QED
  BY <1>1, <1>2, <1>3

LEMMA ControlOrder ==
  ASSUME TypeOK, OrderedQueue(queue), HandleControl
  PROVE  OrderedQueue(queue')
<1>0. \A c : TakeControl(c) => OrderedQueue(Tail(queue)) /\ now' \in Time
  BY OrderTake DEF TakeControl
<1>1. CASE ControlWithoutEffect \/ ResetRejected
  BY <1>0, <1>1, Zenon DEF ControlWithoutEffect, ResetRejected, Drop
<1>2. CASE PauseBetweenCommands \/ PauseLocalWait \/ ResumeBetweenCommands \/ ResumeSatisfiedWait
  BY <1>0, <1>2 DEF PauseBetweenCommands, PauseLocalWait, ResumeBetweenCommands,
     ResumeSatisfiedWait, Succeed
<1>3. CASE PauseMotion
  BY <1>0, <1>3, OrderBeginStop DEF PauseMotion, Dispositions
<1>4. CASE ResumeMotionFails \/ ResumePastTimeRange
  BY <1>0, <1>4, OrderBeginFault DEF ResumeMotionFails, ResumePastTimeRange, ResumeFault
<1>5. CASE ResumeMotion
  <2>1. HasActive /\ OrderedQueue(Tail(queue)) /\ now' \in Time
    BY <1>0, <1>5 DEF ResumeMotion, HasActive, NoCommand
  <2>2. Resumed \in ActiveCommands /\ Resumed.deadline \in Time
    BY <1>5, <2>1, PausedTyped DEF ResumeMotion
  <2>3. PICK delay \in PollDelays \cup {0} :
          LET poll == Least(Resumed.deadline, SaturatingAdd(now', delay))
          IN queue' = Schedule(Schedule(Tail(queue), MotionPollEvent(poll, Resumed)),
                               TimeoutEvent(Resumed))
    BY <1>5 DEF ResumeMotion
  <2>4. SaturatingAdd(now', delay) \in Time
    BY <2>1, SessionAssumption, TimeArithmetic
  <2>5. Least(Resumed.deadline, SaturatingAdd(now', delay)) \in Time
    BY <2>2, <2>4, TimeArithmetic
  <2> QED
    BY <2>1, <2>2, <2>3, <2>5, EventTypes, OrderSchedule
<1>6. CASE ResumeLocalWait
  <2>1. HasActive /\ OrderedQueue(Tail(queue)) /\ now' \in Time
    BY <1>0, <1>6 DEF ResumeLocalWait, LocalWait, HasActive, NoCommand
  <2>2. Resumed \in ActiveCommands /\ Resumed.deadline \in Time
    BY <1>6, <2>1, PausedTyped DEF ResumeLocalWait
  <2> QED
    BY <1>6, <2>1, <2>2, EventTypes, OrderSchedule DEF ResumeLocalWait
<1>7. CASE Stop
  BY <1>0, <1>7, OrderBeginStop DEF Stop, Dispositions
<1>8. CASE Estop
  BY <1>0, <1>8, OrderBeginStop DEF Estop, Dispositions
<1>9. CASE Reset
  BY <1>9, OrderEmpty DEF Reset
<1> QED
  BY <1>1, <1>2, <1>3, <1>4, <1>5, <1>6, <1>7, <1>8, <1>9 DEF HandleControl

LEMMA EventOrder ==
  ASSUME TypeOK, OrderedQueue(queue), HandleEvent, ~HandleControl
  PROVE  OrderedQueue(queue')
<1>0. \A type : Take(type) => OrderedQueue(Tail(queue)) /\ now' \in Time
  BY OrderTake
<1>d. ASSUME NEW delay \in PollDelays, now' \in Time, NEW limit \in Time
      PROVE  Least(limit, SaturatingAdd(now', Greatest(1, delay))) \in Time
  <2>1. Greatest(1, delay) \in Nat
    BY SessionAssumption DEF Greatest
  <2>2. SaturatingAdd(now', Greatest(1, delay)) \in Time
    BY <1>d, <2>1, TimeArithmetic
  <2> QED
    BY <2>2, TimeArithmetic
<1>1. CASE StaleMotionPoll \/ StaleDelayComplete \/ StaleTimeout \/ StaleStopPoll
  BY <1>0, <1>1, Zenon DEF StaleMotionPoll, StaleDelayComplete, StaleTimeout, StaleStopPoll, Drop
<1>2. CASE MotionRunning
  <2>1. OrderedQueue(Tail(queue)) /\ now' \in Time
    BY <1>0, <1>2 DEF MotionRunning
  <2>2. CASE now' < active.deadline
    <3>1. active \in ActiveCommands /\ active.deadline \in Time
      <4>1. active \in ActiveCommands
        BY <1>2 DEF MotionRunning, PollIsCurrent, TypeOK, HasActive
      <4> QED
        BY <2>1, <2>2, <4>1, SessionAssumption DEF ActiveCommands, NoDeadline, Time
    <3> QED
      BY <1>2, <1>d, <2>1, <2>2, <3>1, EventTypes, OrderSchedule DEF MotionRunning
  <2>3. CASE ~(now' < active.deadline)
    BY <1>2, <2>1, <2>3 DEF MotionRunning
  <2> QED
    BY <2>2, <2>3
<1>3. CASE StillStopping
  <2>1. /\ OrderedQueue(Tail(queue)) /\ now' \in Time
        /\ stop \in StopEpisodes /\ stop.deadline \in Time
    BY <1>0, <1>3 DEF StillStopping, OwnEpisode, StopPending, TypeOK, StopEpisodes, NoStop
  <2> QED
    BY <1>3, <1>d, <2>1, EventTypes, OrderSchedule DEF StillStopping
<1>4. CASE MotionSucceeded \/ DelayComplete \/ InputChange
  BY <1>0, <1>4 DEF MotionSucceeded, DelayComplete, InputChange, Succeed
<1>5. CASE MotionFails \/ CommandTimeout \/ ConnectionLoss
  BY <1>0, <1>5, OrderBeginFault DEF MotionFails, CommandTimeout, ConnectionLoss
<1>6. CASE StopPollFails \/ StopDeadline
  BY <1>0, <1>6, Zenon DEF StopPollFails, StopDeadline, Resolve, Drop
<1>7. CASE PauseConfirmed \/ FaultStopConfirmed \/ EmergencyStopConfirmed
           \/ OperatorStopConfirmed \/ ProgramStopConfirmed
  <2>1. \E disp : StopConfirmed(disp)
    BY <1>7, Zenon DEF PauseConfirmed, FaultStopConfirmed, EmergencyStopConfirmed,
       OperatorStopConfirmed, ProgramStopConfirmed
  <2> QED
    BY <1>0, <2>1, Zenon DEF StopConfirmed, Resolve
<1> QED
  BY <1>1, <1>2, <1>3, <1>4, <1>5, <1>6, <1>7 DEF HandleEvent

LEMMA NextCommandOrder ==
  ASSUME TypeOK, OrderedQueue(queue), HandleNextCommand
  PROVE  OrderedQueue(queue')
<1> DEFINE a == Activate(program[next])
<1>0. \A type : Start(type) => now' = now /\ now' \in Time
  BY DEF Start, TypeOK
<1>1. ASSUME NEW type, Start(type), InRange(now, program[next].timeout)
      PROVE  a \in ActiveCommands /\ a.deadline \in Time /\ now \in Time
  BY <1>0, <1>1, StartTyped
<1> HIDE DEF a
<1>2. CASE ConnectFails
  BY <1>2, OrderBeginFault DEF ConnectFails, TypeOK
<1>3. CASE ServoCommandThrows \/ StartPastTimeRange \/ StartMotionFails
  BY <1>0, <1>3, OrderBeginFault
     DEF ServoCommandThrows, StartPastTimeRange, StartMotionFails, StartFault
<1>4. CASE ServoCommand \/ SetDo \/ ZeroDelay \/ WaitAlreadySatisfied
  BY <1>4 DEF ServoCommand, SetDo, ZeroDelay, WaitAlreadySatisfied, Pass
<1>5. CASE StopCommand
  BY <1>0, <1>5, OrderBeginStop DEF StopCommand, Dispositions
<1>6. CASE StartDelay \/ StartWait
  <2>1. a \in ActiveCommands /\ a.deadline \in Time
    BY <1>1, <1>6 DEF StartDelay, StartWait
  <2>2. queue' \in {Schedule(queue, DelayCompleteEvent(a)), Schedule(queue, TimeoutEvent(a))}
    BY <1>6 DEF StartDelay, StartWait, a
  <2> QED
    BY <2>1, <2>2, EventTypes, OrderSchedule
<1>7. CASE StartMotion
  <2>1. a \in ActiveCommands /\ a.deadline \in Time /\ now \in Time
    BY <1>1, <1>7 DEF StartMotion
  <2>2. PICK delay \in PollDelays \cup {0} :
          LET poll == Least(a.deadline, SaturatingAdd(now, delay))
          IN queue' = Schedule(Schedule(queue, MotionPollEvent(poll, a)), TimeoutEvent(a))
    BY <1>7 DEF StartMotion, a
  <2>3. SaturatingAdd(now, delay) \in Time
    BY <2>1, SessionAssumption, TimeArithmetic
  <2>4. Least(a.deadline, SaturatingAdd(now, delay)) \in Time
    BY <2>1, <2>3, TimeArithmetic
  <2> QED
    BY <2>1, <2>2, <2>4, EventTypes, OrderSchedule
<1> QED
  BY <1>2, <1>3, <1>4, <1>5, <1>6, <1>7 DEF HandleNextCommand

LEMMA OrderStep ==
  ASSUME TypeOK, OrderedQueue(queue), [Next]_vars
  PROVE  OrderedQueue(queue')
<1>1. CASE UNCHANGED vars
  BY <1>1 DEF vars
<1> QED
  BY <1>1, HostOrder, ControlOrder, EventOrder, NextCommandOrder DEF Next, Advance

(***************************************************************************)
(* The event queue of a session is always in the order of service          *)
(* (runtime.cpp, every call of events_.Schedule; event_queue.h).           *)
(***************************************************************************)
THEOREM QueueInOrder == Spec => []Ordered(queue)
<1>1. Init => OrderedQueue(queue)
  BY OrderEmpty DEF Init
<1>2. TypeOK /\ OrderedQueue(queue) /\ [Next]_vars => OrderedQueue(queue)'
  BY OrderStep DEF OrderedQueue
<1>3. OrderedQueue(queue) => Ordered(queue)
  BY DEF OrderedQueue
<1> QED
  BY <1>1, <1>2, <1>3, TypeCorrect, PTL DEF Spec

-----------------------------------------------------------------------------
\* Nothing but an ESTOP has its priority, so it is the first of its instant.
LEMMA EstopAtHead ==
  ASSUME TypeOK, Ordered(queue), EstopDue
  PROVE  Head(queue).type = "Control" /\ Head(queue).control = "ESTOP" /\ MustProcessEvent
<1>1. PICK n \in DOMAIN queue :
        /\ queue[n].type = "Control" /\ queue[n].control = "ESTOP"
        /\ queue[n].time <= now /\ queue[n].time = Head(queue).time
  BY DEF EstopDue
<1>2. /\ queue \in Seq(Event) /\ queue # <<>> /\ DOMAIN queue = 1 .. Len(queue) /\ Len(queue) \in Nat
      /\ Head(queue) = queue[1]
  BY <1>1, LenProperties, HeadTailProperties, EmptySeq DEF TypeOK
<1>3. queue[n] \in Event /\ queue[1] \in Event /\ 1 \in DOMAIN queue
  BY <1>1, <1>2, ElementOfSeq
<1>4. queue[n].prio = 0
  BY <1>1, <1>3 DEF Event, ControlEvents, CommandEvents, StopEvents, InputEvents, LossEvents,
     PriorityFor, EmergencyControl
<1>5. queue[1].prio \in Nat
  BY <1>3 DEF Event, ControlEvents, CommandEvents, StopEvents, InputEvents, LossEvents
<1>6. queue[1].prio = 0
  <2>1. CASE n = 1
    BY <1>4, <2>1
  <2>2. CASE n # 1
    <3>1. ~Precedes(queue[n], queue[1])
      BY <1>1, <1>2, <1>3, <2>2 DEF Ordered
    <3> QED
      BY <1>1, <1>2, <1>4, <1>5, <3>1 DEF Precedes
  <2> QED
    BY <2>1, <2>2
<1>7. queue[1].type = "Control" /\ queue[1].control = "ESTOP"
  BY <1>3, <1>6 DEF Event, ControlEvents, CommandEvents, StopEvents, InputEvents, LossEvents,
     PriorityFor, EmergencyControl, StopControl, LifecycleControl
<1> QED
  BY <1>1, <1>2, <1>7 DEF MustProcessEvent

(***************************************************************************)
(* An ESTOP that is due takes effect in the very next call of Advance,     *)
(* whatever else is due at that instant (event_queue.h, LaterEventFirst;   *)
(* runtime.cpp, Advance and HandleControl).                                *)
(***************************************************************************)
THEOREM EmergencyServedFirst == Spec => EmergencyFirst
<1> DEFINE Safe == {"EmergencyStopping", "EmergencyStopped", "Faulted"}
<1>1. ASSUME TypeOK, Ordered(queue), Next, EstopDue, UNCHANGED <<now, boundVars>>
      PROVE  lifecycle' \in Safe
  <2>1. Head(queue).type = "Control" /\ Head(queue).control = "ESTOP" /\ MustProcessEvent
    BY <1>1, EstopAtHead
  <2>2. /\ \A type : Take(type) => type = "Control"
        /\ \A c : TakeControl(c) => c = "ESTOP"
    BY <2>1 DEF Take, TakeControl
  <2>3. \A p : ~SubmitProgram(p)
    BY <1>1 DEF SubmitProgram, PrepareResult, boundVars, TypeOK
  <2>4. (\A c : ~SubmitControl(c)) /\ ~HostAdvancesClock
    BY <1>1, SessionAssumption DEF SubmitControl, HostAdvancesClock, boundVars, TypeOK, Time
  <2>5. ~HandleNextCommand
    BY <2>1 DEF HandleNextCommand, ConnectFails, ServoCommand, ServoCommandThrows, SetDo, ZeroDelay,
       StartPastTimeRange, StartMotion, StartMotionFails, StartDelay, StartWait,
       WaitAlreadySatisfied, StopCommand, Start, StartsCommand, CallsNextCommand
  <2>6. HandleEvent => ControlWithoutEffect \/ Estop
    BY <2>2, Zenon DEF HandleEvent, HandleControl, PauseBetweenCommands, PauseMotion, PauseLocalWait,
       ResumeBetweenCommands, ResumeMotion, ResumeMotionFails, ResumePastTimeRange,
       ResumeSatisfiedWait, ResumeLocalWait, Stop, Reset, ResetRejected, StaleMotionPoll,
       MotionRunning, MotionSucceeded, MotionFails, DelayComplete, StaleDelayComplete,
       CommandTimeout, StaleTimeout, StaleStopPoll, StillStopping, StopPollFails, StopDeadline,
       PauseConfirmed, FaultStopConfirmed, EmergencyStopConfirmed, OperatorStopConfirmed,
       ProgramStopConfirmed, StopConfirmed, InputChange, ConnectionLoss
  <2>7. CASE ControlWithoutEffect
    BY <2>2, <2>7 DEF ControlWithoutEffect, Drop, taskVars
  <2>8. CASE Estop
    BY <2>8 DEF Estop, BeginStop, FailStop, FinishTerminal, FinishFault, StopLifecycle
  <2> QED
    BY <1>1, <2>3, <2>4, <2>5, <2>6, <2>7, <2>8 DEF Next, Advance
<1>2. TypeOK /\ Ordered(queue) /\ [Next]_vars =>
        [ EstopDue /\ UNCHANGED <<now, boundVars>> =>
            lifecycle' \in {"EmergencyStopping", "EmergencyStopped", "Faulted"} ]_vars
  BY <1>1
<1> QED
  BY <1>2, TypeCorrect, QueueInOrder, PTL DEF Spec, EmergencyFirst
-----------------------------------------------------------------------------
(***************************************************************************)
(* Where in the program a session is.  A session that goes on is at a      *)
(* command of a validated program; an active command is that one.  A       *)
(* program has one STOP, at its end, so whatever else succeeds has a       *)
(* command behind it, and what a completed program leaves behind is        *)
(* changed by no stop that comes later.                                    *)
(***************************************************************************)
InProgram == {"Running", "Waiting", "Pausing", "Paused"}

AllRan == next = Len(program) + 1 /\ ~moving

ProgressInv ==
  /\ lifecycle \in InProgram =>
       /\ Accepts(program) /\ next \in DOMAIN program
       /\ HasActive => active.index = next /\ active.type = program[next].type
  /\ lifecycle = "Waiting" => HasActive
  /\ lifecycle = "Pausing" => active.type = "MOVEJ"
  /\ stop.disp = "ProgramComplete" => active.type = "STOP" /\ next = Len(program)
  /\ outcome = "ProgramCompleted" =>
       AllRan /\ lifecycle \notin InProgram /\ stop.disp # "ProgramComplete"

LEMMA NextInProgram ==
  ASSUME TypeOK, Accepts(program), next \in DOMAIN program, program[next].type # "STOP"
  PROVE  next + 1 \in DOMAIN program
<1>1. program \in Seq(Command) /\ DOMAIN program = 1 .. Len(program) /\ Len(program) \in Nat
  BY LenProperties DEF TypeOK
<1>2. next # Len(program)
  BY <1>1, StopEndsProgram
<1> QED
  BY <1>1, <1>2

\* A step after which no program is in progress.
LEMMA OutProgress ==
  ASSUME lifecycle' \notin InProgram, stop'.disp # "ProgramComplete",
         outcome' = "ProgramCompleted" => AllRan'
  PROVE  ProgressInv'
BY DEF ProgressInv, InProgram

LEMMA FinishProgress ==
  /\ \A conn, disabled, distrust, prim :
       FinishFault(conn, disabled, distrust, prim) => ProgressInv'
  /\ \A result, disabled, prim :
       FinishTerminal(result, disabled, prim) /\ (result = "ProgramCompleted" => AllRan')
         => ProgressInv'
<1>1. ASSUME NEW conn, NEW disabled, NEW distrust, NEW prim,
             FinishFault(conn, disabled, distrust, prim)
      PROVE  ProgressInv'
  <2>1. lifecycle' = "Faulted" /\ stop' = NoStop /\ outcome' = "Faulted"
    BY <1>1 DEF FinishFault
  <2> QED
    BY <2>1, OutProgress DEF NoStop, InProgram
<1>2. ASSUME NEW result, NEW disabled, NEW prim, FinishTerminal(result, disabled, prim),
             result = "ProgramCompleted" => AllRan'
      PROVE  ProgressInv'
  <2>1. CASE /\ stop' = NoStop /\ outcome' = result
             /\ lifecycle' = IF result = "EmergencyStopped" THEN "EmergencyStopped" ELSE "Stopped"
    BY <1>2, <2>1, OutProgress DEF NoStop, InProgram
  <2> QED
    BY <1>1, <1>2, <2>1 DEF FinishTerminal
<1> QED
  BY <1>1, <1>2

LEMMA BeginStopProgress ==
  ASSUME NEW q, NEW disp \in Dispositions, NEW command, NEW prim,
         BeginStop(q, disp, command, prim),
         disp = "Pause" =>
           /\ Accepts(program') /\ next' \in DOMAIN program'
           /\ command.type = "MOVEJ" /\ command.index = next' /\ program'[next'].type = "MOVEJ"
           /\ outcome # "ProgramCompleted",
         disp = "ProgramComplete" =>
           command.type = "STOP" /\ next' = Len(program') /\ outcome # "ProgramCompleted",
         outcome = "ProgramCompleted" => AllRan'
  PROVE  ProgressInv'
<1> DEFINE episode == [id |-> nextStop, disp |-> disp,
                       deadline |-> SaturatingAdd(now', StopTimeout)]
<1>1. \/ FailStop(TRUE, prim)
      \/ /\ lifecycle' = StopLifecycle(disp) /\ stop' = episode /\ active' = command
         /\ outcome' = outcome
  BY Zenon DEF BeginStop
<1>2. episode.disp = disp
  OBVIOUS
<1> HIDE DEF episode
<1>3. CASE FailStop(TRUE, prim)
  BY <1>3, FinishProgress DEF FailStop
<1>4. CASE /\ lifecycle' = StopLifecycle(disp) /\ stop' = episode /\ active' = command
           /\ outcome' = outcome
  <2>1. CASE disp = "Pause"
    <3>1. lifecycle' = "Pausing" /\ stop'.disp = "Pause"
      BY <1>2, <1>4, <2>1 DEF StopLifecycle
    <3> QED
      BY <1>4, <2>1, <3>1 DEF ProgressInv, InProgram
  <2>2. CASE disp = "ProgramComplete"
    <3>1. lifecycle' = "Stopping" /\ stop'.disp = "ProgramComplete"
      BY <1>2, <1>4, <2>2 DEF StopLifecycle
    <3> QED
      BY <1>4, <2>2, <3>1 DEF ProgressInv, InProgram
  <2>3. CASE disp \notin {"Pause", "ProgramComplete"}
    <3>1. lifecycle' \notin InProgram /\ stop'.disp = disp
      BY <1>2, <1>4, <2>3 DEF StopLifecycle, InProgram
    <3> QED
      BY <1>4, <2>3, <3>1, OutProgress
  <2> QED
    BY <2>1, <2>2, <2>3
<1> QED
  BY <1>1, <1>3, <1>4

LEMMA BeginFaultProgress ==
  ASSUME NEW q, NEW conn, NEW kind, NEW command, BeginFault(q, conn, kind, command),
         outcome = "ProgramCompleted" => AllRan'
  PROVE  ProgressInv'
BY BeginStopProgress, FinishProgress DEF BeginFault, Dispositions

\* A step that leaves the place in the program alone.
LEMMA SameProgress ==
  ASSUME ProgressInv, UNCHANGED <<lifecycle, program, next, stop, outcome, moving>>,
         \/ active' = active
         \/ /\ HasActive /\ active' # NoCommand
            /\ active'.index = active.index /\ active'.type = active.type
  PROVE  ProgressInv'
BY DEF ProgressInv, AllRan, HasActive

LEMMA SucceedProgress ==
  ASSUME TypeOK, ProgressInv, HasActive, lifecycle \in InProgram, active.type # "STOP",
         stop = NoStop, NEW q, Succeed(q), UNCHANGED program
  PROVE  ProgressInv'
<1>1. Accepts(program) /\ next \in DOMAIN program /\ program[next].type # "STOP"
  BY DEF ProgressInv
<1>2. next + 1 \in DOMAIN program
  BY <1>1, NextInProgram
<1>3. outcome # "ProgramCompleted"
  BY DEF ProgressInv
<1> QED
  BY <1>1, <1>2, <1>3 DEF Succeed, ProgressInv, NoStop, HasActive

LEMMA HostProgress ==
  ASSUME ProgressInv,
         \/ \E p \in Programs : SubmitProgram(p)
         \/ \E c \in ControlsUsed : SubmitControl(c)
         \/ HostAdvancesClock
  PROVE  ProgressInv'
<1>1. ASSUME NEW p \in Programs, SubmitProgram(p) PROVE ProgressInv'
  <2>1. program' = p /\ next' = 1 /\ active' = NoCommand /\ stop' = NoStop
    BY <1>1 DEF SubmitProgram, PrepareResult
  <2>2. CASE Accepts(p) /\ lifecycle' = "Running" /\ outcome' = "None"
    <3>1. p \in Seq(Command)
      BY SessionAssumption
    <3>2. DOMAIN p = 1 .. Len(p) /\ Len(p) \in Nat \ {0}
      BY <2>2, <3>1, StopEndsProgram, LenProperties
    <3> QED
      BY <2>1, <2>2, <3>2 DEF ProgressInv, NoStop, HasActive
  <2>3. CASE lifecycle' = "Faulted" /\ outcome' = "Faulted"
    BY <2>1, <2>3, OutProgress DEF NoStop, InProgram
  <2> QED
    BY <1>1, <2>2, <2>3 DEF SubmitProgram
<1>2. CASE (\E c \in ControlsUsed : SubmitControl(c)) \/ HostAdvancesClock
  BY <1>2, SameProgress DEF SubmitControl, HostAdvancesClock, taskVars
<1> QED
  BY <1>1, <1>2

LEMMA ControlProgress ==
  ASSUME ContractInv, ProgressInv, HandleControl
  PROVE  ProgressInv'
<1>0. /\ TypeOK /\ EpisodeInv
      /\ HasActive => active \in ActiveCommands
      /\ active.type \in {"MOVEJ", "DELAY", "WAIT_DI", "SET_TOOL"} => HasActive
      /\ lifecycle \in {"Running", "Waiting", "Paused"} => stop = NoStop
  <2>1. TypeOK /\ EpisodeInv
    BY ContractInvFacts
  <2>2. lifecycle \in {"Running", "Waiting", "Paused"} => stop = NoStop
    BY <2>1, PendingWatched DEF StopLifecycles, EpisodeInv, StopPending
  <2> QED
    BY <2>1, <2>2, ActiveFacts DEF HasActive, NoCommand
<1>1. CASE ControlWithoutEffect \/ ResetRejected
  BY <1>1, SameProgress DEF ControlWithoutEffect, ResetRejected, Drop, taskVars
<1>2. CASE PauseBetweenCommands \/ ResumeBetweenCommands
  BY <1>2 DEF PauseBetweenCommands, ResumeBetweenCommands, Frame, ProgressInv, InProgram, HasActive
<1>3. CASE PauseLocalWait
  <2>1. HasActive /\ lifecycle \in InProgram
    BY <1>0, <1>3 DEF PauseLocalWait, LocalWait, InProgram
  <2>2. /\ active' = [active EXCEPT !.remaining = Remaining, !.deadline = NoDeadline, !.gen = @ + 1]
        /\ lifecycle' = "Paused" /\ UNCHANGED <<next, stop, outcome, moving, program>>
    BY <1>3 DEF PauseLocalWait, Frame
  <2>3. active'.index = active.index /\ active'.type = active.type
    BY <1>0, <2>1, <2>2 DEF ActiveCommands
  <2> QED
    BY <2>1, <2>2, <2>3 DEF ProgressInv, InProgram
<1>4. CASE PauseMotion
  <2>1. HasActive /\ lifecycle \in InProgram /\ active.type = "MOVEJ"
    BY <1>0, <1>4 DEF PauseMotion, InProgram
  <2> DEFINE command == [active EXCEPT !.remaining = Remaining]
  <2>2. command.index = active.index /\ command.type = active.type
    BY <1>0, <2>1 DEF ActiveCommands
  <2>3. BeginStop(Tail(queue), "Pause", command, primary) /\ UNCHANGED <<next, program>>
    BY <1>4 DEF PauseMotion, Frame
  <2> HIDE DEF command
  <2>4. /\ Accepts(program') /\ next' \in DOMAIN program'
        /\ command.type = "MOVEJ" /\ command.index = next' /\ program'[next'].type = "MOVEJ"
        /\ outcome # "ProgramCompleted"
    BY <2>1, <2>2, <2>3 DEF ProgressInv
  <2> QED
    BY <2>3, <2>4, BeginStopProgress DEF Dispositions
<1>5. CASE ResumeMotion \/ ResumeLocalWait
  <2>1. HasActive /\ lifecycle = "Paused" /\ active' = Resumed
    BY <1>0, <1>5 DEF ResumeMotion, ResumeLocalWait, LocalWait
  <2>2. active'.index = active.index /\ active'.type = active.type /\ active' # NoCommand
    <3>1. active'.index = active.index /\ active'.type = active.type /\ active.type \in CommandTypes
      BY <1>0, <2>1 DEF Resumed, ActiveCommands
    <3> QED
      BY <3>1 DEF NoCommand, CommandTypes
  <2>3. lifecycle' \in {"Running", "Waiting"} /\ UNCHANGED <<next, stop, outcome, program>>
    BY <1>5 DEF ResumeMotion, ResumeLocalWait, Frame
  <2> QED
    BY <2>1, <2>2, <2>3 DEF ProgressInv, InProgram, HasActive
<1>6. CASE ResumeMotionFails \/ ResumePastTimeRange
  <2>1. lifecycle = "Paused"
    BY <1>6 DEF ResumeMotionFails, ResumePastTimeRange
  <2>2. outcome # "ProgramCompleted"
    BY <2>1 DEF ProgressInv, InProgram
  <2> QED
    BY <1>6, <2>2, BeginFaultProgress DEF ResumeMotionFails, ResumePastTimeRange, ResumeFault
<1>7. CASE ResumeSatisfiedWait
  <2>1. HasActive /\ lifecycle = "Paused" /\ active.type # "STOP"
    BY <1>0, <1>7 DEF ResumeSatisfiedWait
  <2> QED
    BY <1>0, <1>7, <2>1, SucceedProgress DEF ResumeSatisfiedWait, Frame, InProgram
<1>8. CASE Stop
  <2>1. lifecycle \in InProgram /\ UNCHANGED <<next, program, moving>>
    BY <1>8 DEF Stop, InProgram, Frame
  <2>2. outcome # "ProgramCompleted"
    BY <2>1 DEF ProgressInv
  <2>3. CASE StopPending
    BY <1>8, <2>1, <2>3, SameProgress DEF Stop, taskVars
  <2>4. CASE ~StopPending
    BY <1>8, <2>2, <2>4, BeginStopProgress, FinishProgress DEF Stop, Dispositions
  <2> QED
    BY <2>3, <2>4
<1>9. CASE Estop
  <2>1. UNCHANGED <<next, program, moving>>
    BY <1>9 DEF Estop, Frame
  <2>2. outcome = "ProgramCompleted" => AllRan'
    BY <2>1 DEF ProgressInv, AllRan
  <2>3. CASE StopPending
    <3>1. stop \in StopEpisodes
      BY <1>0, <2>3 DEF TypeOK, StopPending
    <3>2. stop'.disp = "Emergency" /\ lifecycle' = "EmergencyStopping" /\ outcome' = outcome
      BY <1>9, <2>3, <3>1 DEF Estop, StopEpisodes
    <3> QED
      BY <2>2, <3>2, OutProgress DEF InProgram
  <2>4. CASE ~StopPending
    BY <1>9, <2>2, <2>4, BeginStopProgress, FinishProgress DEF Estop, Dispositions
  <2> QED
    BY <2>3, <2>4
<1>10. CASE Reset
  <2>1. lifecycle' = "Idle" /\ stop' = NoStop /\ outcome' = "None"
    BY <1>10 DEF Reset, ResetAllowed, StopPending
  <2> QED
    BY <2>1, OutProgress DEF NoStop, InProgram
<1> QED
  BY <1>1, <1>2, <1>3, <1>4, <1>5, <1>6, <1>7, <1>8, <1>9, <1>10 DEF HandleControl

LEMMA EventProgress ==
  ASSUME ContractInv, ProgressInv, HandleEvent, ~HandleControl
  PROVE  ProgressInv'
<1>0. /\ TypeOK /\ EpisodeInv
      /\ active.type \in {"MOVEJ", "DELAY", "WAIT_DI", "SET_TOOL"} => HasActive
      /\ lifecycle \in {"Running", "Waiting", "Paused"} => stop = NoStop
  <2>1. TypeOK /\ EpisodeInv
    BY ContractInvFacts
  <2>2. lifecycle \in {"Running", "Waiting", "Paused"} => stop = NoStop
    BY <2>1, PendingWatched DEF StopLifecycles, EpisodeInv, StopPending
  <2> QED
    BY <2>1, <2>2 DEF HasActive, NoCommand
<1>1. CASE \/ StaleMotionPoll \/ StaleDelayComplete \/ StaleTimeout \/ StaleStopPoll
           \/ MotionRunning \/ StillStopping \/ (StopDeadline /\ ~StopDeadlinePassed)
  BY <1>1, SameProgress
     DEF StaleMotionPoll, StaleDelayComplete, StaleTimeout, StaleStopPoll, MotionRunning,
         StillStopping, StopDeadline, Drop, taskVars, Frame
<1>2. CASE MotionSucceeded \/ DelayComplete
  <2>1. HasActive /\ lifecycle \in {"Running", "Waiting"} /\ active.type # "STOP"
    BY <1>2 DEF MotionSucceeded, PollIsCurrent, DelayComplete, DelayIsOver
  <2> QED
    BY <1>0, <1>2, <2>1, SucceedProgress DEF MotionSucceeded, DelayComplete, Frame, InProgram
<1>3. CASE MotionFails \/ CommandTimeout \/ ConnectionLoss
  <2>1. UNCHANGED <<next, program, moving>>
    BY <1>3 DEF MotionFails, CommandTimeout, ConnectionLoss, Frame
  <2>2. outcome = "ProgramCompleted" => AllRan'
    BY <2>1 DEF ProgressInv, AllRan
  <2> QED
    BY <1>3, <2>2, BeginFaultProgress DEF MotionFails, CommandTimeout, ConnectionLoss
<1>4. CASE StopPollFails \/ (StopDeadline /\ StopDeadlinePassed)
  BY <1>4, FinishProgress DEF StopPollFails, StopDeadline, FailStop
<1>5. CASE FaultStopConfirmed \/ EmergencyStopConfirmed \/ OperatorStopConfirmed
  <2>1. \A disabled, prim :
          /\ FinishTerminal("EmergencyStopped", disabled, prim) => ProgressInv'
          /\ FinishTerminal("OperatorStopped", disabled, prim) => ProgressInv'
    BY FinishProgress
  <2>2. \A conn, disabled, distrust, prim :
          FinishFault(conn, disabled, distrust, prim) => ProgressInv'
    BY FinishProgress
  <2> QED
    BY <1>5, <2>1, <2>2, Zenon
       DEF FaultStopConfirmed, EmergencyStopConfirmed, OperatorStopConfirmed
<1>6. CASE ProgramStopConfirmed
  <2>1. stop.disp = "ProgramComplete" /\ ~moving' /\ program' = program
    BY <1>6 DEF ProgramStopConfirmed, StopConfirmed, Resolve, Frame
  <2>2. HasActive /\ next = Len(program)
    BY <2>1 DEF ProgressInv, HasActive, NoCommand
  <2>3. next' = next + 1
    BY <1>6, <2>2 DEF ProgramStopConfirmed
  <2>4. AllRan'
    BY <2>1, <2>2, <2>3 DEF AllRan
  <2> QED
    BY <1>6, <2>4, FinishProgress DEF ProgramStopConfirmed
<1>7. CASE PauseConfirmed
  <2>1. HasActive /\ lifecycle = "Pausing" /\ active \in ActiveCommands
    <3>1. stop.disp = "Pause" /\ StopPending
      BY <1>7 DEF PauseConfirmed, StopConfirmed, OwnEpisode
    <3>2. HasActive
      BY <1>0, <3>1 DEF EpisodeInv, PauseHasCommand
    <3>3. lifecycle = StopLifecycle("Pause")
      BY <1>0, <3>1 DEF EpisodeInv, StopEpisodeWatched
    <3> QED
      BY <1>0, <3>2, <3>3, ActiveFacts DEF StopLifecycle
  <2>2. /\ active' = [active EXCEPT !.gen = @ + 1] /\ lifecycle' = "Paused" /\ stop' = NoStop
        /\ UNCHANGED <<next, program, outcome>>
    BY <1>7, <2>1 DEF PauseConfirmed, StopConfirmed, Resolve, Frame
  <2>3. active'.index = active.index /\ active'.type = active.type
    BY <2>1, <2>2 DEF ActiveCommands
  <2> QED
    BY <2>1, <2>2, <2>3 DEF ProgressInv, InProgram, NoStop
<1>8. CASE InputChange
  <2>1. CASE InputSatisfies(Head(queue))
    <3>1. HasActive /\ lifecycle \in {"Running", "Waiting"} /\ active.type # "STOP"
      BY <1>0, <2>1 DEF InputSatisfies
    <3> QED
      BY <1>0, <1>8, <2>1, <3>1, SucceedProgress DEF InputChange, Frame, InProgram
  <2>2. CASE ~InputSatisfies(Head(queue))
    BY <1>8, <2>2, SameProgress DEF InputChange, taskVars, Frame
  <2> QED
    BY <2>1, <2>2
<1> QED
  BY <1>1, <1>2, <1>3, <1>4, <1>5, <1>6, <1>7, <1>8 DEF HandleEvent

LEMMA NextCommandProgress ==
  ASSUME ContractInv, ProgressInv, HandleNextCommand
  PROVE  ProgressInv'
<1>0. /\ TypeOK /\ lifecycle \in {"Running", "Waiting"} /\ ~HasActive /\ stop = NoStop
      /\ Accepts(program) /\ next \in DOMAIN program /\ outcome # "ProgramCompleted"
      /\ lifecycle = "Running"
  <2>1. TypeOK /\ lifecycle \in {"Running", "Waiting"} /\ ~HasActive /\ stop = NoStop
    BY NextCommandCalls, CallsIdle, ContractInvFacts DEF ContractInv, StopPending
  <2> QED
    BY <2>1 DEF ProgressInv, InProgram
<1>1. program[next].type # "STOP" => next + 1 \in DOMAIN program
  BY <1>0, NextInProgram
<1>2. CASE ConnectFails \/ ServoCommandThrows \/ StartPastTimeRange \/ StartMotionFails
  BY <1>0, <1>2, BeginFaultProgress
     DEF ConnectFails, ServoCommandThrows, StartPastTimeRange, StartMotionFails, StartFault
<1>3. CASE ServoCommand \/ SetDo \/ ZeroDelay \/ WaitAlreadySatisfied
  <2>1. program[next].type # "STOP"
    BY <1>3 DEF ServoCommand, SetDo, ZeroDelay, WaitAlreadySatisfied, Start
  <2>2. /\ next' = next + 1 /\ active' = NoCommand /\ lifecycle' = "Running"
        /\ UNCHANGED <<program, outcome, stop>>
    BY <1>0, <1>3 DEF ServoCommand, SetDo, ZeroDelay, Pass, WaitAlreadySatisfied, Frame, HasActive
  <2> QED
    BY <1>0, <1>1, <2>1, <2>2 DEF ProgressInv, NoStop, HasActive
<1>4. CASE StartMotion \/ StartDelay \/ StartWait
  <2>1. /\ active' = Activate(program[next]) /\ lifecycle' \in {"Running", "Waiting"}
        /\ UNCHANGED <<program, next, outcome, stop>>
    BY <1>4 DEF StartMotion, StartDelay, StartWait, Begin, Frame
  <2>2. active'.index = next /\ active'.type = program[next].type
    BY <2>1 DEF Activate
  <2>3. active' # NoCommand
    BY <1>0, <2>2 DEF TypeOK, NoCommand
  <2> QED
    BY <1>0, <2>1, <2>2, <2>3 DEF ProgressInv, NoStop, HasActive
<1>5. CASE StopCommand
  <2> DEFINE a == [index |-> next, type |-> "STOP", deadline |-> NoDeadline, remaining |-> 0,
                   gen |-> 1]
  <2>1. program[next].type = "STOP" /\ BeginStop(queue, "ProgramComplete", a, primary)
        /\ UNCHANGED <<program, next>>
    BY <1>5 DEF StopCommand, Start, Frame
  <2>2. next = Len(program)
    BY <1>0, <2>1, StopEndsProgram DEF TypeOK
  <2>3. a.type = "STOP"
    OBVIOUS
  <2> HIDE DEF a
  <2> QED
    BY <1>0, <2>1, <2>2, <2>3, BeginStopProgress DEF Dispositions
<1> QED
  BY <1>2, <1>3, <1>4, <1>5 DEF HandleNextCommand

LEMMA ProgressStep ==
  ASSUME ContractInv, ProgressInv, [Next]_vars
  PROVE  ProgressInv'
<1>1. CASE UNCHANGED vars
  BY <1>1, SameProgress DEF vars
<1> QED
  BY <1>1, HostProgress, ControlProgress, EventProgress, NextCommandProgress DEF Next, Advance

LEMMA ProgressHolds == Spec => [](ContractInv /\ ProgressInv)
<1>1. Init => ProgressInv
  BY DEF Init, ProgressInv, InProgram, NoStop
<1>2. ContractInv /\ ProgressInv /\ [Next]_vars => ProgressInv'
  BY ProgressStep
<1>3. KnownInv /\ StandsStill => ContractInv
  BY DEF ContractInv
<1> QED
  BY <1>1, <1>2, <1>3, KnownHolds, StillWhenReported, PTL DEF Spec

(***************************************************************************)
(* HandleNextCommand is reached only between two commands of a program     *)
(* that has a command left: nothing is submitted twice, and "program ended *)
(* without a terminal command" is never reported (runtime.cpp, Advance).   *)
(***************************************************************************)
THEOREM ProgramIsKept == Spec => []StaysInProgram
<1>1. ContractInv /\ ProgressInv => StaysInProgram
  <2> SUFFICES ASSUME ContractInv, ProgressInv, CallsNextCommand
               PROVE  lifecycle = "Running" /\ ~HasActive /\ ~StopPending /\ next \in DOMAIN program
    BY DEF StaysInProgram
  <2> QED
    BY CallsIdle DEF ContractInv, ProgressInv, InProgram
<1> QED
  BY <1>1, ProgressHolds, PTL

(***************************************************************************)
(* ProgramCompleted is reported only with every command passed and the     *)
(* device still, and stays true of what follows (runtime.cpp,              *)
(* HandleStopConfirmed, FinishTerminal).                                   *)
(***************************************************************************)
THEOREM CompletedRanAll == Spec => []CompletedMeansAllRan
<1>1. ProgressInv => CompletedMeansAllRan
  BY DEF ProgressInv, AllRan, CompletedMeansAllRan
<1> QED
  BY <1>1, ProgressHolds, PTL
-----------------------------------------------------------------------------
(***************************************************************************)
(* EarnedSuccess rests on the delays in the queue.  HandleDelayComplete    *)
(* compares the generation of an event and not its index, and generations  *)
(* start anew with every command: that a delay is not ended by the event   *)
(* of another one, or by one from before a pause, holds because the events *)
(* of one delay are in the queue in the order of their generations, none   *)
(* is due after the present deadline, and none is left when it ends.       *)
(***************************************************************************)
Delays(q) == {i \in DOMAIN q : q[i].type = "DelayComplete"}

InLine(q, gen, limit) ==
  /\ \A i \in Delays(q) :
       q[i].prio = CommandCompletion /\ q[i].gen <= gen /\ q[i].time <= limit
  /\ \A i, j \in Delays(q) : i < j => q[i].gen < q[j].gen

\* Until when the active delay lasts, at the earliest.
Limit == IF lifecycle = "Paused" THEN now + active.remaining ELSE active.deadline

DelayInv ==
  lifecycle \in InProgram =>
    /\ active.type # "DELAY" => Delays(queue) = {}
    /\ active.type = "DELAY" => InLine(queue, active.gen, Limit)
    /\ active.type = "DELAY" /\ lifecycle \in Working =>
         \A i \in Delays(queue) : queue[i].gen = active.gen => queue[i].time = active.deadline

\* The delays of p are delays of q, in the same order.
Fewer(p, q) ==
  /\ \A i \in Delays(p) : \E a \in Delays(q) : p[i] = q[a]
  /\ \A i, j \in Delays(p) : i < j => \E a, b \in Delays(q) : a < b /\ p[i] = q[a] /\ p[j] = q[b]

LEMMA FewerInLine ==
  ASSUME NEW p, NEW q, Fewer(p, q)
  PROVE  /\ Delays(q) = {} => Delays(p) = {}
         /\ \A gen, limit : InLine(q, gen, limit) => InLine(p, gen, limit)
<1>1. Delays(q) = {} => Delays(p) = {}
  BY DEF Fewer
<1>2. ASSUME NEW gen, NEW limit, InLine(q, gen, limit) PROVE InLine(p, gen, limit)
  <2>1. ASSUME NEW i \in Delays(p)
        PROVE  p[i].prio = CommandCompletion /\ p[i].gen <= gen /\ p[i].time <= limit
    BY <1>2 DEF Fewer, InLine
  <2>2. ASSUME NEW i \in Delays(p), NEW j \in Delays(p), i < j
        PROVE  p[i].gen < p[j].gen
    BY <1>2, <2>2 DEF Fewer, InLine
  <2> QED
    BY <2>1, <2>2 DEF InLine
<1> QED
  BY <1>1, <1>2

LEMMA FewerSame == ASSUME NEW q PROVE Fewer(q, q)
BY DEF Fewer

LEMMA FewerTail ==
  ASSUME NEW q \in Seq(Event), q # <<>>
  PROVE  Fewer(Tail(q), q)
<1>1. /\ Tail(q) \in Seq(Event) /\ Len(Tail(q)) = Len(q) - 1
      /\ \A i \in 1 .. Len(q) - 1 : Tail(q)[i] = q[i + 1]
  BY HeadTailProperties
<1>2. DOMAIN q = 1 .. Len(q) /\ Len(q) \in Nat /\ DOMAIN Tail(q) = 1 .. Len(q) - 1
  BY <1>1, LenProperties
<1>3. ASSUME NEW i \in Delays(Tail(q)) PROVE i + 1 \in Delays(q) /\ Tail(q)[i] = q[i + 1]
  BY <1>1, <1>2 DEF Delays
<1>4. ASSUME NEW i \in Delays(Tail(q)), NEW j \in Delays(Tail(q)), i < j
      PROVE  i + 1 < j + 1
  BY <1>2, <1>4 DEF Delays
<1> QED
  BY <1>3, <1>4 DEF Fewer

LEMMA EventTimes == /\ Timed(Event)
                    /\ \A e \in Event : e.time \in Nat /\ e.prio \in Nat
<1>1. \A e \in Event : e.time \in Nat /\ e.prio \in Nat
  BY SessionAssumption
     DEF Event, ControlEvents, CommandEvents, StopEvents, InputEvents, LossEvents, Time
<1> QED
  BY <1>1 DEF Timed

LEMMA FewerSchedule ==
  ASSUME NEW p, NEW q, OrderedQueue(q), Fewer(q, p), NEW e \in Event, e.type # "DelayComplete"
  PROVE  Fewer(Schedule(q, e), p)
<1> DEFINE s == Schedule(q, e)
<1>1. q \in Seq(Event) /\ Ordered(q) /\ Timed(Event)
  BY EventTimes DEF OrderedQueue
<1>2. \A n \in DOMAIN s : s[n] = e \/ \E i \in DOMAIN q : s[n] = q[i]
  BY <1>1, ScheduleElements
<1>3. \A i, j \in DOMAIN s : i < j =>
           \/ \E a, b \in DOMAIN q : a < b /\ s[i] = q[a] /\ s[j] = q[b]
           \/ s[j] = e
           \/ s[i] = e
  BY <1>1, SchedulePairs
<1> HIDE DEF s
<1>4. ASSUME NEW i \in Delays(s) PROVE \E a \in Delays(p) : s[i] = p[a]
  <2>1. PICK n \in DOMAIN q : s[i] = q[n]
    BY <1>2 DEF Delays
  <2>2. n \in Delays(q)
    BY <2>1 DEF Delays
  <2> QED
    BY <2>1, <2>2 DEF Fewer
<1>5. ASSUME NEW i \in Delays(s), NEW j \in Delays(s), i < j
      PROVE  \E a, b \in Delays(p) : a < b /\ s[i] = p[a] /\ s[j] = p[b]
  <2>1. PICK m, n \in DOMAIN q : m < n /\ s[i] = q[m] /\ s[j] = q[n]
    BY <1>3, <1>5 DEF Delays
  <2>2. m \in Delays(q) /\ n \in Delays(q)
    BY <2>1 DEF Delays
  <2> QED
    BY <2>1, <2>2 DEF Fewer
<1>6. Fewer(s, p)
  BY <1>4, <1>5 DEF Fewer
<1> QED
  BY <1>6 DEF s

\* A delay that starts or goes on is behind the earlier events of its own.
LEMMA DelayInLine ==
  ASSUME NEW q, OrderedQueue(q), NEW a \in ActiveCommands, a.deadline \in Time,
         NEW gen, InLine(q, gen, a.deadline), gen < a.gen, gen \in Nat
  PROVE  LET s == Schedule(q, DelayCompleteEvent(a)) IN
         /\ InLine(s, a.gen, a.deadline)
         /\ \A i \in Delays(s) : s[i].gen = a.gen => s[i].time = a.deadline
<1> DEFINE e == DelayCompleteEvent(a)
           s == Schedule(q, e)
<1>0. /\ e \in Event /\ e.type = "DelayComplete" /\ e.prio = CommandCompletion
      /\ e.gen = a.gen /\ e.time = a.deadline /\ a.gen \in Nat /\ a.deadline \in Nat
  BY EventTypes, SessionAssumption DEF DelayCompleteEvent, ActiveCommands, Time
<1>1. q \in Seq(Event) /\ Ordered(q) /\ Timed(Event)
  BY EventTimes DEF OrderedQueue
<1> HIDE DEF e
<1>2. \A n \in DOMAIN s : s[n] = e \/ \E i \in DOMAIN q : s[n] = q[i]
  BY <1>0, <1>1, ScheduleElements
<1>3. \A i, j \in DOMAIN s : i < j =>
           \/ \E m, n \in DOMAIN q : m < n /\ s[i] = q[m] /\ s[j] = q[n]
           \/ s[j] = e /\ \E m \in DOMAIN q : s[i] = q[m]
           \/ s[i] = e /\ \E n \in DOMAIN q : s[j] = q[n] /\ Precedes(e, q[n])
  BY <1>0, <1>1, SchedulePairs
<1>4. \A n \in DOMAIN q : q[n] \in Event
  BY <1>1, LenProperties, ElementOfSeq
<1>41. \A n \in Delays(q) : q[n].gen \in Nat /\ q[n].gen <= gen
  <2>1. \A d \in Event : d.type = "DelayComplete" => d.gen \in Nat
    BY DEF Event, ControlEvents, CommandEvents, StopEvents, InputEvents, LossEvents
  <2> QED
    BY <1>4, <2>1 DEF InLine, Delays
<1> HIDE DEF s
<1>5. ASSUME NEW i \in Delays(s)
      PROVE  /\ s[i].prio = CommandCompletion /\ s[i].gen <= a.gen /\ s[i].time <= a.deadline
             /\ s[i].gen = a.gen => s[i].time = a.deadline
  <2>1. CASE s[i] = e
    BY <1>0, <2>1
  <2>2. ASSUME NEW n \in DOMAIN q, s[i] = q[n]
        PROVE  /\ s[i].prio = CommandCompletion /\ s[i].gen <= a.gen /\ s[i].time <= a.deadline
               /\ s[i].gen # a.gen
    <3>1. n \in Delays(q)
      BY <2>2 DEF Delays
    <3> QED
      BY <1>0, <1>41, <2>2, <3>1 DEF InLine
  <2> QED
    BY <1>2, <2>1, <2>2 DEF Delays
<1>6. ASSUME NEW i \in Delays(s), NEW j \in Delays(s), i < j
      PROVE  s[i].gen < s[j].gen
  <2>1. ASSUME NEW m \in DOMAIN q, NEW n \in DOMAIN q, m < n, s[i] = q[m], s[j] = q[n]
        PROVE  s[i].gen < s[j].gen
    <3>1. m \in Delays(q) /\ n \in Delays(q)
      BY <2>1 DEF Delays
    <3> QED
      BY <2>1, <3>1 DEF InLine
  <2>2. ASSUME s[j] = e, NEW m \in DOMAIN q, s[i] = q[m]
        PROVE  s[i].gen < s[j].gen
    <3>1. m \in Delays(q)
      BY <2>2 DEF Delays
    <3> QED
      BY <1>0, <1>41, <2>2, <3>1
  <2>3. ASSUME NEW n \in DOMAIN q, s[j] = q[n], Precedes(e, q[n])
        PROVE  FALSE
    <3>1. n \in Delays(q)
      BY <2>3 DEF Delays
    <3>2. q[n].time <= a.deadline /\ q[n].prio = CommandCompletion /\ q[n].time \in Nat
      BY <1>4, <3>1, EventTimes DEF InLine, Delays
    <3> QED
      BY <1>0, <2>3, <3>2 DEF Precedes, CommandCompletion
  <2> QED
    BY <1>3, <1>6, <2>1, <2>2, <2>3 DEF Delays
<1>7. InLine(s, a.gen, a.deadline) /\ \A i \in Delays(s) : s[i].gen = a.gen => s[i].time = a.deadline
  BY <1>5, <1>6 DEF InLine
<1> QED
  BY <1>7 DEF s, e
LEMMA QueueAdd ==
  ASSUME NEW p, NEW q, OrderedQueue(q), Fewer(q, p), NEW e \in Event, e.type # "DelayComplete"
  PROVE  OrderedQueue(Schedule(q, e)) /\ Fewer(Schedule(q, e), p)
BY OrderSchedule, FewerSchedule

LEMMA QueueTake ==
  ASSUME TypeOK, OrderedQueue(queue), NEW type, Take(type)
  PROVE  /\ OrderedQueue(Tail(queue)) /\ Fewer(Tail(queue), queue)
         /\ now \in Nat /\ now' \in Nat /\ now <= now' /\ now' \in Time
<1>1. queue # <<>> /\ queue \in Seq(Event) /\ Head(queue).time \in Nat
  BY TakeTyped, HeadTyped, SessionAssumption DEF TypeOK, Time
<1>2. now \in Nat /\ now' = Greatest(now, Head(queue).time)
  BY SessionAssumption DEF Take, TypeOK, Time
<1> QED
  BY <1>1, <1>2, OrderTake, FewerTail DEF Greatest

\* The events a session schedules for other things than a delay.
LEMMA OtherEvents ==
  /\ \A t, a : MotionPollEvent(t, a).type # "DelayComplete" /\ TimeoutEvent(a).type # "DelayComplete"
  /\ \A t, s : StopPollEvent(t, s).type # "DelayComplete" /\ StopTimeoutEvent(s).type # "DelayComplete"
  /\ \A t, c : ControlEvent(t, c).type # "DelayComplete"
BY DEF MotionPollEvent, TimeoutEvent, StopPollEvent, StopTimeoutEvent, ControlEvent

LEMMA KeptDelay ==
  ASSUME TypeOK, DelayInv, now \in Nat, now' \in Nat, now <= now', UNCHANGED <<lifecycle, active>>,
         Fewer(queue', queue)
  PROVE  DelayInv'
<1> SUFFICES ASSUME lifecycle \in InProgram
             PROVE  /\ active.type # "DELAY" => Delays(queue') = {}
                    /\ active.type = "DELAY" => InLine(queue', active.gen, Limit')
                    /\ active.type = "DELAY" /\ lifecycle \in Working =>
                         \A i \in Delays(queue') : queue'[i].gen = active.gen =>
                                                     queue'[i].time = active.deadline
  BY DEF DelayInv, Delays, InLine
<1>1. active.type # "DELAY" => Delays(queue') = {}
  BY FewerInLine DEF DelayInv
<1>2. ASSUME active.type = "DELAY" PROVE InLine(queue', active.gen, Limit')
  <2>1. InLine(queue', active.gen, Limit)
    BY <1>2, FewerInLine DEF DelayInv
  <2>2. CASE lifecycle = "Paused"
    <3>1. active.remaining \in Nat
      BY <1>2, ActiveFacts DEF HasActive, NoCommand
    <3>2. \A i \in Delays(queue') : queue'[i].time <= now + active.remaining
      BY <2>1, <2>2 DEF InLine, Limit
    <3>3. queue \in Seq(Event) /\ \A n \in DOMAIN queue : queue[n] \in Event
      BY LenProperties, ElementOfSeq DEF TypeOK
    <3>4. \A i \in Delays(queue') : queue'[i].time \in Nat
      BY <3>3, EventTimes DEF Fewer, Delays
    <3>5. \A i \in Delays(queue') : queue'[i].time <= now' + active.remaining
      BY <3>1, <3>2, <3>4
    <3> QED
      BY <2>1, <2>2, <3>5 DEF InLine, Limit
  <2>3. CASE lifecycle # "Paused"
    BY <2>1, <2>3 DEF Limit
  <2> QED
    BY <2>2, <2>3
<1>3. ASSUME active.type = "DELAY", lifecycle \in Working, NEW i \in Delays(queue'),
             queue'[i].gen = active.gen
      PROVE  queue'[i].time = active.deadline
  BY <1>3 DEF Fewer, DelayInv
<1> QED
  BY <1>1, <1>2, <1>3

LEMMA OutDelay ==
  ASSUME lifecycle' \notin InProgram
  PROVE  DelayInv'
BY DEF DelayInv

LEMMA NoDelay ==
  ASSUME Delays(queue') = {}, active'.type # "DELAY"
  PROVE  DelayInv'
BY DEF DelayInv, Delays

\* In a program whose active command is no delay, nothing can be taken for one.
LEMMA StillNoDelay ==
  ASSUME DelayInv, lifecycle \in InProgram, active.type # "DELAY", Fewer(queue', queue),
         active'.type # "DELAY"
  PROVE  DelayInv'
BY NoDelay, FewerInLine DEF DelayInv

LEMMA EndDelay ==
  /\ \A conn, disabled, distrust, prim :
       FinishFault(conn, disabled, distrust, prim) => DelayInv'
  /\ \A result, disabled, prim : FinishTerminal(result, disabled, prim) => DelayInv'
<1>1. \A conn, disabled, distrust, prim :
        FinishFault(conn, disabled, distrust, prim) => DelayInv'
  BY OutDelay DEF FinishFault, InProgram
<1> QED
  BY <1>1, OutDelay DEF FinishTerminal, InProgram

LEMMA BeginStopDelay ==
  ASSUME TypeOK, now' \in Time, NEW q, OrderedQueue(q), NEW disp \in Dispositions,
         NEW command, NEW prim, BeginStop(q, disp, command, prim),
         disp = "Pause" => Delays(q) = {} /\ command.type # "DELAY"
  PROVE  DelayInv'
<1>1. CASE FailStop(TRUE, prim)
  BY <1>1, EndDelay DEF FailStop
<1>2. CASE disp # "Pause" /\ lifecycle' = StopLifecycle(disp)
  BY <1>2, OutDelay DEF StopLifecycle, InProgram
<1>3. ASSUME disp = "Pause", NEW delay \in PollDelays \cup {0}, active' = command,
             LET episode == [id |-> nextStop, disp |-> disp,
                             deadline |-> SaturatingAdd(now', StopTimeout)]
                 poll == Least(episode.deadline, SaturatingAdd(now', delay))
             IN queue' = Schedule(Schedule(q, StopPollEvent(poll, episode)),
                                  StopTimeoutEvent(episode))
      PROVE  DelayInv'
  <2> DEFINE episode == [id |-> nextStop, disp |-> disp,
                         deadline |-> SaturatingAdd(now', StopTimeout)]
             poll == Least(episode.deadline, SaturatingAdd(now', delay))
  <2>1. StopTimeout \in Nat /\ delay \in Nat
    BY SessionAssumption
  <2>2. episode.deadline \in Time /\ poll \in Time
    BY <2>1, TimeArithmetic
  <2>3. episode \in StopEpisodes
    BY <2>2 DEF StopEpisodes, TypeOK
  <2>4. queue' = Schedule(Schedule(q, StopPollEvent(poll, episode)), StopTimeoutEvent(episode))
    BY <1>3
  <2> HIDE DEF episode, poll
  <2>5. /\ StopPollEvent(poll, episode) \in Event /\ StopTimeoutEvent(episode) \in Event
        /\ StopPollEvent(poll, episode).type # "DelayComplete"
        /\ StopTimeoutEvent(episode).type # "DelayComplete"
    BY <2>2, <2>3, EventTypes, OtherEvents
  <2>6. Fewer(queue', q)
    BY <2>4, <2>5, QueueAdd, FewerSame
  <2> QED
    BY <1>3, <2>6, NoDelay, FewerInLine
<1> QED
  BY <1>1, <1>2, <1>3, Zenon DEF BeginStop

LEMMA BeginFaultDelay ==
  ASSUME TypeOK, now' \in Time, NEW q, OrderedQueue(q), NEW conn, NEW kind, NEW command,
         BeginFault(q, conn, kind, command)
  PROVE  DelayInv'
BY BeginStopDelay, EndDelay DEF BeginFault, Dispositions

LEMMA SucceedDelay ==
  ASSUME Delays(Tail(queue)) = {}, Succeed(Tail(queue))
  PROVE  DelayInv'
BY NoDelay DEF Succeed, NoCommand

LEMMA HostDelay ==
  ASSUME TypeOK, OrderedQueue(queue), DelayInv,
         \/ \E p \in Programs : SubmitProgram(p)
         \/ \E c \in ControlsUsed : SubmitControl(c)
         \/ HostAdvancesClock
  PROVE  DelayInv'
<1>0. now \in Nat /\ now + 1 \in Nat /\ now <= now + 1
  BY SessionAssumption DEF TypeOK, Time
<1>1. ASSUME NEW p \in Programs, SubmitProgram(p) PROVE DelayInv'
  <2>1. active' = NoCommand
    BY <1>1 DEF SubmitProgram, PrepareResult
  <2>2. CASE queue' = ScenarioAt(now)
    <3>1. \A n \in DOMAIN ScenarioAt(now) : ScenarioAt(now)[n].type # "DelayComplete"
      BY ScenarioAssumption DEF TypeOK
    <3> QED
      BY <2>1, <2>2, <3>1, NoDelay DEF Delays, NoCommand
  <2>3. CASE lifecycle' = "Faulted"
    BY <2>3, OutDelay DEF InProgram
  <2> QED
    BY <1>1, <2>2, <2>3 DEF SubmitProgram
<1>2. ASSUME NEW c \in ControlsUsed, SubmitControl(c) PROVE DelayInv'
  <2>1. ControlEvent(now, c) \in Event /\ ControlEvent(now, c).type # "DelayComplete"
    BY SessionAssumption, EventTypes, OtherEvents DEF TypeOK
  <2>2. Fewer(queue', queue)
    BY <1>2, <2>1, FewerSchedule, FewerSame DEF SubmitControl
  <2> QED
    BY <1>0, <1>2, <2>2, KeptDelay DEF SubmitControl, taskVars
<1>3. CASE HostAdvancesClock
  BY <1>0, <1>3, KeptDelay, FewerSame DEF HostAdvancesClock, taskVars
<1> QED
  BY <1>1, <1>2, <1>3
LEMMA InLineWider ==
  ASSUME NEW q \in Seq(Event), NEW gen \in Nat, NEW wider \in Nat, NEW limit \in Nat,
         NEW later \in Nat, InLine(q, gen, limit), gen <= wider, limit <= later
  PROVE  InLine(q, wider, later)
<1>1. \A i \in Delays(q) : q[i].time \in Nat /\ q[i].gen \in Nat
  <2>1. \A n \in DOMAIN q : q[n] \in Event
    BY LenProperties, ElementOfSeq
  <2>2. \A d \in Event : d.type = "DelayComplete" => d.gen \in Nat
    BY DEF Event, ControlEvents, CommandEvents, StopEvents, InputEvents, LossEvents
  <2> QED
    BY <2>1, <2>2, EventTimes DEF Delays
<1>2. ASSUME NEW i \in Delays(q)
      PROVE  q[i].prio = CommandCompletion /\ q[i].gen <= wider /\ q[i].time <= later
  <2>1. q[i].prio = CommandCompletion /\ q[i].gen <= gen /\ q[i].time <= limit
    BY DEF InLine
  <2>2. q[i].time \in Nat /\ q[i].gen \in Nat
    BY <1>1
  <2> QED
    BY <2>1, <2>2
<1> QED
  BY <1>2 DEF InLine

LEMMA ControlDelay ==
  ASSUME ContractInv, OrderedQueue(queue), ProgressInv, DelayInv, HandleControl
  PROVE  DelayInv'
<1>0. /\ TypeOK /\ EpisodeInv /\ CommandInv
      /\ HasActive => active \in ActiveCommands /\ active.remaining \in Nat
      /\ active.type \in {"MOVEJ", "DELAY", "WAIT_DI", "SET_TOOL"} => HasActive
      /\ NoCommand.type # "DELAY"
  BY ContractInvFacts, ActiveFacts DEF HasActive, NoCommand
<1>t. \A c : TakeControl(c) =>
        /\ OrderedQueue(Tail(queue)) /\ Fewer(Tail(queue), queue)
        /\ now \in Nat /\ now' \in Nat /\ now <= now' /\ now' \in Time
  BY <1>0, QueueTake DEF TakeControl
<1>1. CASE ControlWithoutEffect \/ ResetRejected
  <2>1. queue' = Tail(queue) /\ UNCHANGED <<lifecycle, active>> /\ \E c : TakeControl(c)
    BY <1>1 DEF ControlWithoutEffect, ResetRejected, Drop, taskVars
  <2> QED
    BY <1>0, <1>t, <2>1, KeptDelay
<1>2. CASE PauseBetweenCommands \/ ResumeBetweenCommands
  <2>1. /\ queue' = Tail(queue) /\ active = NoCommand /\ active' = NoCommand
        /\ lifecycle \in InProgram /\ \E c : TakeControl(c)
    BY <1>2 DEF PauseBetweenCommands, ResumeBetweenCommands, HasActive, InProgram
  <2> QED
    BY <1>0, <1>t, <2>1, StillNoDelay
<1>3. CASE PauseMotion
  <2>1. HasActive /\ lifecycle \in InProgram /\ active.type = "MOVEJ" /\ TakeControl("PAUSE")
    BY <1>0, <1>3 DEF PauseMotion, InProgram
  <2> DEFINE command == [active EXCEPT !.remaining = Remaining]
  <2>2. command.type = active.type
    BY <1>0, <2>1 DEF ActiveCommands
  <2>3. BeginStop(Tail(queue), "Pause", command, primary)
    BY <1>3 DEF PauseMotion
  <2> HIDE DEF command
  <2>4. Delays(Tail(queue)) = {}
    BY <1>t, <2>1, FewerInLine DEF DelayInv
  <2> QED
    BY <1>0, <1>t, <2>1, <2>2, <2>3, <2>4, BeginStopDelay DEF Dispositions
<1>4. CASE PauseLocalWait
  <2>1. HasActive /\ lifecycle \in Working /\ lifecycle \in InProgram /\ TakeControl("PAUSE")
    BY <1>0, <1>4 DEF PauseLocalWait, LocalWait, InProgram, Working
  <2>2. /\ active' = [active EXCEPT !.remaining = Remaining, !.deadline = NoDeadline, !.gen = @ + 1]
        /\ lifecycle' = "Paused" /\ queue' = Tail(queue)
    BY <1>4 DEF PauseLocalWait
  <2>3. /\ active'.type = active.type /\ active'.remaining = Remaining
        /\ active'.gen = active.gen + 1 /\ active.gen \in Nat
    BY <1>0, <2>1, <2>2 DEF ActiveCommands
  <2>4. CASE active.type # "DELAY"
    BY <1>t, <2>1, <2>2, <2>3, <2>4, StillNoDelay
  <2>5. CASE active.type = "DELAY"
    <3>1. active.deadline \in Nat
      BY <1>0, <2>1, SessionAssumption DEF CommandInv, Time
    <3>2. InLine(Tail(queue), active.gen, active.deadline)
      BY <1>t, <2>1, <2>5, FewerInLine DEF DelayInv, Limit, Working
    <3>3. active.deadline <= now' + Remaining
      BY <1>t, <2>1, <3>1 DEF Remaining, Greatest
    <3>4. now' + Remaining \in Nat
      BY <1>t, <2>1, <3>1 DEF Remaining, Greatest
    <3>5. InLine(queue', active'.gen, now' + Remaining)
      <4>1. Tail(queue) \in Seq(Event) /\ active.gen \in Nat /\ active'.gen = active.gen + 1
        BY <1>0, <1>t, <2>1, <2>2, ActiveFacts DEF OrderedQueue, ActiveCommands
      <4>2. active'.gen \in Nat /\ active.gen <= active'.gen
        BY <4>1
      <4> QED
        BY <2>2, <2>3, <3>1, <3>2, <3>3, <3>4, <4>1, <4>2, InLineWider
    <3>6. Limit' = now' + Remaining
      BY <2>2, <2>3 DEF Limit
    <3> QED
      BY <2>2, <2>3, <2>5, <3>5, <3>6 DEF DelayInv, Working, InLine, Delays
  <2> QED
    BY <2>4, <2>5
<1>5. CASE ResumeMotion
  <2>1. /\ HasActive /\ OrderedQueue(Tail(queue)) /\ Fewer(Tail(queue), queue) /\ now' \in Time
        /\ lifecycle \in InProgram /\ active.type = "MOVEJ" /\ active' = Resumed
    BY <1>0, <1>t, <1>5 DEF ResumeMotion, InProgram
  <2>2. Resumed \in ActiveCommands /\ Resumed.deadline \in Time
    BY <1>0, <1>5, <2>1, PausedTyped DEF ResumeMotion
  <2>3. PICK delay \in PollDelays \cup {0} :
          LET poll == Least(Resumed.deadline, SaturatingAdd(now', delay))
          IN queue' = Schedule(Schedule(Tail(queue), MotionPollEvent(poll, Resumed)),
                               TimeoutEvent(Resumed))
    BY <1>5 DEF ResumeMotion
  <2>4. SaturatingAdd(now', delay) \in Time
    BY <2>1, SessionAssumption, TimeArithmetic
  <2>5. Least(Resumed.deadline, SaturatingAdd(now', delay)) \in Time
    BY <2>2, <2>4, TimeArithmetic
  <2>6. Fewer(queue', queue)
    BY <2>1, <2>2, <2>3, <2>5, EventTypes, OtherEvents, QueueAdd
  <2>7. active'.type # "DELAY"
    BY <1>0, <2>1 DEF Resumed, ActiveCommands
  <2> QED
    BY <2>1, <2>6, <2>7, StillNoDelay
<1>6. CASE ResumeMotionFails \/ ResumePastTimeRange
  BY <1>0, <1>t, <1>6, BeginFaultDelay DEF ResumeMotionFails, ResumePastTimeRange, ResumeFault
<1>7. CASE ResumeSatisfiedWait
  <2>1. lifecycle \in InProgram /\ active.type # "DELAY" /\ Fewer(Tail(queue), queue)
    BY <1>t, <1>7 DEF ResumeSatisfiedWait, InProgram
  <2>2. Delays(Tail(queue)) = {}
    BY <2>1, FewerInLine DEF DelayInv
  <2> QED
    BY <1>7, <2>2, SucceedDelay DEF ResumeSatisfiedWait
<1>8. CASE ResumeLocalWait
  <2>1. /\ HasActive /\ OrderedQueue(Tail(queue)) /\ Fewer(Tail(queue), queue)
        /\ now \in Nat /\ now' \in Nat /\ now <= now' /\ now' \in Time
        /\ lifecycle = "Paused" /\ lifecycle \in InProgram
        /\ active' = Resumed /\ lifecycle' = "Waiting"
    BY <1>0, <1>t, <1>8 DEF ResumeLocalWait, LocalWait, InProgram
  <2>2. Resumed \in ActiveCommands /\ Resumed.deadline \in Time
    BY <1>0, <1>8, <2>1, PausedTyped DEF ResumeLocalWait
  <2>3. /\ Resumed.type = active.type /\ Resumed.gen = active.gen + 1 /\ active.gen \in Nat
        /\ Resumed.deadline = now' + active.remaining
    BY <1>0, <2>1 DEF Resumed, ActiveCommands
  <2>4. CASE active.type # "DELAY"
    <3>1. queue' = Schedule(Tail(queue), TimeoutEvent(Resumed))
      BY <1>8, <2>4 DEF ResumeLocalWait
    <3>2. Fewer(queue', queue)
      BY <2>1, <2>2, <3>1, EventTypes, OtherEvents, QueueAdd
    <3> QED
      BY <2>1, <2>3, <2>4, <3>2, StillNoDelay
  <2>5. CASE active.type = "DELAY"
    <3>1. queue' = Schedule(Tail(queue), DelayCompleteEvent(Resumed))
      BY <1>8, <2>5 DEF ResumeLocalWait
    <3>2. InLine(Tail(queue), active.gen, now + active.remaining)
      BY <2>1, <2>5, FewerInLine DEF DelayInv, Limit
    <3>3. InLine(Tail(queue), active.gen, Resumed.deadline)
      <4>1. Tail(queue) \in Seq(Event) /\ active.gen \in Nat /\ active.gen <= active.gen
        BY <1>0, <2>1, ActiveFacts DEF OrderedQueue, ActiveCommands
      <4>2. active.remaining \in Nat
        BY <1>0, <2>1
      <4>3. now + active.remaining <= Resumed.deadline /\ Resumed.deadline \in Nat
            /\ now + active.remaining \in Nat
        BY <2>1, <2>3, <4>2
      <4> QED
        BY <3>2, <4>1, <4>3, InLineWider
    <3>4. /\ InLine(queue', Resumed.gen, Resumed.deadline)
          /\ \A i \in Delays(queue') : queue'[i].gen = Resumed.gen =>
                                         queue'[i].time = Resumed.deadline
      <4>1. active.gen < Resumed.gen
        BY <2>3
      <4> QED
        BY <2>1, <2>2, <2>3, <3>1, <3>3, <4>1, DelayInLine
    <3>5. Limit' = active'.deadline
      BY <2>1 DEF Limit
    <3> QED
      BY <2>1, <2>3, <2>5, <3>4, <3>5 DEF DelayInv, InLine, Delays
  <2> QED
    BY <2>4, <2>5
<1>9. CASE Stop
  <2>1. CASE StopPending
    <3>1. queue' = Tail(queue) /\ UNCHANGED <<lifecycle, active>> /\ TakeControl("STOP")
      BY <1>9, <2>1 DEF Stop, taskVars
    <3> QED
      BY <1>0, <1>t, <3>1, KeptDelay
  <2>2. CASE ~StopPending
    BY <1>0, <1>t, <1>9, <2>2, BeginStopDelay, EndDelay DEF Stop, Dispositions
  <2> QED
    BY <2>1, <2>2
<1>10. CASE Estop
  <2>1. CASE StopPending
    BY <1>10, <2>1, OutDelay DEF Estop, InProgram
  <2>2. CASE ~StopPending
    BY <1>0, <1>t, <1>10, <2>2, BeginStopDelay, EndDelay DEF Estop, Dispositions
  <2> QED
    BY <2>1, <2>2
<1>11. CASE Reset
  BY <1>11, OutDelay DEF Reset, InProgram
<1> QED
  BY <1>1, <1>2, <1>3, <1>4, <1>5, <1>6, <1>7, <1>8, <1>9, <1>10, <1>11 DEF HandleControl

\* The event that ends a delay is its last one in the queue, and due when the delay is over.
LEMMA DelayIsDue ==
  ASSUME ContractInv, OrderedQueue(queue), DelayInv, DelayComplete
  PROVE  now' >= active.deadline /\ Delays(Tail(queue)) = {}
<1>1. /\ TypeOK /\ active.type = "DELAY" /\ active.gen = Head(queue).gen
      /\ lifecycle \in Working /\ lifecycle \in InProgram /\ Take("DelayComplete") /\ HasActive
  BY ContractInvFacts DEF DelayComplete, DelayIsOver, InProgram, Working
<1>2. /\ queue \in Seq(Event) /\ queue # <<>> /\ Head(queue) = queue[1]
      /\ DOMAIN queue = 1 .. Len(queue) /\ Len(queue) \in Nat
      /\ Tail(queue) \in Seq(Event) /\ Len(Tail(queue)) = Len(queue) - 1
      /\ \A i \in 1 .. Len(queue) - 1 : Tail(queue)[i] = queue[i + 1]
  BY <1>1, TakeTyped, HeadTailProperties, LenProperties DEF TypeOK
<1>3. DOMAIN Tail(queue) = 1 .. Len(queue) - 1
  BY <1>2, LenProperties
<1>4. Len(queue) # 0
  BY <1>2, EmptySeq
<1>5. 1 \in Delays(queue)
  BY <1>1, <1>2, <1>4, TakeTyped DEF Delays
<1>6. queue[1].time = active.deadline
  BY <1>1, <1>2, <1>5 DEF DelayInv
<1>7. now' >= active.deadline
  <2>1. queue[1].time \in Nat /\ now \in Nat /\ now' = Greatest(now, queue[1].time)
    BY <1>1, <1>2, TakeTyped, EventTimes, SessionAssumption DEF Take, TypeOK, Time
  <2> QED
    BY <1>6, <2>1 DEF Greatest
<1>8. ASSUME NEW i \in Delays(Tail(queue)) PROVE FALSE
  <2>1. i + 1 \in Delays(queue) /\ 1 < i + 1
    BY <1>2, <1>3 DEF Delays
  <2>2. queue[1].gen < queue[i + 1].gen /\ queue[i + 1].gen <= active.gen
    BY <1>1, <1>5, <2>1 DEF DelayInv, InLine
  <2>3. active.gen \in Nat /\ queue[i + 1].gen \in Nat
    <3>1. queue[i + 1] \in Event
      BY <1>2, <2>1, ElementOfSeq DEF Delays
    <3>2. \A d \in Event : d.type = "DelayComplete" => d.gen \in Nat
      BY DEF Event, ControlEvents, CommandEvents, StopEvents, InputEvents, LossEvents
    <3> QED
      BY <1>1, <2>1, <3>1, <3>2, ActiveFacts DEF Delays, ActiveCommands
  <2> QED
    BY <1>1, <1>2, <2>2, <2>3
<1> QED
  BY <1>7, <1>8

LEMMA EventDelay ==
  ASSUME ContractInv, OrderedQueue(queue), ProgressInv, DelayInv, HandleEvent, ~HandleControl
  PROVE  DelayInv'
<1>0. /\ TypeOK /\ EpisodeInv
      /\ active.type \in {"MOVEJ", "DELAY", "WAIT_DI", "SET_TOOL"} => HasActive
      /\ NoCommand.type # "DELAY"
  BY ContractInvFacts DEF HasActive, NoCommand
<1>t. \A type : Take(type) =>
        /\ OrderedQueue(Tail(queue)) /\ Fewer(Tail(queue), queue)
        /\ now \in Nat /\ now' \in Nat /\ now <= now' /\ now' \in Time
  BY <1>0, QueueTake
<1>d. ASSUME NEW delay \in PollDelays, now' \in Time, NEW limit \in Time
      PROVE  Least(limit, SaturatingAdd(now', Greatest(1, delay))) \in Time
  <2>1. Greatest(1, delay) \in Nat
    BY SessionAssumption DEF Greatest
  <2>2. SaturatingAdd(now', Greatest(1, delay)) \in Time
    BY <1>d, <2>1, TimeArithmetic
  <2> QED
    BY <2>2, TimeArithmetic
<1>1. CASE \/ StaleMotionPoll \/ StaleDelayComplete \/ StaleTimeout \/ StaleStopPoll
           \/ (StopDeadline /\ ~StopDeadlinePassed)
  <2>1. queue' = Tail(queue) /\ UNCHANGED <<lifecycle, active>> /\ \E type : Take(type)
    BY <1>1 DEF StaleMotionPoll, StaleDelayComplete, StaleTimeout, StaleStopPoll, StopDeadline,
       Drop, taskVars
  <2> QED
    BY <1>0, <1>t, <2>1, KeptDelay
<1>2. CASE MotionRunning
  <2>1. Take("MotionPoll") /\ UNCHANGED <<lifecycle, active>>
    BY <1>2 DEF MotionRunning, taskVars
  <2>2. CASE now' < active.deadline
    <3>1. active \in ActiveCommands /\ active.deadline \in Time
      <4>1. active \in ActiveCommands
        BY <1>0, <1>2 DEF MotionRunning, PollIsCurrent, TypeOK, HasActive
      <4> QED
        BY <1>t, <2>1, <2>2, <4>1, SessionAssumption DEF ActiveCommands, NoDeadline, Time
    <3>2. Fewer(queue', queue)
      BY <1>2, <1>d, <1>t, <2>1, <2>2, <3>1, EventTypes, OtherEvents, QueueAdd DEF MotionRunning
    <3> QED
      BY <1>0, <1>t, <2>1, <3>2, KeptDelay
  <2>3. CASE ~(now' < active.deadline)
    BY <1>0, <1>2, <1>t, <2>1, <2>3, KeptDelay DEF MotionRunning
  <2> QED
    BY <2>2, <2>3
<1>3. CASE StillStopping
  <2>1. /\ Take("StopPoll") /\ UNCHANGED <<lifecycle, active>>
        /\ stop \in StopEpisodes /\ stop.deadline \in Time
    BY <1>0, <1>3 DEF StillStopping, OwnEpisode, StopPending, TypeOK, StopEpisodes, NoStop, taskVars
  <2>2. Fewer(queue', queue)
    BY <1>3, <1>d, <1>t, <2>1, EventTypes, OtherEvents, QueueAdd DEF StillStopping
  <2> QED
    BY <1>0, <1>t, <2>1, <2>2, KeptDelay
<1>4. CASE MotionSucceeded
  <2>1. /\ Take("MotionPoll") /\ active.type = "MOVEJ" /\ lifecycle \in InProgram
        /\ Succeed(Tail(queue))
    BY <1>4 DEF MotionSucceeded, PollIsCurrent, InProgram
  <2>2. Delays(Tail(queue)) = {}
    BY <1>t, <2>1, FewerInLine DEF DelayInv
  <2> QED
    BY <2>1, <2>2, SucceedDelay
<1>5. CASE DelayComplete
  BY <1>5, DelayIsDue, SucceedDelay DEF DelayComplete
<1>6. CASE MotionFails \/ CommandTimeout \/ ConnectionLoss
  BY <1>0, <1>6, <1>t, BeginFaultDelay DEF MotionFails, CommandTimeout, ConnectionLoss
<1>7. CASE StopPollFails \/ (StopDeadline /\ StopDeadlinePassed)
  BY <1>7, EndDelay DEF StopPollFails, StopDeadline, FailStop
<1>8. CASE \/ FaultStopConfirmed \/ EmergencyStopConfirmed
           \/ OperatorStopConfirmed \/ ProgramStopConfirmed
  BY <1>8, EndDelay, Zenon DEF FaultStopConfirmed, EmergencyStopConfirmed, OperatorStopConfirmed,
     ProgramStopConfirmed
<1>9. CASE PauseConfirmed
  <2>1. HasActive /\ lifecycle = "Pausing"
    <3>1. stop.disp = "Pause" /\ StopPending
      BY <1>9 DEF PauseConfirmed, StopConfirmed, OwnEpisode
    <3>2. HasActive
      BY <1>0, <3>1 DEF EpisodeInv, PauseHasCommand
    <3>3. lifecycle = StopLifecycle("Pause")
      BY <1>0, <3>1 DEF EpisodeInv, StopEpisodeWatched
    <3> QED
      BY <3>2, <3>3 DEF StopLifecycle
  <2>2. active.type = "MOVEJ" /\ lifecycle \in InProgram
    BY <2>1 DEF ProgressInv, InProgram
  <2>3. active' = [active EXCEPT !.gen = @ + 1] /\ queue' = Tail(queue) /\ Take("StopPoll")
    BY <1>9, <2>1 DEF PauseConfirmed, StopConfirmed, Resolve
  <2>4. active'.type # "DELAY"
    BY <1>0, <2>1, <2>2, <2>3, ActiveFacts DEF ActiveCommands
  <2> QED
    BY <1>t, <2>2, <2>3, <2>4, StillNoDelay
<1>10. CASE InputChange
  <2>0. Take("Input")
    BY <1>10 DEF InputChange
  <2>1. CASE InputSatisfies(Head(queue))
    <3>1. active.type # "DELAY" /\ lifecycle \in InProgram
      BY <2>1 DEF InputSatisfies, InProgram
    <3>2. Delays(Tail(queue)) = {}
      BY <1>t, <2>0, <3>1, FewerInLine DEF DelayInv
    <3> QED
      BY <1>10, <2>1, <3>2, SucceedDelay DEF InputChange
  <2>2. CASE ~InputSatisfies(Head(queue))
    BY <1>0, <1>10, <1>t, <2>0, <2>2, KeptDelay DEF InputChange, taskVars
  <2> QED
    BY <2>1, <2>2
<1> QED
  BY <1>1, <1>2, <1>3, <1>4, <1>5, <1>6, <1>7, <1>8, <1>9, <1>10 DEF HandleEvent

LEMMA NextCommandDelay ==
  ASSUME ContractInv, OrderedQueue(queue), ProgressInv, DelayInv, HandleNextCommand
  PROVE  DelayInv'
<1> DEFINE a == Activate(program[next])
<1>0. /\ TypeOK /\ ~HasActive /\ lifecycle \in InProgram
      /\ Delays(queue) = {} /\ Fewer(queue, queue) /\ active = NoCommand
      /\ NoCommand.type # "DELAY"
  <2>1. TypeOK /\ ~HasActive /\ lifecycle \in {"Running", "Waiting"}
    BY NextCommandCalls, CallsIdle, ContractInvFacts DEF ContractInv
  <2> QED
    BY <2>1, FewerSame DEF DelayInv, InProgram, HasActive, NoCommand
<1>s. \A type : Start(type) => now' = now /\ now' \in Time
  BY <1>0 DEF Start, TypeOK
<1>1. ASSUME NEW type, Start(type), InRange(now, program[next].timeout)
      PROVE  /\ a \in ActiveCommands /\ a.deadline \in Time /\ now \in Time /\ a.type = type
             /\ a.gen = 1
  BY <1>0, <1>s, <1>1, StartTyped DEF Activate
<1> HIDE DEF a
<1>2. CASE ConnectFails
  BY <1>0, <1>2, BeginFaultDelay DEF ConnectFails, TypeOK
<1>3. CASE ServoCommandThrows \/ StartPastTimeRange \/ StartMotionFails
  BY <1>0, <1>3, <1>s, BeginFaultDelay
     DEF ServoCommandThrows, StartPastTimeRange, StartMotionFails, StartFault
<1>4. CASE ServoCommand \/ SetDo \/ ZeroDelay \/ WaitAlreadySatisfied
  <2>1. queue' = queue /\ active' = NoCommand
    BY <1>0, <1>4 DEF ServoCommand, SetDo, ZeroDelay, WaitAlreadySatisfied, Pass
  <2> QED
    BY <1>0, <2>1, NoDelay
<1>5. CASE StopCommand
  BY <1>0, <1>5, <1>s, BeginStopDelay DEF StopCommand, Dispositions
<1>6. CASE StartWait
  <2>1. /\ a \in ActiveCommands /\ a.deadline \in Time /\ a.type # "DELAY"
        /\ queue' = Schedule(queue, TimeoutEvent(a)) /\ active' = a
    BY <1>1, <1>6 DEF StartWait, Begin, a
  <2>2. Fewer(queue', queue)
    BY <2>1, EventTypes, OtherEvents, QueueAdd, <1>0
  <2> QED
    BY <1>0, <2>1, <2>2, StillNoDelay
<1>7. CASE StartMotion
  <2>1. /\ a \in ActiveCommands /\ a.deadline \in Time /\ now \in Time /\ a.type # "DELAY"
        /\ active' = a
    BY <1>1, <1>7 DEF StartMotion, Begin, a
  <2>2. PICK delay \in PollDelays \cup {0} :
          LET poll == Least(a.deadline, SaturatingAdd(now, delay))
          IN queue' = Schedule(Schedule(queue, MotionPollEvent(poll, a)), TimeoutEvent(a))
    BY <1>7 DEF StartMotion, a
  <2>3. SaturatingAdd(now, delay) \in Time
    BY <2>1, SessionAssumption, TimeArithmetic
  <2>4. Least(a.deadline, SaturatingAdd(now, delay)) \in Time
    BY <2>1, <2>3, TimeArithmetic
  <2>5. Fewer(queue', queue)
    BY <1>0, <2>1, <2>2, <2>4, EventTypes, OtherEvents, QueueAdd
  <2> QED
    BY <1>0, <2>1, <2>5, StillNoDelay
<1>8. CASE StartDelay
  <2>1. /\ a \in ActiveCommands /\ a.deadline \in Time /\ a.gen = 1
        /\ queue' = Schedule(queue, DelayCompleteEvent(a)) /\ active' = a /\ lifecycle' = "Waiting"
    BY <1>1, <1>8 DEF StartDelay, Begin, a
  <2>2. InLine(queue, 0, a.deadline)
    BY <1>0 DEF InLine
  <2>3. /\ InLine(queue', a.gen, a.deadline)
        /\ \A i \in Delays(queue') : queue'[i].gen = a.gen => queue'[i].time = a.deadline
    BY <2>1, <2>2, DelayInLine
  <2>4. Limit' = active'.deadline
    BY <2>1 DEF Limit
  <2>5. active'.type = "DELAY"
    BY <1>1, <1>8, <2>1 DEF StartDelay
  <2> QED
    BY <2>1, <2>3, <2>4, <2>5 DEF DelayInv, InLine, Delays
<1> QED
  BY <1>2, <1>3, <1>4, <1>5, <1>6, <1>7, <1>8 DEF HandleNextCommand

LEMMA DelayHolds == Spec => [](ContractInv /\ ProgressInv /\ OrderedQueue(queue) /\ DelayInv)
<1>1. Init => DelayInv
  BY DEF Init, DelayInv, InProgram
<1>2. /\ ContractInv /\ ProgressInv /\ OrderedQueue(queue) /\ DelayInv /\ [Next]_vars
      => DelayInv'
  <2> SUFFICES ASSUME ContractInv, ProgressInv, OrderedQueue(queue), DelayInv, [Next]_vars
               PROVE  DelayInv'
    OBVIOUS
  <2>1. CASE UNCHANGED vars
    <3>1. UNCHANGED <<lifecycle, active, queue, now>>
      BY <2>1 DEF vars
    <3>2. TypeOK /\ now \in Nat /\ now <= now'
      BY <3>1, ContractInvFacts, SessionAssumption DEF TypeOK, Time
    <3> QED
      BY <3>1, <3>2, FewerSame, KeptDelay
  <2> QED
    BY <2>1, ContractInvFacts, HostDelay, ControlDelay, EventDelay, NextCommandDelay
       DEF Next, Advance
<1>3. TypeOK /\ Ordered(queue) => OrderedQueue(queue)
  BY DEF TypeOK, OrderedQueue
<1> QED
  BY <1>1, <1>2, <1>3, ProgressHolds, TypeCorrect, QueueInOrder, PTL DEF Spec

\* What an input event does to the wait that it ends.
LEMMA InputArrives ==
  ASSUME TypeOK, InputChange, InputSatisfies(Head(queue))
  PROVE  input'[program[active.index].input] = program[active.index].want
<1>1. Take("Input") /\ Head(queue) \in Event
  BY TakeTyped DEF InputChange
<1>2. Head(queue).type = "Input"
  BY <1>1 DEF Take
<1>3. Head(queue).name \in Inputs
  BY <1>1, <1>2 DEF Event, ControlEvents, CommandEvents, StopEvents, InputEvents, LossEvents
<1>4. input \in [Inputs -> BOOLEAN]
  BY DEF TypeOK
<1>5. input' = [input EXCEPT ![Head(queue).name] = Head(queue).value]
  BY DEF InputChange
<1>6. input'[Head(queue).name] = Head(queue).value
  BY <1>3, <1>4, <1>5
<1> QED
  BY <1>6 DEF InputSatisfies

Earned ==
  /\ active.type = "DELAY" => now' >= active.deadline
  /\ active.type \in {"WAIT_DI", "SET_TOOL"} =>
       input'[program[active.index].input] = program[active.index].want
  /\ ~moving'

LEMMA PassedIsEarned ==
  ASSUME ContractInv, ProgressInv, OrderedQueue(queue), DelayInv, Next, Passed
  PROVE  Earned
<1>0. /\ TypeOK /\ EpisodeInv /\ StandsStill /\ HasActive /\ next' = next + 1 /\ next' # next
      /\ next \in Nat \ {0}
  BY ContractInvFacts DEF ContractInv, Passed, TypeOK
<1>1. \A p : ~SubmitProgram(p)
  BY <1>0 DEF SubmitProgram, PrepareResult
<1>2. (\A c : ~SubmitControl(c)) /\ ~HostAdvancesClock
  BY <1>0 DEF SubmitControl, HostAdvancesClock
<1>3. ~HandleNextCommand
  BY <1>0, NextCommandCalls, CallsIdle DEF ContractInv
<1>4. HandleControl => ResumeSatisfiedWait
  BY <1>0, Zenon DEF HandleControl, ControlWithoutEffect, PauseBetweenCommands, PauseMotion,
     PauseLocalWait, ResumeBetweenCommands, ResumeMotion, ResumeMotionFails, ResumePastTimeRange,
     ResumeLocalWait, Stop, Estop, Reset, ResetRejected, Drop
<1>5. HandleEvent => \/ HandleControl \/ MotionSucceeded \/ DelayComplete \/ ProgramStopConfirmed
                     \/ InputChange /\ InputSatisfies(Head(queue))
  BY <1>0, Zenon DEF HandleEvent, StaleMotionPoll, MotionRunning, MotionFails, StaleDelayComplete,
     CommandTimeout, StaleTimeout, StaleStopPoll, StillStopping, StopPollFails, StopDeadline,
     PauseConfirmed, FaultStopConfirmed, EmergencyStopConfirmed, OperatorStopConfirmed,
     InputChange, ConnectionLoss, Drop
<1>6. CASE ResumeSatisfiedWait
  <2>1. /\ active.type \in {"WAIT_DI", "SET_TOOL"} /\ lifecycle = "Paused" /\ Awaited
        /\ UNCHANGED <<input, moving>>
    BY <1>6 DEF ResumeSatisfiedWait
  <2>2. ~moving
    BY <1>0, <2>1 DEF StandsStill
  <2> QED
    BY <2>1, <2>2 DEF Earned, Awaited
<1>7. CASE MotionSucceeded
  BY <1>7 DEF MotionSucceeded, PollIsCurrent, Earned
<1>8. CASE DelayComplete
  <2>1. active.type = "DELAY" /\ lifecycle \in {"Running", "Waiting"} /\ UNCHANGED moving
    BY <1>8 DEF DelayComplete, DelayIsOver
  <2>2. ~moving
    BY <1>0, <2>1, WaitsStill
  <2> QED
    BY <1>8, <2>1, <2>2, DelayIsDue DEF Earned
<1>9. CASE ProgramStopConfirmed
  <2>1. stop.disp = "ProgramComplete" /\ ~moving'
    BY <1>9 DEF ProgramStopConfirmed, StopConfirmed
  <2> QED
    BY <2>1 DEF ProgressInv, Earned
<1>10. CASE InputChange /\ InputSatisfies(Head(queue))
  <2>1. /\ active.type \in {"WAIT_DI", "SET_TOOL"} /\ lifecycle \in {"Running", "Waiting"}
        /\ UNCHANGED moving
    BY <1>10 DEF InputChange, InputSatisfies
  <2>2. ~moving
    BY <1>0, <2>1, WaitsStill
  <2> QED
    BY <1>0, <1>10, <2>1, <2>2, InputArrives DEF Earned
<1> QED
  BY <1>1, <1>2, <1>3, <1>4, <1>5, <1>6, <1>7, <1>8, <1>9, <1>10 DEF Next, Advance

(***************************************************************************)
(* A command is passed only when what it waits for has happened: a DELAY   *)
(* at its deadline, a wait with its input, a motion with the device at     *)
(* rest, across pauses and whatever events are left in the queue           *)
(* (runtime.cpp, HandleDelayComplete, HandleExternalEvent,                 *)
(* FinishActiveSuccess).                                                   *)
(***************************************************************************)
THEOREM SuccessIsEarned == Spec => EarnedSuccess
<1>1. ContractInv /\ ProgressInv /\ OrderedQueue(queue) /\ DelayInv /\ [Next]_vars =>
        [ Passed =>
            /\ active.type = "DELAY" => now' >= active.deadline
            /\ active.type \in {"WAIT_DI", "SET_TOOL"} =>
                 input'[program[active.index].input] = program[active.index].want
            /\ ~moving' ]_vars
  BY PassedIsEarned DEF Earned
<1> QED
  BY <1>1, DelayHolds, PTL DEF Spec, EarnedSuccess
=============================================================================
