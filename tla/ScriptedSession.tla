-------------------------- MODULE ScriptedSession --------------------------
(***************************************************************************)
(* A Runtime Session whose device is a ScriptedMockBackend, as the CLI     *)
(* builds one for a Mock scenario.  Every action is a step of the session  *)
(* (RuntimeSession.tla) joined with what the calls it makes do to the      *)
(* device: the answer the session may choose freely there is the one the   *)
(* device gives here.  A session with any other device takes the steps of  *)
(* RuntimeSession as they are, so that one run asks the same questions of  *)
(* both.  The clock moves with the events only, as under the CLI.          *)
(***************************************************************************)
EXTENDS SessionProperties, ScriptedMock

CONSTANTS
  Scripts,          \* the plans of the Mock scenarios
  ScriptedPrograms, \* what a host submits to a session with a Mock scenario
  DefaultPoll       \* RuntimeOptions::default_stop_poll_ms

ASSUME ScriptAssumption ==
  /\ ScriptedPrograms \subseteq Seq(Command)
  /\ DefaultPoll \in PollDelays /\ FrozenStopPoll \in PollDelays
  /\ \A s \in Scripts :
       /\ \A n \in DOMAIN s.motions : n > 0 /\ s.motions[n] \in MotionPlans
                                            /\ s.motions[n].delay \in PollDelays \cup {0}
       /\ \A n \in DOMAIN s.stops : n > 0 /\ s.stops[n] \in StopPlans
                                          /\ s.stops[n].delay \in PollDelays \cup {0}

VARIABLE mock   \* the scripted device, or AnyDevice

scriptedVars == <<vars, mock>>

AnyDevice == [script |-> "none"]
Scripted == mock # AnyDevice

ScriptedInit == Init /\ mock \in {AnyDevice} \cup {Unconnected(s) : s \in Scripts}

-----------------------------------------------------------------------------
(***************************************************************************)
(* What the session does with an answer: it looks again after the delay,   *)
(* but not beyond the deadline.                                            *)
(***************************************************************************)
PolledAfter(delay) ==
  Least(active'.deadline, SaturatingAdd(now', delay)) \in
    {queue'[n].time : n \in {k \in DOMAIN queue' :
       queue'[k].type = "MotionPoll" /\ queue'[k].index = active'.index
                                     /\ queue'[k].gen = active'.gen}}

StopPolledAfter(delay) ==
  Least(stop'.deadline, SaturatingAdd(now', delay)) \in
    {queue'[n].time : n \in {k \in DOMAIN queue' :
       queue'[k].type = "StopPoll" /\ queue'[k].id = stop'.id}}

\* The clean-up calls of a task that ends work, and do this to the device.
CleansUp(conn, m) ==
  /\ terminal' => connected' = (conn /\ ~DisconnectOnTerminal)
                  /\ (outcome' = "Faulted" => servoDisabled' \/ ~conn)
  /\ mock' = IF ~conn THEN m
             ELSE IF ~connected' THEN Disconnect(m)
             ELSE IF servoDisabled' THEN SetServoEnabled(m, FALSE)
             ELSE m

\* A clean-up that is not made for a stop that failed leaves a trusted session trusted.
EndsInTrust(conn, m) == CleansUp(conn, m) /\ UNCHANGED untrusted

\* The device is asked to stop.
Stops(m) ==
  IF StopRejected(m)
  THEN terminal' /\ CleansUp(TRUE, SubmitStop(m))
  ELSE StopPending' /\ StopPolledAfter(0) /\ mock' = SubmitStop(m)

\* BeginFault
Faults(conn, m) == IF conn /\ ~StopPending THEN Stops(m) ELSE EndsInTrust(conn, m)

-----------------------------------------------------------------------------
\* A scenario that plans a motion the program does not have is refused.
ScenarioFits(p) ==
  \A n \in DOMAIN mock.script.motions : n <= Cardinality({k \in DOMAIN p : p[k].type = "MOVEJ"})

ScriptedSubmit(p) ==
  \/ /\ Accepts(p) => ScenarioFits(p)
     /\ SubmitProgram(p)
     /\ mock' = IF Accepts(p) THEN BeginProgram(mock) ELSE mock
  \/ /\ Accepts(p) /\ ~ScenarioFits(p)
     /\ submissions < MaxSubmissions
     /\ lifecycle \in {"Idle", "Stopped"} \/ ReplaceableRejection
     /\ PrepareResult(p)
     /\ lifecycle' = "Faulted" /\ state' = "Faulted" /\ terminal' = TRUE /\ outcome' = "Faulted"
     /\ queue' = <<>>
     /\ UNCHANGED mock

ScriptedControl ==
  \/ /\ \/ ControlWithoutEffect
        \/ PauseBetweenCommands \/ PauseLocalWait
        \/ ResumeBetweenCommands \/ ResumeSatisfiedWait \/ ResumeLocalWait
        \/ Reset \/ ResetRejected
     /\ UNCHANGED mock
  \/ PauseMotion /\ Stops(mock)
  \/ /\ Stop \/ Estop
     /\ IF connected /\ ~StopPending THEN Stops(mock) ELSE EndsInTrust(connected, mock)
  \/ ResumePastTimeRange /\ Faults(connected, mock)

\* The motion keeps its number, so a plan that let it start lets it go on.
ScriptedResume ==
  LET m == SubmitMotion(mock, TRUE)
  IN /\ ResumeMotion
     /\ ~SubmitMotionThrows(mock) /\ MotionPlan(m).outcome # "rejected"
     /\ PolledAfter(MotionDelay(m))
     /\ mock' = m

ScriptedMotionPoll ==
  \/ StaleMotionPoll /\ UNCHANGED mock
  \/ /\ ~PollMotionThrows(mock)
     /\ \/ /\ MotionRunning /\ MotionStatus(mock) = "Running"
           /\ now' < active.deadline => PolledAfter(DefaultPoll)
        \/ MotionSucceeded /\ MotionStatus(mock) = "Succeeded"
     /\ mock' = PollMotion(mock)

ScriptedStopPoll ==
  \/ StaleStopPoll /\ UNCHANGED mock
  \/ /\ StillStopping
     /\ StopStatus(mock) = "Stopping" /\ StopPolledAfter(StopDelay(mock))
     /\ mock' = PollStop(mock)
  \/ /\ StopPollFails
     /\ StopStatus(mock) = "Stopping" => now' >= stop.deadline
     /\ StopStatus(mock) # "Stopped"
     /\ CleansUp(connected, PollStop(mock))
  \/ /\ \/ PauseConfirmed \/ FaultStopConfirmed \/ EmergencyStopConfirmed
        \/ OperatorStopConfirmed \/ ProgramStopConfirmed
     /\ StopStatus(mock) = "Stopped"
     /\ EndsInTrust(connected, PollStop(mock))

ScriptedEvent ==
  \/ ScriptedControl \/ ScriptedResume
  \/ ScriptedMotionPoll \/ ScriptedStopPoll
  \/ /\ DelayComplete \/ StaleDelayComplete \/ StaleTimeout \/ InputChange
     /\ UNCHANGED mock
  \/ CommandTimeout /\ Faults(connected, mock)
  \/ StopDeadline /\ CleansUp(connected, mock)
  \/ ConnectionLoss /\ Faults(connected, mock)

-----------------------------------------------------------------------------
\* EnsureConnected
Linked == IF connected THEN mock ELSE Connect(mock)

ScriptedMotionStart ==
  LET m == SubmitMotion(Linked, FALSE)
  IN \/ /\ StartMotion
        /\ ~SubmitMotionThrows(Linked) /\ MotionPlan(m).outcome # "rejected"
        /\ PolledAfter(MotionDelay(m))
        /\ mock' = m
     \/ /\ StartMotionFails
        /\ ~SubmitMotionThrows(Linked) /\ MotionPlan(m).outcome = "rejected"
        /\ primary' = "Recoverable" /\ UNCHANGED moving
        /\ Stops(m)

ScriptedCommand ==
  \/ ServoCommand /\ mock' = SetServoEnabled(Linked, ~servoDisabled')
  \/ /\ SetDo \/ ZeroDelay \/ StartDelay \/ StartWait \/ WaitAlreadySatisfied
     /\ mock' = Linked
  \/ StartPastTimeRange /\ Faults(TRUE, Linked)
  \/ ScriptedMotionStart
  \/ StopCommand /\ Stops(Linked)

ScriptedAdvance == Scripted /\ (ScriptedEvent \/ ScriptedCommand)
AnyAdvance == ~Scripted /\ Advance /\ UNCHANGED mock

ScriptedNext ==
  \/ \E p \in Programs : ~Scripted /\ SubmitProgram(p) /\ UNCHANGED mock
  \/ \E p \in ScriptedPrograms : Scripted /\ ScriptedSubmit(p)
  \/ \E c \in ControlsUsed : SubmitControl(c) /\ UNCHANGED mock
  \/ AnyAdvance
  \/ ScriptedAdvance

ScriptedSpec ==
  ScriptedInit /\ [][ScriptedNext]_scriptedVars
               /\ WF_scriptedVars(~terminal /\ (AnyAdvance \/ ScriptedAdvance))

-----------------------------------------------------------------------------
\* Which MOVEJ of the program its command n is.
MotionNumber(n) == Cardinality({k \in 1 .. n : program[k].type = "MOVEJ"})

(***************************************************************************)
(* The plans of a Mock scenario are kept: the k-th MOVEJ of the program    *)
(* moves only when plan k does not reject it and passes only when plan k   *)
(* lets it, not before its delay counted from its start or its latest      *)
(* resumption - however often the program was paused in between.  A stop   *)
(* is confirmed only by a plan that confirms.  A delay beyond the time     *)
(* limit of the command or of the stop only lasts up to that limit.        *)
(***************************************************************************)
PlansAreKept ==
  [][ Scripted =>
        /\ HasActive /\ active.type = "MOVEJ" =>
             LET plan == PlanFor(mock.script.motions, MotionNumber(active.index))
                 since == active.deadline - active.remaining
             IN /\ moving => plan.outcome # "rejected"
                /\ Passed => /\ plan.outcome \in {"immediate", "delayed"}
                             /\ now' >= Least(active.deadline, since + plan.delay)
        /\ StopPending /\ ~StopPending' /\ lifecycle' \in {"Paused", "Stopped", "EmergencyStopped"} =>
             StopPlan(mock).outcome \in {"immediate", "delayed"} ]_scriptedVars
=============================================================================
