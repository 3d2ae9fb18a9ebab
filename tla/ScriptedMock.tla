---------------------------- MODULE ScriptedMock ----------------------------
(***************************************************************************)
(* ScriptedMockBackend, src/roborun/scripted_mock_backend.cpp: a device    *)
(* whose motions and stops go as the Mock scenario plans them, by number.  *)
(* Every operation of it is a function of the device's record; a call that *)
(* throws has its condition in ...Throws.                                  *)
(*                                                                         *)
(* A script has the motion_plans and stop_plans of a MockScenario, two     *)
(* maps from numbers to plans.  Positions, speeds and the call log are     *)
(* left out: no answer depends on them.                                    *)
(***************************************************************************)
EXTENDS Naturals

MotionPlans == [outcome : {"immediate", "delayed", "rejected", "frozen"}, delay : Nat]
StopPlans == [outcome : {"immediate", "delayed", "rejected", "never", "failed"}, delay : Nat]

Immediate == [outcome |-> "immediate", delay |-> 0]

\* What find gives for a number, or what is done for a number without a plan.
PlanFor(plans, number) == IF number \in DOMAIN plans THEN plans[number] ELSE Immediate

Unconnected(script) ==
  [script |-> script, on |-> FALSE, servo |-> FALSE,
   motions |-> 0, submitted |-> FALSE, frozen |-> FALSE,   \* movej_occurrence_, motion_...
   stops |-> 0, stopping |-> FALSE, polls |-> 0]           \* stop_requests_, stop_submitted_, stop_polls_

\* stop_failed_, stop_frozen_ and stop_delay_ms_ are copies of the latest plan.
MotionPlan(m) == PlanFor(m.script.motions, m.motions)
StopPlan(m) == PlanFor(m.script.stops, m.stops)

BeginProgram(m) == [m EXCEPT !.motions = 0, !.stops = 0, !.submitted = FALSE, !.stopping = FALSE]

Connect(m) == [m EXCEPT !.on = TRUE]

SetServoEnabled(m, enabled) == [m EXCEPT !.servo = enabled]

SubmitMotionThrows(m) == ~m.on \/ ~m.servo

Submitted(m) ==
  [m EXCEPT !.submitted = MotionPlan(m).outcome # "rejected",
            !.frozen = MotionPlan(m).outcome = "frozen"]

\* Slip: a resumed motion counts as the next one.
SubmitMotionCountsResume(m, resume) == Submitted([m EXCEPT !.motions = @ + 1])

\* SubmitMoveJ and ResumeMoveJ.
SubmitMotion(m, resume) == Submitted(IF resume THEN m ELSE [m EXCEPT !.motions = @ + 1])

\* The poll_after_ms of an accepted motion.
MotionDelay(m) == IF MotionPlan(m).outcome = "delayed" THEN MotionPlan(m).delay ELSE 0

PollMotionThrows(m) == ~m.on \/ ~m.submitted

MotionStatus(m) == IF m.frozen THEN "Running" ELSE "Succeeded"
PollMotion(m) == IF m.frozen THEN m ELSE [m EXCEPT !.submitted = FALSE]

StopRejected(m) == ~m.on \/ StopPlan([m EXCEPT !.stops = @ + 1]).outcome = "rejected"

SubmitStop(m) ==
  [m EXCEPT !.stops = @ + 1,
            !.stopping = IF m.on THEN ~StopRejected(m) ELSE @,
            !.polls = IF m.on THEN 0 ELSE @]

StopStatus(m) ==
  CASE ~m.on \/ ~m.stopping \/ StopPlan(m).outcome = "failed" -> "Failed"
    [] StopPlan(m).outcome = "never" -> "Stopping"
    [] StopPlan(m).delay > 0 /\ m.polls = 0 -> "Stopping"
    [] OTHER -> "Stopped"

\* The poll_after_ms of an unconfirmed stop.
FrozenStopPoll == 10
StopDelay(m) == IF StopPlan(m).outcome = "never" THEN FrozenStopPoll ELSE StopPlan(m).delay

PollStop(m) ==
  CASE ~m.on \/ ~m.stopping -> m
    [] StopStatus(m) = "Stopped" ->
         [m EXCEPT !.polls = @ + 1, !.submitted = FALSE, !.stopping = FALSE]
    [] OTHER -> [m EXCEPT !.polls = @ + 1]

Disconnect(m) == [m EXCEPT !.on = FALSE, !.servo = FALSE, !.submitted = FALSE]
=============================================================================
