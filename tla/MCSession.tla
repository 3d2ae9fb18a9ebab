----------------------------- MODULE MCSession -----------------------------
(***************************************************************************)
(* Small instances of RuntimeSession for TLC.                              *)
(***************************************************************************)
EXTENDS SessionRefinement

Cmd(type, timeout) == [type |-> type, timeout |-> timeout, input |-> "di", want |-> TRUE]
On == Cmd("SERVO_ON", 0)
Off == Cmd("SERVO_OFF", 0)
Move == Cmd("MOVEJ", 3)
End == Cmd("STOP", 0)

Delay(d) == Cmd("DELAY", d)
Output == Cmd("SET_DO", 0)
Wait == Cmd("WAIT_DI", 3)

\* One motion, and a program the validator refuses because its servo is off.
MotionPrograms == { <<On, Move, End>>, <<Move, End>> }

\* One motion, or everything else a program can do without a device that answers.
ShortPrograms ==
  MotionPrograms \cup { <<On, Delay(0), Delay(2), End>>, <<On, Output, Wait, Wait, Off, End>> }

OneInput == {"di"}
AllLow == [i \in Inputs |-> FALSE]
NoScenario == <<>>
Change(t, i, v) == [time |-> t, prio |-> ExternalFeedback, type |-> "Input", name |-> i, value |-> v]
Loss(t) == [time |-> t, prio |-> ExternalFeedback, type |-> "ConnectionLoss"]

\* The input comes, and the connection is lost after the task ended or during its last stop.
LateLoss == <<Change(1, "di", TRUE), Loss(3)>>
=============================================================================
