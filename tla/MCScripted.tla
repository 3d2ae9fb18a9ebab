---------------------------- MODULE MCScripted ----------------------------
(***************************************************************************)
(* Small instances of ScriptedSession for TLC.                             *)
(***************************************************************************)
EXTENDS ScriptedSession, MCSession

Hop == Cmd("MOVEJ", 1)
Release == [type |-> "SET_TOOL", timeout |-> 3, input |-> "tool", want |-> FALSE]
Grip == [type |-> "SET_TOOL", timeout |-> 3, input |-> "tool", want |-> TRUE]

\* Motions and delays in a row, so that events of an earlier command may still be pending, and
\* everything a program can wait for; the tool does not open again.  The last program is refused
\* because it does not end with STOP.
AnyPrograms == { <<On, Hop, Hop, End>>, <<On, Delay(2), Delay(2), End>>,
                 <<On, Wait, Grip, Off, End>>,
                 <<On, Output, Delay(0), Wait, Release, End>>,
                 <<On, Delay(1)>> }

\* Motions with time enough for a pause.
PlannedPrograms == { <<On, Move, Move, End>>, <<On, Delay(2), Wait, End>>, <<Move, End>> }

TwoInputs == {"di", "tool"}

\* Inputs come and go, also at the instant at which a control arrives, until the connection is
\* lost.
Feedback == <<Change(0, "di", TRUE), Change(1, "di", FALSE), Change(2, "tool", TRUE),
              ControlEvent(3, "PAUSE"), Change(4, "di", TRUE), Loss(5)>>

Plan(result, delay) == [outcome |-> result, delay |-> delay]
Plans(motions, stops) == [motions |-> motions, stops |-> stops]

\* Maps from numbers to plans; every number up to the last one has a plan here.
PlannedTasks ==
  { Plans(<<>>, <<Plan("rejected", 0)>>),
    Plans(<<>>, <<Plan("never", 0)>>),
    Plans(<<Plan("delayed", 10)>>, <<Plan("delayed", 1), Plan("failed", 0)>>),
    Plans(<<Plan("delayed", 1), Plan("frozen", 0)>>, <<Plan("immediate", 0), Plan("delayed", 10)>>),
    Plans(<<Plan("immediate", 0), Plan("rejected", 0)>>, <<>>) }
=============================================================================
