----------------------------- MODULE MCWorkcell -----------------------------
(***************************************************************************)
(* Small instances of WorkcellSession for TLC.                             *)
(***************************************************************************)
EXTENDS WorkcellProperties

Cmd(type, timeout) == [type |-> type, timeout |-> timeout, input |-> "item", want |-> TRUE]
On == Cmd("SERVO_ON", 0)
End == Cmd("STOP", 0)

\* One program for each kind of command the workcell is polled for; "item" is the output, the
\* input or the tool it names.
WorkcellPrograms ==
  { <<On, Cmd("SET_DO", 3), End>>,
    <<On, Cmd("SET_TOOL", 2), End>>,
    <<On, Cmd("WAIT_DI", 2), Cmd("DELAY", 1), End>>,
    <<On, Cmd("MOVEJ", 2), End>> }

OneItem == {"item"}
AllLow == [i \in Inputs |-> FALSE]
NoScenario == <<>>
=============================================================================
