------------------------------ MODULE MCBridge ------------------------------
(***************************************************************************)
(* Small instances of Bridge for TLC.                                      *)
(***************************************************************************)
EXTENDS BridgeProperties

Cmd(type, timeout) == [type |-> type, timeout |-> timeout, input |-> "di", want |-> TRUE]

\* One motion, and a program the validator refuses because its servo is off.
OneProgram == { <<Cmd("SERVO_ON", 0), Cmd("MOVEJ", 1), Cmd("STOP", 0)>> }
GoalPrograms == OneProgram \cup { <<Cmd("MOVEJ", 2)>> }

OneInput == {"di"}
AllLow == [i \in Inputs |-> FALSE]
NoScenario == <<>>
=============================================================================
