----------------------------- MODULE Validator -----------------------------
(***************************************************************************)
(* The static check a program passes before a session runs it,             *)
(* src/roborun/validator.cpp.  ValidateProgram walks the commands once     *)
(* with a servo state of its own (ValidatorServoState); a command that is  *)
(* not legal in that state is diagnosed and, as each such branch of the    *)
(* code does, leaves the state alone.                                      *)
(*                                                                         *)
(* A command is a record whose type field is a CommandType.  The checks on *)
(* names, speeds and joint limits concern data that no property here tells *)
(* apart: a program that would fail one of them is represented by a        *)
(* program that is rejected for its servo states.                          *)
(***************************************************************************)
EXTENDS Naturals, Sequences

CommandTypes ==
  {"SERVO_ON", "SERVO_OFF", "MOVEJ", "DELAY", "SET_DO", "WAIT_DI", "SET_TOOL", "STOP"}

\* Slip: only the switching on of the servo is checked.
LegalInAnyServo(type) ==
  IF type = "SERVO_ON" THEN {"ServoOff"} ELSE {"ServoOff", "Ready"}

\* The servo states in which the validator has nothing to say of a command.
LegalIn(type) ==
  CASE type = "SERVO_ON" -> {"ServoOff"}
    [] type = "STOP"     -> {"ServoOff", "Ready"}
    [] OTHER             -> {"Ready"}

ServoStep(servo, type) ==
  IF servo \notin LegalIn(type) THEN servo
  ELSE CASE type = "SERVO_ON"  -> "Ready"
         [] type = "SERVO_OFF" -> "ServoOff"
         [] type = "STOP"      -> "Stopped"
         [] OTHER              -> servo

\* The validator's state after the first n commands of program p.
ServoAfter(p) ==
  LET after[n \in 0 .. Len(p)] ==
        IF n = 0 THEN "ServoOff" ELSE ServoStep(after[n - 1], p[n].type)
  IN after

\* Slip: a program need not end with STOP.
AcceptsUnterminated(p) ==
  p # <<>> /\ \A n \in 1 .. Len(p) : ServoAfter(p)[n - 1] \in LegalIn(p[n].type)

\* ValidateProgram returns no diagnostic.
Accepts(p) ==
  /\ p # <<>>
  /\ \A n \in 1 .. Len(p) : ServoAfter(p)[n - 1] \in LegalIn(p[n].type)
  /\ ServoAfter(p)[Len(p)] = "Stopped"
=============================================================================
