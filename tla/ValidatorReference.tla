------------------------ MODULE ValidatorReference ------------------------
(***************************************************************************)
(* The language the validator accepts, stated without walking a program.   *)
(* Every program of at most MaxLength commands is reached by adding one    *)
(* command after the other.                                                *)
(***************************************************************************)
EXTENDS Validator

CONSTANT MaxLength

VARIABLE candidate

AddCommand ==
  /\ Len(candidate) < MaxLength
  /\ \E type \in CommandTypes : candidate' = Append(candidate, [type |-> type])

Types(p, S) == {n \in DOMAIN p : p[n].type \in S}

\* Before command n the last command that switched the servo switched it on.
PoweredAt(p, n) ==
  \E on \in Types(p, {"SERVO_ON"}) :
    on < n /\ \A off \in Types(p, {"SERVO_OFF"}) : ~(on < off /\ off < n)

WellFormed(p) ==
  /\ Types(p, {"STOP"}) # {} /\ Types(p, {"STOP"}) = {Len(p)}
  /\ \A n \in Types(p, {"SERVO_ON"}) : ~PoweredAt(p, n)
  /\ \A n \in Types(p, CommandTypes \ {"SERVO_ON", "STOP"}) : PoweredAt(p, n)

(***************************************************************************)
(* ValidateProgram accepts exactly the programs that end with their only   *)
(* STOP, switch the servo on only when it is off, and do everything else   *)
(* with the servo on.                                                      *)
(***************************************************************************)
AcceptsWellFormed == Accepts(candidate) <=> WellFormed(candidate)
=============================================================================
