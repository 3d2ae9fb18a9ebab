-------------------------- MODULE SessionContract --------------------------
(***************************************************************************)
(* What a Runtime Session promises its host, seen from outside: the phase  *)
(* a host reads from lifecycle_state(), whether the device may be moving,  *)
(* the primary alarm and whether the session can be trusted.  It says      *)
(* nothing of commands, events, deadlines or polls.  RuntimeSession is     *)
(* shown to implement it (see SessionRefinement).                          *)
(***************************************************************************)
VARIABLES phase, mobile, alarm, spoiled

view == <<phase, mobile, alarm, spoiled>>

Phases == {"idle", "working", "held", "stopping", "ended", "latched", "faulted"}
AtRest == {"idle", "ended", "latched", "faulted"}

ContractInit == phase = "idle" /\ ~mobile /\ alarm = "None" /\ ~spoiled

\* Alarms accumulate and the first one stays primary.
AlarmRaised == alarm' \in {"Recoverable", "Fatal"} /\ (alarm # "None" => alarm' = alarm)

(***************************************************************************)
(* A program is accepted or refused by a session that has none and no      *)
(* alarm; whatever the device did before no longer counts.                 *)
(***************************************************************************)
Submission ==
  /\ phase \in {"idle", "ended", "faulted"} /\ alarm = "None"
  /\ phase' \in {"working", "faulted"} /\ ~mobile'
  /\ UNCHANGED <<alarm, spoiled>>

Work == phase = "working" /\ phase' = "working" /\ UNCHANGED <<alarm, spoiled>>

\* A pause between motions needs no stop, and a resumption may start a motion.
Hold == phase = "working" /\ ~mobile /\ phase' = "held" /\ UNCHANGED <<mobile, alarm, spoiled>>
Continue == phase = "held" /\ phase' = "working" /\ UNCHANGED <<alarm, spoiled>>

\* The device is asked to stop: by the program, the operator, a fault or an emergency.
Halt ==
  /\ phase # "stopping" /\ phase' = "stopping"
  /\ phase \in AtRest => mobile' = mobile
  /\ alarm' = alarm \/ AlarmRaised
  /\ UNCHANGED spoiled

(***************************************************************************)
(* The device is confirmed still.  Only then is the task held, ended or    *)
(* latched, and only an alarm leads to the latch or the fault.             *)
(***************************************************************************)
Confirm ==
  /\ phase = "stopping" /\ ~mobile'
  /\ \/ phase' \in {"held", "ended"} /\ alarm = "None" /\ UNCHANGED <<alarm, spoiled>>
     \/ phase' = "latched" /\ ~spoiled /\ AlarmRaised /\ UNCHANGED spoiled
     \/ phase' = "faulted" /\ AlarmRaised /\ (spoiled => spoiled')

(***************************************************************************)
(* The task is given up without a confirmation.  A stop that failed or     *)
(* timed out spoils the session; one that is overtaken by another fault    *)
(* does not, and the alarm then decides whether the session can be reset.  *)
(***************************************************************************)
GiveUp ==
  /\ phase' = "faulted" /\ AlarmRaised
  /\ phase \in AtRest \cup {"stopping"} => mobile' = mobile
  /\ spoiled => spoiled'

\* Without a device to stop, the operator's and the emergency stop are immediate.
StopAlone == phase \in {"working", "held"} /\ ~mobile /\ phase' = "ended" /\ UNCHANGED <<mobile, alarm, spoiled>>
LatchAlone ==
  /\ phase \notin {"stopping", "latched"} /\ ~spoiled
  /\ phase' = "latched" /\ AlarmRaised /\ UNCHANGED <<mobile, spoiled>>

\* RESET: from the latch, or from a fault that began with a recoverable alarm.
Clear ==
  /\ phase = "latched" \/ (phase = "faulted" /\ alarm = "Recoverable")
  /\ ~spoiled
  /\ phase' = "idle" /\ alarm' = "None"
  /\ UNCHANGED <<mobile, spoiled>>

ContractNext ==
  \/ Submission \/ Work \/ Hold \/ Continue \/ Halt \/ Confirm \/ GiveUp
  \/ StopAlone \/ LatchAlone \/ Clear

ContractSpec == ContractInit /\ [][ContractNext]_view
=============================================================================
