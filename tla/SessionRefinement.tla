------------------------- MODULE SessionRefinement -------------------------
(***************************************************************************)
(* RuntimeSession implements SessionContract.                              *)
(***************************************************************************)
EXTENDS SessionProperties

\* What a host sees of a lifecycle.
PhaseOf(l) ==
  CASE l = "Idle"                                             -> "idle"
    [] l \in {"Running", "Waiting"}                           -> "working"
    [] l = "Paused"                                           -> "held"
    [] l \in {"Pausing", "Stopping", "EmergencyStopping"}     -> "stopping"
    [] l = "Stopped"                                          -> "ended"
    [] l = "EmergencyStopped"                                 -> "latched"
    [] l = "Faulted"                                          -> "faulted"

Contract ==
  INSTANCE SessionContract
    WITH phase <- PhaseOf(lifecycle), mobile <- moving, alarm <- primary, spoiled <- untrusted

(***************************************************************************)
(* Every step of the session is a step its contract allows, or changes     *)
(* nothing a host can see.                                                 *)
(***************************************************************************)
KeepsContract == Contract!ContractSpec
=============================================================================
