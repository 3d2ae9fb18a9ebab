----------------------------- MODULE EventList -----------------------------
(***************************************************************************)
(* What a user of the event queue relies on: pending requests in the order *)
(* in which they will be served, first by time, then by priority, then in  *)
(* the order of insertion.  RuntimeSession uses the operators of           *)
(* EventQueue in this way.                                                 *)
(***************************************************************************)
EXTENDS EventQueue

CONSTANTS
  Requests,   \* what can be scheduled: records with a time and a prio
  Capacity,   \* bound: how many are pending at once
  NoRequest   \* PopNext's answer when nothing is pending

VARIABLES
  pending,    \* the requests, the next one first
  served      \* what PopNext returned last

ListInit == pending = <<>> /\ served = NoRequest

Insert(r) ==
  /\ Len(pending) < Capacity
  /\ pending' = Schedule(pending, r)
  /\ UNCHANGED served

Serve ==
  /\ pending # <<>>
  /\ served' = Head(pending) /\ pending' = Tail(pending)

ServeNothing == pending = <<>> /\ served' = NoRequest /\ UNCHANGED pending

Forget == pending' = <<>> /\ UNCHANGED served

ListNext == (\E r \in Requests : Insert(r)) \/ Serve \/ ServeNothing \/ Forget

ListSpec == ListInit /\ [][ListNext]_<<pending, served>>
=============================================================================
