----------------------------- MODULE EventHeap -----------------------------
(***************************************************************************)
(* The event queue as src/roborun/event_queue.h keeps it: a priority queue *)
(* of events, each stamped with a sequence number, from which the top is   *)
(* taken.  std::priority_queue itself is a set of which top() is an        *)
(* element that no other precedes in the order LaterEventFirst; when the   *)
(* order does not decide, any such element may be the top.                 *)
(***************************************************************************)
EXTENDS EventQueue, Integers

CONSTANTS Requests, Capacity, NoRequest, MaxSequence   \* MaxSequence: bound on insertions

ASSUME HeapAssumption == \A r \in Requests : r.time \in Int /\ r.prio \in Int

VARIABLES
  events,        \* events_: requests with their sequence numbers
  nextSequence,  \* next_sequence_
  returned       \* what PopNext returned last

heapVars == <<events, nextSequence, returned>>

HeapInit == events = {} /\ nextSequence = 0 /\ returned = NoRequest

\* Slip: events of equal time and priority are left in any order.
LaterByPriority(left, right) ==
  \/ left.request.time > right.request.time
  \/ left.request.time = right.request.time /\ left.request.prio > right.request.prio

\* left is served after right.
LaterEventFirst(left, right) ==
  \/ left.request.time > right.request.time
  \/ /\ left.request.time = right.request.time
     /\ \/ left.request.prio > right.request.prio
        \/ left.request.prio = right.request.prio /\ left.sequence > right.sequence

Tops == {e \in events : \A f \in events : ~LaterEventFirst(e, f)}

\* Schedule and ScheduleControl.
Push(r) ==
  /\ Cardinality(events) < Capacity /\ nextSequence < MaxSequence
  /\ events' = events \cup {[request |-> r, sequence |-> nextSequence]}
  /\ nextSequence' = nextSequence + 1
  /\ UNCHANGED returned

PopNext ==
  \/ \E top \in Tops :
       events' = events \ {top} /\ returned' = top.request /\ UNCHANGED nextSequence
  \/ events = {} /\ returned' = NoRequest /\ UNCHANGED <<events, nextSequence>>

Clear == events' = {} /\ nextSequence' = 0 /\ UNCHANGED returned

HeapNext == (\E r \in Requests : Push(r)) \/ PopNext \/ Clear

-----------------------------------------------------------------------------
\* The order of service, stated without the comparison of the code.
ServedBefore(e, f) ==
  \/ Precedes(e.request, f.request)
  \/ ~Precedes(f.request, e.request) /\ e.sequence < f.sequence

InService(order, S) ==
  /\ order \in [1 .. Cardinality(S) -> S]
  /\ \A i, j \in DOMAIN order : i < j => ServedBefore(order[i], order[j])

Service(S) == CHOOSE order \in [1 .. Cardinality(S) -> S] : InService(order, S)

InOrder(S) == [n \in 1 .. Cardinality(S) |-> Service(S)[n].request]

List == INSTANCE EventList WITH pending <- InOrder(events), served <- returned

(***************************************************************************)
(* The heap with its restarting sequence numbers is a list kept in order   *)
(* of time, priority and insertion: events of one instant and one priority *)
(* are handled first come, first served, across Clear as well.             *)
(***************************************************************************)
ImplementsList == List!ListSpec
=============================================================================
