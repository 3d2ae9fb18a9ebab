---------------------------- MODULE EventQueue ----------------------------
(***************************************************************************)
(* The pending events of a Runtime Session, src/roborun/event_queue.h.     *)
(*                                                                         *)
(* The code keeps a binary heap ordered by (time, priority, sequence),     *)
(* where sequence is a counter stamped on every insertion.  Here a queue   *)
(* is the sequence of events in the order in which PopNext returns them:   *)
(* Schedule inserts an event behind every event that is not later, so two  *)
(* events of equal time and priority keep their insertion order and the    *)
(* counter is not needed.  EventHeap.tla models the heap itself and shows  *)
(* that it implements this view.                                           *)
(***************************************************************************)
EXTENDS Naturals, Sequences, FiniteSets

(***************************************************************************)
(* RuntimeEventPriority.  A smaller number is served first.                *)
(***************************************************************************)
EmergencyControl  == 0
StopControl       == 1
LifecycleControl  == 2
ExternalFeedback  == 3
CommandCompletion == 4
TimeoutPriority   == 5

Controls == {"PAUSE", "RESUME", "STOP", "ESTOP", "RESET"}

PriorityFor(control) ==
  CASE control = "ESTOP" -> EmergencyControl
    [] control = "STOP"  -> StopControl
    [] OTHER             -> LifecycleControl

\* LaterEventFirst, without the sequence number: a is served strictly before b.
Precedes(a, b) ==
  \/ a.time < b.time
  \/ a.time = b.time /\ a.prio < b.prio

\* Where Schedule puts e: behind the events of q that are not later than e.
Rank(q, e) == Cardinality({i \in DOMAIN q : ~Precedes(e, q[i])})

Schedule(q, e) ==
  SubSeq(q, 1, Rank(q, e)) \o <<e>> \o SubSeq(q, Rank(q, e) + 1, Len(q))

Ordered(q) == \A i, j \in DOMAIN q : i < j => ~Precedes(q[j], q[i])
=============================================================================
