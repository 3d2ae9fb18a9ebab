---------------------------- MODULE BridgeProofs ----------------------------
(***************************************************************************)
(* What holds of the ROS 2 bridge, for every value of the constants: no    *)
(* goal is lost, whatever the session does; the session behind the bridge  *)
(* keeps what it promises any host; a goal reports its own task's outcome, *)
(* and a control that reached the session is handled.                      *)
(***************************************************************************)
EXTENDS BridgeProperties, SessionContractProofs, FiniteSetTheorems, SequenceTheorems, TLAPS

QueueHolds(q, g) == \E n \in DOMAIN q : q[n] = ProgramRequest(g)
HasProgram(q) == \E n \in DOMAIN q : q[n].kind = "Program"
OneAtMost(q) == \A m, n \in DOMAIN q : q[m].kind = "Program" /\ q[n].kind = "Program" => m = n

(***************************************************************************)
(* A goal without a result is held by exactly one place: the executor, the *)
(* queue, the request at hand or the active goal; each place excludes the  *)
(* others, and all of them need the reservation, which the worker gives    *)
(* back only when they are empty.                                          *)
(***************************************************************************)
Enqueuing(g) == executor.at = "enqueuing" /\ executor.goal = g

Held(g) ==
  Enqueuing(g) \/ QueueHolds(requests, g) \/ current = ProgramRequest(g) \/ activeGoal = g

Occupied ==
  executor.at = "enqueuing" \/ HasProgram(requests) \/ current.kind = "Program" \/ activeGoal # 0

GoalsHeld == \A g \in Goals : Unfinished(g) <=> Held(g)

HeldOnce ==
  /\ executor.at = "enqueuing" =>
       ~HasProgram(requests) /\ current.kind # "Program" /\ activeGoal = 0
  /\ HasProgram(requests) => current.kind # "Program" /\ activeGoal = 0
  /\ current.kind = "Program" => activeGoal = 0
  /\ OneAtMost(requests)

ReservationKept ==
  /\ Occupied => goalReserved
  /\ worker \in {"inactive", "unreserving"} => ~Occupied /\ goalReserved

(***************************************************************************)
(* Where the threads are, as far as it matters: after the loop the queue   *)
(* is empty and nobody fills it, and the worker ends without a goal.       *)
(***************************************************************************)
AfterLoop == {"draining", "stopping", "closing", "done"}

ThreadsInStep ==
  /\ executor.at = "enqueuing" => executor.goal \in Goals
  /\ stopping => executor.at = "joining"
  /\ worker # "processing" => current = NoRequest
  /\ worker \in {"finishing", "rejecting", "stopping"} => activeGoal # 0
  /\ worker \in AfterLoop => stopping /\ requests = <<>>
  /\ worker = "closing" /\ activeGoal # 0 => terminal
  /\ worker = "done" => activeGoal = 0

BridgeInv == BridgeTypeOK /\ GoalsHeld /\ HeldOnce /\ ReservationKept /\ ThreadsInStep

-----------------------------------------------------------------------------
(***************************************************************************)
(* Requests, and what the operations on the queue do to the goals in it.   *)
(***************************************************************************)
LEMMA RequestFacts ==
  /\ \A g \in Goals : ProgramRequest(g) \in Request
  /\ \A c \in Controls, cancel \in BOOLEAN : ControlRequest(c, cancel) \in Request
  /\ \A g : ProgramRequest(g).kind = "Program" /\ ProgramRequest(g).goal = g
  /\ \A c, cancel : ControlRequest(c, cancel).kind = "Control"
  /\ NoRequest.kind = "None"
  /\ \A r \in Request : \/ r.kind = "Program" /\ r.goal \in Goals /\ r = ProgramRequest(r.goal)
                        \/ r.kind = "Control" /\ r.control \in Controls /\ r.cancel \in BOOLEAN
<1>1. /\ \A g \in Goals : ProgramRequest(g) \in Request
      /\ \A c \in Controls, cancel \in BOOLEAN : ControlRequest(c, cancel) \in Request
  BY DEF Request
<1>2. /\ \A g : ProgramRequest(g).kind = "Program" /\ ProgramRequest(g).goal = g
      /\ \A c, cancel : ControlRequest(c, cancel).kind = "Control"
      /\ \A c, cancel : ControlRequest(c, cancel).control = c
      /\ \A c, cancel : ControlRequest(c, cancel).cancel = cancel
      /\ NoRequest.kind = "None"
  BY DEF ProgramRequest, ControlRequest, NoRequest
<1>3. ASSUME NEW r \in Request
      PROVE  \/ \E g \in Goals : r = ProgramRequest(g)
             \/ \E c \in Controls, cancel \in BOOLEAN : r = ControlRequest(c, cancel)
  BY DEF Request
<1>4. \A r \in Request :
        \/ r.kind = "Program" /\ r.goal \in Goals /\ r = ProgramRequest(r.goal)
        \/ r.kind = "Control" /\ r.control \in Controls /\ r.cancel \in BOOLEAN
  <2>1. TAKE r \in Request
  <2>2. CASE \E g \in Goals : r = ProgramRequest(g)
    <3>1. PICK g \in Goals : r = ProgramRequest(g)
      BY <2>2
    <3>2. r.kind = "Program" /\ r.goal = g
      BY <1>2, <3>1
    <3> QED
      BY <3>1, <3>2
  <2>3. CASE \E c \in Controls, cancel \in BOOLEAN : r = ControlRequest(c, cancel)
    BY <1>2, <2>3
  <2> QED
    BY <1>3, <2>2, <2>3
<1> QED
  BY <1>1, <1>2, <1>4

LEMMA EmptyHoldsNothing ==
  ~HasProgram(<<>>) /\ OneAtMost(<<>>) /\ <<>> \in Seq(Request)
BY DEF HasProgram, OneAtMost

LEMMA HeldIsProgram ==
  ASSUME NEW q, NEW g, QueueHolds(q, g)
  PROVE  HasProgram(q)
BY RequestFacts DEF QueueHolds, HasProgram

LEMMA AppendItems ==
  ASSUME NEW q \in Seq(Request), NEW r \in Request, NEW p, p = Append(q, r)
  PROVE  /\ p \in Seq(Request) /\ Len(p) = Len(q) + 1
         /\ \A n \in DOMAIN q : n \in DOMAIN p /\ n # Len(p) /\ p[n] = q[n]
         /\ \A n \in DOMAIN p : n = Len(p) \/ (n \in DOMAIN q /\ p[n] = q[n])
         /\ p[Len(p)] = r /\ Len(p) \in DOMAIN p /\ DOMAIN p = 1 .. Len(p)
BY AppendProperties, LenProperties

LEMMA TailItems ==
  ASSUME NEW q \in Seq(Request), q # <<>>
  PROVE  /\ DOMAIN q = 1 .. Len(q) /\ Len(q) \in Nat \ {0} /\ 1 \in DOMAIN q
         /\ Head(q) = q[1] /\ Head(q) \in Request
         /\ Tail(q) \in Seq(Request) /\ Len(Tail(q)) = Len(q) - 1
         /\ DOMAIN Tail(q) \subseteq Int
         /\ \A n \in DOMAIN Tail(q) : n + 1 \in DOMAIN q /\ n + 1 > 1 /\ Tail(q)[n] = q[n + 1]
         /\ \A n \in DOMAIN q : n = 1 \/ (n - 1 \in DOMAIN Tail(q) /\ Tail(q)[n - 1] = q[n])
<1>1. /\ DOMAIN q = 1 .. Len(q) /\ Len(q) \in Nat \ {0}
      /\ Head(q) = q[1] /\ Head(q) \in Request
      /\ Tail(q) \in Seq(Request) /\ Len(Tail(q)) = Len(q) - 1
      /\ DOMAIN Tail(q) = 1 .. Len(q) - 1
      /\ \A n \in 1 .. Len(q) - 1 : Tail(q)[n] = q[n + 1]
  BY HeadTailProperties, LenProperties, EmptySeq
<1>2. /\ DOMAIN Tail(q) \subseteq Int
      /\ \A n \in DOMAIN Tail(q) : n + 1 \in DOMAIN q /\ n + 1 > 1 /\ Tail(q)[n] = q[n + 1]
  BY <1>1
<1>3. 1 \in DOMAIN q
  BY <1>1
<1>4. \A n \in DOMAIN q : n = 1 \/ (n - 1 \in DOMAIN Tail(q) /\ Tail(q)[n - 1] = q[n])
  BY <1>1
<1> QED
  BY <1>1, <1>2, <1>3, <1>4

LEMMA FrontItems ==
  ASSUME NEW q \in Seq(Request), NEW r \in Request, NEW p, p = <<r>> \o q
  PROVE  /\ p \in Seq(Request) /\ Len(p) = Len(q) + 1 /\ p[1] = r /\ 1 \in DOMAIN p
         /\ \A n \in DOMAIN p : n = 1 \/ (n - 1 \in DOMAIN q /\ p[n] = q[n - 1])
         /\ \A n \in DOMAIN q : n + 1 \in DOMAIN p /\ p[n + 1] = q[n]
         /\ DOMAIN p = 1 .. Len(q) + 1
<1>1. DOMAIN q = 1 .. Len(q) /\ Len(q) \in Nat
  BY LenProperties
<1> DEFINE one == <<r>>
<1>2. one \in Seq(Request) /\ Len(one) = 1 /\ one[1] = r
  OBVIOUS
<1>3. p = one \o q
  BY Zenon
<1> HIDE DEF one
<1>4. /\ one \o q \in Seq(Request) /\ Len(one \o q) = Len(one) + Len(q)
      /\ \A n \in 1 .. Len(one) + Len(q) :
           (one \o q)[n] = IF n <= Len(one) THEN one[n] ELSE q[n - Len(one)]
  BY <1>2, ConcatProperties, Zenon
<1>5. /\ p \in Seq(Request) /\ Len(p) = 1 + Len(q)
      /\ \A n \in 1 .. 1 + Len(q) : p[n] = IF n <= 1 THEN r ELSE q[n - 1]
  BY <1>1, <1>2, <1>3, <1>4
<1>6. DOMAIN p = 1 .. Len(q) + 1
  BY <1>1, <1>5, LenProperties
<1>7. p[1] = r /\ 1 \in DOMAIN p
  BY <1>1, <1>5, <1>6
<1>8. \A n \in DOMAIN p : n = 1 \/ (n - 1 \in DOMAIN q /\ p[n] = q[n - 1])
  BY <1>1, <1>5, <1>6
<1>9. ASSUME NEW n \in DOMAIN q
      PROVE  n + 1 \in DOMAIN p /\ p[n + 1] = q[n]
  <2>1. n + 1 \in 1 .. 1 + Len(q) /\ ~(n + 1 <= 1) /\ (n + 1) - 1 = n
    BY <1>1
  <2> QED
    BY <1>5, <1>6, <2>1
<1> QED
  BY <1>1, <1>5, <1>6, <1>7, <1>8, <1>9

LEMMA AddProgram ==
  ASSUME NEW q \in Seq(Request), NEW h \in Goals, ~HasProgram(q)
  PROVE  LET p == Append(q, ProgramRequest(h))
         IN  /\ p \in Seq(Request) /\ Len(p) = Len(q) + 1
             /\ HasProgram(p) /\ OneAtMost(p)
             /\ \A g \in Goals : QueueHolds(p, g) <=> g = h
<1> DEFINE p == Append(q, ProgramRequest(h))
<1>1. /\ p \in Seq(Request) /\ Len(p) = Len(q) + 1 /\ DOMAIN p = 1 .. Len(q) + 1
      /\ DOMAIN q = 1 .. Len(q) /\ Len(q) \in Nat
      /\ \A n \in 1 .. Len(q) : p[n] = q[n]
      /\ p[Len(q) + 1] = ProgramRequest(h)
  BY RequestFacts, AppendProperties, LenProperties
<1>2. \A n \in DOMAIN p : p[n].kind = "Program" <=> n = Len(q) + 1
  BY <1>1, RequestFacts DEF HasProgram
<1> HIDE DEF p
<1>3. HasProgram(p) /\ OneAtMost(p)
  BY <1>1, <1>2 DEF HasProgram, OneAtMost
<1>4. \A g \in Goals : QueueHolds(p, g) <=> g = h
  BY <1>1, <1>2, RequestFacts DEF QueueHolds
<1> QED
  BY <1>1, <1>3, <1>4 DEF p

LEMMA AddControl ==
  ASSUME NEW q \in Seq(Request), NEW r \in Request, r.kind = "Control",
         NEW p \in {Append(q, r), <<r>> \o q}
  PROVE  /\ p \in Seq(Request) /\ Len(p) = Len(q) + 1
         /\ HasProgram(p) <=> HasProgram(q)
         /\ OneAtMost(q) => OneAtMost(p)
         /\ \A g : QueueHolds(p, g) <=> QueueHolds(q, g)
<1>1. DOMAIN q = 1 .. Len(q) /\ Len(q) \in Nat
  BY LenProperties
<1>2. \A g : r # ProgramRequest(g)
  BY RequestFacts
<1>3. CASE p = Append(q, r)
  <2>1. /\ p \in Seq(Request) /\ Len(p) = Len(q) + 1 /\ DOMAIN p = 1 .. Len(q) + 1
        /\ \A n \in 1 .. Len(q) : p[n] = q[n]
        /\ p[Len(q) + 1] = r
    BY <1>3, AppendProperties, LenProperties
  <2>2. HasProgram(p) <=> HasProgram(q)
    BY <1>1, <2>1 DEF HasProgram
  <2>3. OneAtMost(q) => OneAtMost(p)
    BY <1>1, <2>1 DEF OneAtMost
  <2>4. \A g : QueueHolds(p, g) <=> QueueHolds(q, g)
    <3>1. \A n \in DOMAIN p : p[n] = r \/ (n \in DOMAIN q /\ p[n] = q[n])
      BY <1>1, <2>1
    <3>2. \A n \in DOMAIN q : n \in DOMAIN p /\ p[n] = q[n]
      BY <1>1, <2>1
    <3> QED
      BY <1>2, <3>1, <3>2, Zenon DEF QueueHolds
  <2> QED
    BY <2>1, <2>2, <2>3, <2>4
<1>4. CASE p = <<r>> \o q
  <2>1. /\ p \in Seq(Request) /\ Len(p) = Len(q) + 1 /\ p[1] = r /\ 1 \in DOMAIN p
        /\ DOMAIN p = 1 .. Len(q) + 1
    BY <1>4, FrontItems
  <2>2. \A n \in DOMAIN p : n = 1 \/ (n - 1 \in DOMAIN q /\ p[n] = q[n - 1])
    BY <1>4, FrontItems
  <2>3. \A n \in DOMAIN q : n + 1 \in DOMAIN p /\ p[n + 1] = q[n]
    BY <1>4, FrontItems
  <2>4. HasProgram(p) <=> HasProgram(q)
    BY <2>1, <2>2, <2>3 DEF HasProgram
  <2>5. OneAtMost(q) => OneAtMost(p)
    <3>1. SUFFICES ASSUME OneAtMost(q), NEW m \in DOMAIN p, NEW n \in DOMAIN p,
                          p[m].kind = "Program", p[n].kind = "Program"
                   PROVE  m = n
      BY DEF OneAtMost
    <3>2. /\ m - 1 \in DOMAIN q /\ q[m - 1].kind = "Program"
          /\ n - 1 \in DOMAIN q /\ q[n - 1].kind = "Program"
      BY <2>1, <2>2, <3>1
    <3>3. m - 1 = n - 1
      BY <3>1, <3>2 DEF OneAtMost
    <3> QED
      BY <2>1, <3>3
  <2>6. \A g : QueueHolds(p, g) <=> QueueHolds(q, g)
    BY <1>2, <2>1, <2>2, <2>3 DEF QueueHolds
  <2> QED
    BY <2>1, <2>4, <2>5, <2>6
<1> QED
  BY <1>3, <1>4

LEMMA TakeFirst ==
  ASSUME NEW q \in Seq(Request), q # <<>>, OneAtMost(q)
  PROVE  /\ Head(q) \in Request /\ Tail(q) \in Seq(Request) /\ Len(Tail(q)) = Len(q) - 1
         /\ OneAtMost(Tail(q))
         /\ HasProgram(q) <=> Head(q).kind = "Program" \/ HasProgram(Tail(q))
         /\ Head(q).kind = "Program" => ~HasProgram(Tail(q))
         /\ \A g : QueueHolds(q, g) <=> Head(q) = ProgramRequest(g) \/ QueueHolds(Tail(q), g)
<1>1. /\ Head(q) = q[1] /\ Head(q) \in Request
      /\ Tail(q) \in Seq(Request) /\ Len(Tail(q)) = Len(q) - 1 /\ DOMAIN Tail(q) \subseteq Int
  BY TailItems
<1>2. \A n \in DOMAIN Tail(q) : n + 1 \in DOMAIN q /\ n + 1 # 1 /\ Tail(q)[n] = q[n + 1]
  BY TailItems
<1>3. 1 \in DOMAIN q
  BY TailItems
<1>4. \A n \in DOMAIN q : n = 1 \/ (n - 1 \in DOMAIN Tail(q) /\ Tail(q)[n - 1] = q[n])
  BY TailItems
<1>5. OneAtMost(Tail(q))
  <2>1. SUFFICES ASSUME NEW m \in DOMAIN Tail(q), NEW n \in DOMAIN Tail(q),
                        Tail(q)[m].kind = "Program", Tail(q)[n].kind = "Program"
                 PROVE  m = n
    BY DEF OneAtMost
  <2>2. m + 1 = n + 1
    BY <1>2, <2>1 DEF OneAtMost
  <2> QED
    BY <1>1, <2>2
<1>6. HasProgram(q) <=> Head(q).kind = "Program" \/ HasProgram(Tail(q))
  BY <1>1, <1>2, <1>3, <1>4 DEF HasProgram
<1>7. Head(q).kind = "Program" => ~HasProgram(Tail(q))
  BY <1>1, <1>2, <1>3 DEF HasProgram, OneAtMost
<1>8. \A g : QueueHolds(q, g) <=> Head(q) = ProgramRequest(g) \/ QueueHolds(Tail(q), g)
  BY <1>1, <1>2, <1>3, <1>4 DEF QueueHolds
<1> QED
  BY <1>1, <1>5, <1>6, <1>7, <1>8

LEMMA EnqueuedProgram ==
  ASSUME BridgeInv, CanEnqueue, NEW g \in Goals, ~HasProgram(requests)
  PROVE  LET p == Enqueued(ProgramRequest(g))
         IN  /\ p \in Seq(Request) /\ Len(p) <= Capacity
             /\ HasProgram(p) /\ OneAtMost(p)
             /\ \A f \in Goals : QueueHolds(p, f) <=> f = g
<1>1. Enqueued(ProgramRequest(g)) = Append(requests, ProgramRequest(g))
  BY RequestFacts DEF Enqueued
<1>2. requests \in Seq(Request) /\ Len(requests) < Capacity /\ Len(requests) \in Nat
  BY LenProperties DEF BridgeInv, BridgeTypeOK, CanEnqueue
<1> QED
  BY <1>1, <1>2, AddProgram, BridgeAssumption

LEMMA EnqueuedControl ==
  ASSUME BridgeInv, CanEnqueue, NEW c \in Controls, NEW cancel \in BOOLEAN
  PROVE  LET p == Enqueued(ControlRequest(c, cancel))
         IN  /\ p \in Seq(Request) /\ Len(p) <= Capacity
             /\ HasProgram(p) <=> HasProgram(requests)
             /\ OneAtMost(requests) => OneAtMost(p)
             /\ \A f \in Goals : QueueHolds(p, f) <=> QueueHolds(requests, f)
<1> DEFINE r == ControlRequest(c, cancel)
           p == Enqueued(r)
<1>1. p \in {Append(requests, r), <<r>> \o requests}
  BY DEF Enqueued
<1>2. requests \in Seq(Request) /\ Len(requests) < Capacity /\ Len(requests) \in Nat
  BY LenProperties DEF BridgeInv, BridgeTypeOK, CanEnqueue
<1>3. r \in Request /\ r.kind = "Control"
  BY RequestFacts
<1> HIDE DEF r, p
<1>4. /\ p \in Seq(Request) /\ Len(p) = Len(requests) + 1
      /\ HasProgram(p) <=> HasProgram(requests)
      /\ OneAtMost(requests) => OneAtMost(p)
      /\ \A f : QueueHolds(p, f) <=> QueueHolds(requests, f)
  BY <1>1, <1>2, <1>3, AddControl
<1>5. Len(p) <= Capacity
  BY <1>2, <1>4, BridgeAssumption
<1> QED
  BY <1>4, <1>5 DEF p, r

-----------------------------------------------------------------------------
(***************************************************************************)
(* The executor thread keeps BridgeInv.                                    *)
(***************************************************************************)
LEMMA AcceptGoalKeeps ==
  ASSUME BridgeInv, NEW g \in Goals, AcceptGoal(g)
  PROVE  BridgeInv'
<1>1. CASE goalReserved
  <2>1. /\ goals' = [goals EXCEPT ![g] = "rejected"] /\ UNCHANGED <<executor, goalReserved>>
        /\ UNCHANGED <<requests, stopping, cancelQueued, taskActive, workerVars, services, terminal>>
    BY <1>1 DEF AcceptGoal, BridgeInv, BridgeTypeOK, vars
  <2>2. ~Held(g)
    BY DEF AcceptGoal, SendsNext, BridgeInv, GoalsHeld, Unfinished, Unsent
  <2>3. \A f \in Goals : Held(f)' <=> Held(f)
    BY <2>1 DEF Held, Enqueuing, QueueHolds, workerVars
  <2>4. BridgeTypeOK'
    BY <2>1 DEF BridgeInv, BridgeTypeOK, workerVars, Ended
  <2>5. GoalsHeld'
    BY <2>1, <2>2, <2>3 DEF BridgeInv, BridgeTypeOK, GoalsHeld, Unfinished
  <2>6. HeldOnce' /\ ReservationKept' /\ ThreadsInStep'
    BY <2>1 DEF BridgeInv, HeldOnce, ReservationKept, ThreadsInStep, Occupied, HasProgram,
       OneAtMost, workerVars
  <2> QED
    BY <2>4, <2>5, <2>6 DEF BridgeInv
<1>2. CASE ~goalReserved
  <2>1. /\ goals' = [goals EXCEPT ![g] = "executing"] /\ goalReserved'
        /\ executor' = [at |-> "enqueuing", goal |-> g] /\ executor.at = "spinning"
        /\ UNCHANGED <<requests, stopping, cancelQueued, taskActive, workerVars, services, terminal>>
    BY <1>2 DEF AcceptGoal, ExecutorAt, Spinning, vars
  <2>2. ~Occupied /\ worker \notin {"inactive", "unreserving"}
    BY <1>2 DEF BridgeInv, ReservationKept
  <2>3. \A f \in Goals : ~Held(f)
    BY <2>2, HeldIsProgram, RequestFacts DEF Occupied, Held, Enqueuing, Goals
  <2>4. \A f \in Goals : Held(f)' <=> f = g
    BY <2>1, <2>3 DEF Held, Enqueuing, QueueHolds, workerVars
  <2>5. BridgeTypeOK'
    BY <2>1 DEF BridgeInv, BridgeTypeOK, workerVars, ExecutorPlaces
  <2>6. GoalsHeld'
    BY <2>1, <2>3, <2>4 DEF BridgeInv, BridgeTypeOK, GoalsHeld, Unfinished
  <2>7. HeldOnce' /\ ReservationKept' /\ ThreadsInStep'
    BY <2>1, <2>2 DEF BridgeInv, HeldOnce, ReservationKept, ThreadsInStep, Occupied, HasProgram,
       OneAtMost, workerVars
  <2> QED
    BY <2>5, <2>6, <2>7 DEF BridgeInv
<1> QED
  BY <1>1, <1>2

\* A step of the executor thread that moves no program.
LEMMA ProgramsStay ==
  ASSUME BridgeInv, executor.at # "enqueuing", executor'.at # "enqueuing",
         UNCHANGED <<goalReserved, worker, current, activeGoal>>,
         HasProgram(requests') <=> HasProgram(requests), OneAtMost(requests'),
         \A g \in Goals : QueueHolds(requests', g) <=> QueueHolds(requests, g),
         \A g \in Goals : Unfinished(g)' <=> Unfinished(g)
  PROVE  GoalsHeld' /\ HeldOnce' /\ ReservationKept'
<1>1. \A g \in Goals : Held(g)' <=> Held(g)
  BY DEF Held, Enqueuing
<1>2. GoalsHeld'
  BY <1>1 DEF GoalsHeld, BridgeInv
<1>3. HeldOnce' /\ ReservationKept'
  BY DEF HeldOnce, ReservationKept, Occupied, BridgeInv
<1> QED
  BY <1>2, <1>3

LEMMA ExecutorRuns ==
  ASSUME BridgeInv, executor.at # "joining"
  PROVE  ~stopping /\ worker \notin AfterLoop
BY DEF BridgeInv, ThreadsInStep

LEMMA QueueFits ==
  ASSUME BridgeInv, ~stopping
  PROVE  requests \in Seq(Request) /\ Len(requests) \in Nat /\ Len(requests) <= Capacity
<1>1. requests \in Seq(Request) /\ Len(requests) <= Capacity + 0
  BY DEF BridgeInv, BridgeTypeOK
<1>2. Len(requests) \in Nat /\ Capacity \in Nat
  BY <1>1, LenProperties, BridgeAssumption
<1> QED
  BY <1>1, <1>2

LEMMA AcceptGoalHandleKeeps ==
  ASSUME BridgeInv, AcceptGoalHandle
  PROVE  BridgeInv'
<1> DEFINE g == executor.goal
<1>1. /\ executor.at = "enqueuing" /\ g \in Goals /\ executor' = [at |-> "spinning", goal |-> 0]
      /\ ~stopping /\ worker \notin AfterLoop /\ goalReserved
      /\ UNCHANGED <<stopping, cancelQueued, taskActive, workerVars, services, terminal>>
  BY ExecutorRuns DEF AcceptGoalHandle, ExecutorAt, BridgeInv, ThreadsInStep, ReservationKept,
     Occupied, vars
<1>2. ~HasProgram(requests) /\ current.kind # "Program" /\ activeGoal = 0
  BY <1>1 DEF BridgeInv, HeldOnce
<1>3. \A f \in Goals : Held(f) <=> f = g
  BY <1>1, <1>2, HeldIsProgram, RequestFacts DEF Held, Enqueuing, Goals
<1>4. worker \notin {"inactive", "unreserving"}
  BY <1>1 DEF BridgeInv, ReservationKept, Occupied
<1>5. CASE CanEnqueue
  <2>1. requests' = Enqueued(ProgramRequest(g)) /\ UNCHANGED <<goals, goalReserved>>
    BY <1>5 DEF AcceptGoalHandle
  <2>2. /\ requests' \in Seq(Request) /\ Len(requests') <= Capacity
        /\ HasProgram(requests') /\ OneAtMost(requests')
        /\ \A f \in Goals : QueueHolds(requests', f) <=> f = g
    BY <1>1, <1>2, <1>5, <2>1, EnqueuedProgram
  <2>3. \A f \in Goals : Held(f)' <=> f = g
    BY <1>1, <1>2, <2>2, RequestFacts DEF Held, Enqueuing, workerVars, Goals
  <2>4. BridgeTypeOK'
    BY <1>1, <2>1, <2>2, BridgeAssumption DEF BridgeInv, BridgeTypeOK, workerVars, ExecutorPlaces
  <2>5. GoalsHeld'
    BY <1>3, <2>1, <2>3 DEF BridgeInv, GoalsHeld, Unfinished
  <2>6. HeldOnce' /\ ReservationKept' /\ ThreadsInStep'
    BY <1>1, <1>2, <1>4, <2>1, <2>2 DEF BridgeInv, HeldOnce, ReservationKept, ThreadsInStep, Occupied,
       workerVars
  <2> QED
    BY <2>4, <2>5, <2>6 DEF BridgeInv
<1>6. CASE ~CanEnqueue
  <2>1. /\ goals' = [goals EXCEPT ![g] = "aborted"] /\ goalReserved' = FALSE
        /\ UNCHANGED requests
    BY <1>6 DEF AcceptGoalHandle
  <2>2. \A f \in Goals : ~Held(f)'
    BY <1>1, <1>2, <2>1, HeldIsProgram, RequestFacts DEF Held, Enqueuing, workerVars, Goals
  <2>3. BridgeTypeOK'
    BY <1>1, <2>1 DEF BridgeInv, BridgeTypeOK, workerVars, ExecutorPlaces, Ended
  <2>4. GoalsHeld'
    BY <1>3, <2>1, <2>2 DEF BridgeInv, BridgeTypeOK, GoalsHeld, Unfinished
  <2>5. HeldOnce' /\ ReservationKept' /\ ThreadsInStep'
    BY <1>1, <1>2, <1>4, <2>1 DEF BridgeInv, HeldOnce, ReservationKept, ThreadsInStep, Occupied,
       workerVars
  <2> QED
    BY <2>3, <2>4, <2>5 DEF BridgeInv
<1> QED
  BY <1>5, <1>6

LEMMA CancelGoalKeeps ==
  ASSUME BridgeInv, (\E g \in Goals : CancelGoal(g)) \/ ClaimCancel \/ AnswerCancel
  PROVE  BridgeInv'
<1>1. /\ executor.at \in {"spinning", "claiming", "answering"}
      /\ executor' \in [at : ExecutorPlaces \ {"enqueuing"}, goal : Goals \cup {0}]
      /\ cancelQueued' \in BOOLEAN
      /\ UNCHANGED <<requests, stopping, goalReserved, taskActive, workerVars, services, terminal>>
  <2>1. executor \in [at : ExecutorPlaces, goal : Goals \cup {0}] /\ cancelQueued \in BOOLEAN
    BY DEF BridgeInv, BridgeTypeOK
  <2>2. CASE \E g \in Goals : CancelGoal(g)
    BY <2>1, <2>2 DEF CancelGoal, Spinning, ExecutorAt, ExecutorPlaces, vars, sharedVars
  <2>3. CASE ClaimCancel
    BY <2>1, <2>3 DEF ClaimCancel, ExecutorAt, ExecutorPlaces, vars
  <2>4. CASE AnswerCancel
    BY <2>1, <2>4 DEF AnswerCancel, ExecutorAt, ExecutorPlaces, vars, sharedVars
  <2> QED
    BY <2>2, <2>3, <2>4
<1>2. /\ goals' \in [Goals -> {Unsent, "executing", "canceling"} \cup Ended]
      /\ \A g \in Goals : Unfinished(g)' <=> Unfinished(g)
  BY DEF CancelGoal, ClaimCancel, AnswerCancel, Unfinished, BridgeInv, BridgeTypeOK
<1>3. ~stopping /\ worker \notin AfterLoop
  BY <1>1, ExecutorRuns
<1>4. BridgeTypeOK'
  BY <1>1, <1>2 DEF BridgeInv, BridgeTypeOK, workerVars
<1>5. GoalsHeld' /\ HeldOnce' /\ ReservationKept'
  BY <1>1, <1>2, ProgramsStay DEF workerVars, BridgeInv, HeldOnce
<1>6. ThreadsInStep'
  BY <1>1, <1>3 DEF BridgeInv, ThreadsInStep, workerVars
<1> QED
  BY <1>4, <1>5, <1>6 DEF BridgeInv

LEMMA QueueControlKeeps ==
  ASSUME BridgeInv, QueueCancel \/ \E c \in ControlsUsed : SubmitServiceControl(c)
  PROVE  BridgeInv'
<1>1. /\ executor.at \in {"queuing", "spinning"}
      /\ executor' \in [at : ExecutorPlaces \ {"enqueuing"}, goal : Goals \cup {0}]
      /\ cancelQueued' \in BOOLEAN /\ services' \in 0 .. MaxServices
      /\ UNCHANGED <<goals, stopping, goalReserved, taskActive, workerVars, terminal>>
  <2>1. executor \in [at : ExecutorPlaces, goal : Goals \cup {0}] /\ cancelQueued \in BOOLEAN
        /\ services \in 0 .. MaxServices
    BY DEF BridgeInv, BridgeTypeOK
  <2>2. CASE QueueCancel
    <3>1. /\ executor.at = "queuing" /\ UNCHANGED <<goals, stopping, goalReserved, taskActive>>
          /\ UNCHANGED <<workerVars, services, terminal>>
      BY <2>2 DEF QueueCancel, vars
    <3>2. /\ executor' \in {[at |-> "answering", goal |-> executor.goal], [at |-> "spinning", goal |-> 0]}
          /\ cancelQueued' \in BOOLEAN
      BY <2>1, <2>2 DEF QueueCancel, ExecutorAt
    <3>3. executor.goal \in Goals \cup {0}
      BY <2>1
    <3>4. executor' \in [at : ExecutorPlaces \ {"enqueuing"}, goal : Goals \cup {0}]
      BY <3>2, <3>3 DEF ExecutorPlaces
    <3> QED
      BY <2>1, <3>1, <3>2, <3>4
  <2>3. CASE \E c \in ControlsUsed : SubmitServiceControl(c)
    BY <2>1, <2>3, BridgeAssumption DEF SubmitServiceControl, Spinning, ExecutorPlaces, vars
  <2> QED
    BY <2>2, <2>3
<1>2. ~stopping /\ worker \notin AfterLoop
  BY <1>1, ExecutorRuns
<1>3. \/ UNCHANGED requests
      \/ CanEnqueue /\ \E c \in Controls, cancel \in BOOLEAN :
                          requests' = Enqueued(ControlRequest(c, cancel))
  BY SessionAssumption DEF QueueCancel, SubmitServiceControl, Controls
<1>4. /\ requests' \in Seq(Request) /\ Len(requests') <= Capacity
      /\ HasProgram(requests') <=> HasProgram(requests)
      /\ OneAtMost(requests')
      /\ \A g \in Goals : QueueHolds(requests', g) <=> QueueHolds(requests, g)
  <2>1. CASE UNCHANGED requests
    BY <1>2, <2>1, QueueFits DEF BridgeInv, HeldOnce
  <2>2. CASE CanEnqueue /\ \E c \in Controls, cancel \in BOOLEAN :
                              requests' = Enqueued(ControlRequest(c, cancel))
    BY <2>2, EnqueuedControl DEF BridgeInv, HeldOnce
  <2> QED
    BY <1>3, <2>1, <2>2
<1>5. BridgeTypeOK'
  BY <1>1, <1>2, <1>4, BridgeAssumption DEF BridgeInv, BridgeTypeOK, workerVars
<1>6. GoalsHeld' /\ HeldOnce' /\ ReservationKept'
  BY <1>1, <1>4, ProgramsStay DEF workerVars, Unfinished
<1>7. ThreadsInStep'
  BY <1>1, <1>2 DEF BridgeInv, ThreadsInStep, workerVars
<1> QED
  BY <1>5, <1>6, <1>7 DEF BridgeInv

LEMMA ShutdownKeeps ==
  ASSUME BridgeInv, Shutdown
  PROVE  BridgeInv'
<1> DEFINE r == ControlRequest("STOP", FALSE)
<1>1. /\ executor.at = "spinning" /\ executor' = [at |-> "joining", goal |-> 0] /\ stopping'
      /\ UNCHANGED <<goals, goalReserved, cancelQueued, taskActive, workerVars, services, terminal>>
  BY DEF Shutdown, Spinning, ExecutorAt, vars
<1>2. ~stopping /\ worker \notin AfterLoop
  BY <1>1, ExecutorRuns
<1>3. requests \in Seq(Request) /\ Len(requests) <= Capacity /\ Len(requests) \in Nat
  BY <1>2, QueueFits
<1>4. /\ requests' \in Seq(Request) /\ Len(requests') <= Capacity + 1
      /\ HasProgram(requests') <=> HasProgram(requests)
      /\ OneAtMost(requests')
      /\ \A g \in Goals : QueueHolds(requests', g) <=> QueueHolds(requests, g)
  <2>1. CASE taskActive
    <3>1. requests' = <<r>> \o requests
      BY <2>1 DEF Shutdown
    <3>2. r \in Request /\ r.kind = "Control"
      BY RequestFacts DEF Controls
    <3> HIDE DEF r
    <3>3. requests' \in {Append(requests, r), <<r>> \o requests}
      BY <3>1
    <3>4. OneAtMost(requests)
      BY DEF BridgeInv, HeldOnce
    <3>5. /\ requests' \in Seq(Request) /\ Len(requests') = Len(requests) + 1
          /\ HasProgram(requests') <=> HasProgram(requests)
          /\ OneAtMost(requests')
          /\ \A g \in Goals : QueueHolds(requests', g) <=> QueueHolds(requests, g)
      BY <1>3, <3>2, <3>3, <3>4, AddControl
    <3> QED
      BY <1>3, <3>5, BridgeAssumption
  <2>2. CASE ~taskActive
    BY <1>3, <2>2, BridgeAssumption DEF Shutdown, BridgeInv, HeldOnce
  <2> QED
    BY <2>1, <2>2
<1>5. BridgeTypeOK'
  BY <1>1, <1>4 DEF BridgeInv, BridgeTypeOK, workerVars, ExecutorPlaces
<1>6. GoalsHeld' /\ HeldOnce' /\ ReservationKept'
  BY <1>1, <1>4, ProgramsStay DEF workerVars, Unfinished
<1>7. ThreadsInStep'
  BY <1>1, <1>2 DEF BridgeInv, ThreadsInStep, workerVars
<1> QED
  BY <1>5, <1>6, <1>7 DEF BridgeInv

-----------------------------------------------------------------------------
(***************************************************************************)
(* The worker thread keeps BridgeInv, whatever the session does.           *)
(***************************************************************************)
LEMMA TakeRequestKeeps ==
  ASSUME BridgeInv, TakeRequest
  PROVE  BridgeInv'
<1>1. /\ worker = "waiting" /\ worker' = "processing" /\ current = NoRequest
      /\ requests # <<>> /\ current' = Head(requests) /\ requests' = Tail(requests)
      /\ UNCHANGED <<goals, stopping, goalReserved, cancelQueued, taskActive, activeGoal,
                     cancelRequested, advances, ranFor, executor, services, terminal>>
  BY DEF TakeRequest, ExecutorIdles, vars, BridgeInv, ThreadsInStep
<1>2. requests \in Seq(Request) /\ OneAtMost(requests) /\ Len(requests) \in Nat
  BY LenProperties DEF BridgeInv, BridgeTypeOK, HeldOnce
<1>3. /\ current' \in Request /\ requests' \in Seq(Request) /\ Len(requests') = Len(requests) - 1
      /\ OneAtMost(requests')
      /\ HasProgram(requests) <=> current'.kind = "Program" \/ HasProgram(requests')
      /\ current'.kind = "Program" => ~HasProgram(requests')
      /\ \A g \in Goals :
           QueueHolds(requests, g) <=> current' = ProgramRequest(g) \/ QueueHolds(requests', g)
  BY <1>1, <1>2, TakeFirst
<1>4. current.kind # "Program" /\ \A g \in Goals : current # ProgramRequest(g)
  BY <1>1, RequestFacts
<1>5. \A g \in Goals : Held(g)' <=> Held(g)
  BY <1>1, <1>3, <1>4 DEF Held, Enqueuing
<1>6. BridgeTypeOK'
  BY <1>1, <1>2, <1>3, BridgeAssumption DEF BridgeInv, BridgeTypeOK, WorkerPlaces
<1>7. GoalsHeld'
  BY <1>1, <1>5 DEF BridgeInv, GoalsHeld, Unfinished
<1>8. HeldOnce' /\ ReservationKept'
  BY <1>1, <1>3, <1>4 DEF BridgeInv, HeldOnce, ReservationKept, Occupied
<1>9. ThreadsInStep'
  BY <1>1 DEF BridgeInv, ThreadsInStep, AfterLoop
<1> QED
  BY <1>6, <1>7, <1>8, <1>9 DEF BridgeInv

\* A step of the worker that moves no program and ends no goal.
LEMMA GoalsStay ==
  ASSUME BridgeInv, UNCHANGED <<goals, requests, executor, activeGoal, goalReserved>>,
         current'.kind = "Program" <=> current.kind = "Program",
         \A g \in Goals : current' = ProgramRequest(g) <=> current = ProgramRequest(g),
         worker' \notin {"inactive", "unreserving"}
  PROVE  GoalsHeld' /\ HeldOnce' /\ ReservationKept'
<1>1. \A g \in Goals : Held(g)' <=> Held(g)
  BY DEF Held, Enqueuing
<1>2. GoalsHeld'
  BY <1>1 DEF GoalsHeld, BridgeInv, Unfinished
<1>3. HeldOnce' /\ ReservationKept'
  BY DEF HeldOnce, ReservationKept, Occupied, BridgeInv
<1> QED
  BY <1>2, <1>3

LEMMA LoopKeeps ==
  ASSUME BridgeInv, KeepRunning \/ LeaveLoop \/ AdvanceSession
  PROVE  BridgeInv'
<1>1. /\ UNCHANGED <<goals, sharedVars, current, activeGoal, cancelRequested, advances, ranFor>>
      /\ UNCHANGED <<executor, services>>
      /\ worker \in {"waiting", "advancing"}
      /\ \/ worker' \in {"advancing", "waiting"}
         \/ worker' = "finishing" /\ activeGoal # 0
         \/ worker' = "draining" /\ stopping /\ requests = <<>>
  BY DEF KeepRunning, LeaveLoop, AdvanceSession, ExecutorIdles
<1>2. BridgeTypeOK'
  BY <1>1 DEF BridgeInv, BridgeTypeOK, WorkerPlaces, sharedVars
<1>3. GoalsHeld' /\ HeldOnce' /\ ReservationKept'
  BY <1>1, GoalsStay DEF sharedVars
<1>4. ThreadsInStep'
  BY <1>1 DEF BridgeInv, ThreadsInStep, sharedVars, AfterLoop
<1> QED
  BY <1>2, <1>3, <1>4 DEF BridgeInv

LEMMA StartKeeps ==
  ASSUME BridgeInv, StartUnparsed \/ StartProgram \/ StartRefused
  PROVE  BridgeInv'
<1> DEFINE g == current.goal
<1>1. /\ worker = "processing" /\ current.kind = "Program" /\ activeGoal = 0
      /\ activeGoal' = g /\ taskActive' = TRUE /\ cancelRequested' = FALSE
      /\ current' = NoRequest /\ worker' \in {"rejecting", "finishing", "advancing"}
      /\ ranFor' \in {ranFor, g}
      /\ UNCHANGED <<goals, requests, stopping, goalReserved, cancelQueued, advances, executor,
                     services>>
  BY DEF StartUnparsed, StartProgram, StartRefused, AtHand, TakeGoal, ExecutorIdles
<1>2. g \in Goals /\ g # 0 /\ current = ProgramRequest(g)
  <2>1. current \in Request
    BY <1>1, RequestFacts DEF BridgeInv, BridgeTypeOK
  <2> QED
    BY <1>1, <2>1, RequestFacts DEF Goals
<1>3. executor.at # "enqueuing" /\ ~HasProgram(requests) /\ goalReserved
  BY <1>1 DEF BridgeInv, HeldOnce, ReservationKept, Occupied
<1>4. \A f \in Goals : Held(f) <=> f = g
  BY <1>1, <1>2, <1>3, HeldIsProgram, RequestFacts DEF Held, Enqueuing, Goals
<1>5. \A f \in Goals : Held(f)' <=> f = g
  BY <1>1, <1>2, <1>3, HeldIsProgram, RequestFacts DEF Held, Enqueuing
<1>6. BridgeTypeOK'
  BY <1>1, <1>2 DEF BridgeInv, BridgeTypeOK, WorkerPlaces
<1>7. GoalsHeld'
  BY <1>1, <1>4, <1>5 DEF BridgeInv, GoalsHeld, Unfinished
<1>8. HeldOnce' /\ ReservationKept'
  BY <1>1, <1>3, RequestFacts DEF BridgeInv, HeldOnce, ReservationKept, Occupied
<1>9. ThreadsInStep'
  BY <1>1, <1>2, <1>3 DEF BridgeInv, ThreadsInStep, AfterLoop
<1> QED
  BY <1>6, <1>7, <1>8, <1>9 DEF BridgeInv

LEMMA HandOverKeeps ==
  ASSUME BridgeInv, HandOverControl
  PROVE  BridgeInv'
<1>1. /\ worker = "processing" /\ current.kind = "Control" /\ current \in Request
      /\ current' = NoRequest /\ worker' = "advancing"
      /\ UNCHANGED <<goals, sharedVars, activeGoal, advances, ranFor, executor, services>>
      /\ cancelRequested' \in BOOLEAN
  BY RequestFacts DEF HandOverControl, AtHand, ExecutorIdles, BridgeInv, BridgeTypeOK
<1>2. BridgeTypeOK'
  BY <1>1 DEF BridgeInv, BridgeTypeOK, WorkerPlaces, sharedVars
<1>3. GoalsHeld' /\ HeldOnce' /\ ReservationKept'
  BY <1>1, GoalsStay, RequestFacts DEF sharedVars
<1>4. ThreadsInStep'
  BY <1>1 DEF BridgeInv, ThreadsInStep, sharedVars, AfterLoop
<1> QED
  BY <1>2, <1>3, <1>4 DEF BridgeInv

LEMMA VerdictEnds == Verdict \in Ended
BY DEF Verdict, Ended

\* A step that gives the active goal its result and forgets it.
LEMMA GoalEnds ==
  ASSUME BridgeInv, NEW verdict \in Ended, activeGoal # 0,
         goals' = [goals EXCEPT ![activeGoal] = verdict], activeGoal' = 0,
         UNCHANGED <<requests, current, executor>>
  PROVE  /\ goals' \in [Goals -> {Unsent, "executing", "canceling"} \cup Ended]
         /\ GoalsHeld' /\ HeldOnce' /\ ~Occupied'
<1>1. /\ executor.at # "enqueuing" /\ ~HasProgram(requests) /\ current.kind # "Program"
      /\ activeGoal \in Goals
  BY DEF BridgeInv, HeldOnce, BridgeTypeOK
<1>2. \A g \in Goals : Held(g) <=> activeGoal = g
  BY <1>1, HeldIsProgram, RequestFacts DEF Held, Enqueuing
<1>3. \A g \in Goals : ~Held(g)'
  BY <1>1, HeldIsProgram, RequestFacts DEF Held, Enqueuing, Goals
<1>4. verdict \notin {"executing", "canceling"}
  BY DEF Ended
<1>5. goals' \in [Goals -> {Unsent, "executing", "canceling"} \cup Ended]
  BY DEF BridgeInv, BridgeTypeOK
<1>6. GoalsHeld'
  BY <1>1, <1>2, <1>3, <1>4 DEF BridgeInv, BridgeTypeOK, GoalsHeld, Unfinished
<1>7. HeldOnce' /\ ~Occupied'
  BY <1>1 DEF BridgeInv, HeldOnce, Occupied
<1> QED
  BY <1>5, <1>6, <1>7

LEMMA EndGoalKeeps ==
  ASSUME BridgeInv, EndGoal
  PROVE  BridgeInv'
<1>1. PICK verdict \in Ended : goals' = [goals EXCEPT ![activeGoal] = verdict]
  BY VerdictEnds DEF EndGoal, Ended
<1>2. /\ worker \in {"finishing", "rejecting"} /\ activeGoal' = 0 /\ worker' = "inactive"
      /\ UNCHANGED <<sharedVars, current, cancelRequested, advances, ranFor, executor, services>>
  BY DEF EndGoal, ExecutorIdles
<1>3. activeGoal # 0 /\ goalReserved
  BY <1>2 DEF BridgeInv, ThreadsInStep, ReservationKept, Occupied
<1>4. /\ goals' \in [Goals -> {Unsent, "executing", "canceling"} \cup Ended]
      /\ GoalsHeld' /\ HeldOnce' /\ ~Occupied'
  BY <1>1, <1>2, <1>3, GoalEnds DEF sharedVars
<1>5. BridgeTypeOK'
  BY <1>2, <1>4 DEF BridgeInv, BridgeTypeOK, WorkerPlaces, sharedVars
<1>6. ReservationKept'
  BY <1>2, <1>3, <1>4 DEF ReservationKept, sharedVars
<1>7. ThreadsInStep'
  BY <1>2 DEF BridgeInv, ThreadsInStep, sharedVars, AfterLoop
<1> QED
  BY <1>4, <1>5, <1>6, <1>7 DEF BridgeInv

LEMMA ClearKeeps ==
  ASSUME BridgeInv, ClearTaskActive \/ ClearReservation \/ ClearCancel
  PROVE  BridgeInv'
<1>1. /\ UNCHANGED <<goals, requests, stopping, current, activeGoal, advances, ranFor, executor,
                     services>>
      /\ goalReserved' \in BOOLEAN /\ cancelQueued' \in BOOLEAN /\ taskActive' \in BOOLEAN
      /\ cancelRequested' \in BOOLEAN
      /\ \/ worker = "inactive" /\ worker' = "unreserving" /\ UNCHANGED goalReserved
         \/ worker = "unreserving" /\ worker' = "forgetting"
         \/ worker = "forgetting" /\ worker' = "waiting" /\ UNCHANGED goalReserved
  BY DEF ClearTaskActive, ClearReservation, ClearCancel, ExecutorIdles, BridgeInv, BridgeTypeOK
<1>2. BridgeTypeOK'
  BY <1>1 DEF BridgeInv, BridgeTypeOK, WorkerPlaces
<1>3. \A g \in Goals : Held(g)' <=> Held(g)
  BY <1>1 DEF Held, Enqueuing
<1>4. GoalsHeld' /\ HeldOnce'
  BY <1>1, <1>3 DEF BridgeInv, GoalsHeld, HeldOnce, Unfinished
<1>5. ReservationKept'
  BY <1>1 DEF BridgeInv, ReservationKept, Occupied
<1>6. ThreadsInStep'
  BY <1>1 DEF BridgeInv, ThreadsInStep, AfterLoop
<1> QED
  BY <1>2, <1>4, <1>5, <1>6 DEF BridgeInv

LEMMA DrainKeeps ==
  ASSUME BridgeInv, BeginDrain \/ DrainStep
  PROVE  BridgeInv'
<1>1. /\ UNCHANGED <<goals, sharedVars, current, activeGoal, cancelRequested, ranFor, executor,
                     services>>
      /\ advances' \in 0 .. ShutdownLimit
      /\ \/ worker = "draining" /\ worker' = "stopping" /\ activeGoal # 0
         \/ worker = "draining" /\ worker' = "closing" /\ (activeGoal # 0 => terminal')
         \/ worker = "stopping" /\ worker' = "stopping"
  <2>1. advances \in 0 .. ShutdownLimit
    BY DEF BridgeInv, BridgeTypeOK
  <2>2. CASE BeginDrain
    BY <2>1, <2>2 DEF BeginDrain, ExecutorIdles, vars
  <2>3. CASE DrainStep
    BY <2>1, <2>3, BridgeAssumption DEF DrainStep, ExecutorIdles
  <2> QED
    BY <2>2, <2>3
<1>2. BridgeTypeOK'
  BY <1>1 DEF BridgeInv, BridgeTypeOK, WorkerPlaces, sharedVars
<1>3. GoalsHeld' /\ HeldOnce' /\ ReservationKept'
  BY <1>1, GoalsStay DEF sharedVars
<1>4. ThreadsInStep'
  BY <1>1 DEF BridgeInv, ThreadsInStep, sharedVars, AfterLoop
<1> QED
  BY <1>2, <1>3, <1>4 DEF BridgeInv

LEMMA CloseKeeps ==
  ASSUME BridgeInv, EndDrain \/ Close
  PROVE  BridgeInv'
<1>1. /\ worker \in {"stopping", "closing"} /\ worker' \in {"closing", "done"}
      /\ UNCHANGED <<requests, stopping, current, advances, ranFor, executor, services, terminal>>
      /\ cancelRequested' \in BOOLEAN /\ (worker = "stopping" => worker' = "closing")
      /\ (worker = "closing" => worker' = "done")
  BY DEF EndDrain, Close, Forget, ExecutorIdles, sharedVars, vars, BridgeInv, BridgeTypeOK
<1>2. stopping /\ requests = <<>> /\ current = NoRequest /\ executor.at = "joining"
  BY <1>1 DEF BridgeInv, ThreadsInStep, AfterLoop
<1>3. \/ UNCHANGED <<goals, goalReserved, cancelQueued, taskActive, activeGoal>>
         /\ (activeGoal # 0 => terminal /\ worker = "stopping")
      \/ /\ \E verdict \in Ended : goals' = [goals EXCEPT ![activeGoal] = verdict]
         /\ activeGoal # 0 /\ activeGoal' = 0
         /\ goalReserved' = FALSE /\ cancelQueued' = FALSE /\ taskActive' = FALSE
  <2>1. worker = "stopping" => activeGoal # 0
    BY DEF BridgeInv, ThreadsInStep
  <2>2. worker = "closing" /\ activeGoal # 0 => terminal
    BY DEF BridgeInv, ThreadsInStep
  <2>3. CASE EndDrain
    BY <2>1, <2>3 DEF EndDrain, Forget, sharedVars, Ended
  <2>4. CASE Close
    BY <2>2, <2>4, VerdictEnds DEF Close, Forget, sharedVars
  <2> QED
    BY <2>3, <2>4
<1>4. CASE UNCHANGED <<goals, goalReserved, cancelQueued, taskActive, activeGoal>>
           /\ (activeGoal # 0 => terminal /\ worker = "stopping")
  <2>1. BridgeTypeOK'
    BY <1>1, <1>4 DEF BridgeInv, BridgeTypeOK, WorkerPlaces
  <2>2. GoalsHeld' /\ HeldOnce' /\ ReservationKept'
    BY <1>1, <1>4, GoalsStay
  <2>3. ThreadsInStep'
    BY <1>1, <1>2, <1>4 DEF ThreadsInStep, AfterLoop
  <2> QED
    BY <2>1, <2>2, <2>3 DEF BridgeInv
<1>5. CASE /\ \E verdict \in Ended : goals' = [goals EXCEPT ![activeGoal] = verdict]
           /\ activeGoal # 0 /\ activeGoal' = 0
           /\ goalReserved' = FALSE /\ cancelQueued' = FALSE /\ taskActive' = FALSE
  <2>1. /\ goals' \in [Goals -> {Unsent, "executing", "canceling"} \cup Ended]
        /\ GoalsHeld' /\ HeldOnce' /\ ~Occupied'
    BY <1>1, <1>5, GoalEnds
  <2>2. BridgeTypeOK'
    BY <1>1, <1>5, <2>1 DEF BridgeInv, BridgeTypeOK, WorkerPlaces
  <2>3. ReservationKept'
    BY <1>1, <2>1 DEF ReservationKept
  <2>4. ThreadsInStep'
    BY <1>1, <1>2, <1>5 DEF ThreadsInStep, AfterLoop
  <2> QED
    BY <2>1, <2>2, <2>3, <2>4 DEF BridgeInv
<1> QED
  BY <1>3, <1>4, <1>5

-----------------------------------------------------------------------------
LEMMA BridgeInvInitially ==
  ASSUME BridgeInit
  PROVE  BridgeInv
<1>1. /\ goals = [g \in Goals |-> "unsent"] /\ requests = <<>> /\ current = NoRequest
      /\ executor = [at |-> "spinning", goal |-> 0] /\ worker = "waiting" /\ activeGoal = 0
      /\ stopping = FALSE /\ goalReserved = FALSE
  BY DEF BridgeInit, Unsent
<1>2. BridgeTypeOK
  <2>1. Len(requests) = 0 /\ requests \in Seq(Request)
    BY <1>1
  <2>2. executor \in [at : ExecutorPlaces, goal : Goals \cup {0}]
    BY <1>1 DEF ExecutorPlaces
  <2>3. /\ goals \in [Goals -> {Unsent, "executing", "canceling"} \cup Ended]
        /\ worker \in WorkerPlaces /\ current \in Request \cup {NoRequest}
        /\ activeGoal \in Goals \cup {0}
    BY <1>1 DEF Unsent, WorkerPlaces
  <2>4. /\ stopping \in BOOLEAN /\ goalReserved \in BOOLEAN /\ cancelQueued \in BOOLEAN
        /\ taskActive \in BOOLEAN /\ cancelRequested \in BOOLEAN
        /\ ranFor \in Goals \cup {0} /\ advances = 0 /\ services = 0
    BY DEF BridgeInit
  <2>5. /\ advances \in 0 .. ShutdownLimit /\ services \in 0 .. MaxServices
        /\ Len(requests) <= Capacity + (IF stopping THEN 1 ELSE 0)
    BY <1>1, <2>1, <2>4, BridgeAssumption
  <2> QED
    BY <2>1, <2>2, <2>3, <2>4, <2>5 DEF BridgeTypeOK
<1>3. \A g \in Goals : ~Held(g) /\ ~Unfinished(g)
  BY <1>1, HeldIsProgram, EmptyHoldsNothing, RequestFacts
     DEF Held, Enqueuing, Unfinished, Goals
<1>4. HeldOnce /\ ReservationKept
  BY <1>1, EmptyHoldsNothing, RequestFacts DEF HeldOnce, ReservationKept, Occupied
<1>5. ThreadsInStep
  BY <1>1 DEF ThreadsInStep, AfterLoop
<1> QED
  BY <1>2, <1>3, <1>4, <1>5 DEF BridgeInv, GoalsHeld

LEMMA BridgeInvStep ==
  ASSUME BridgeInv, [BridgeNext]_<<vars, bridgeVars>>
  PROVE  BridgeInv'
<1>1. CASE ExecutorStep
  <2>1. CASE \E g \in Goals : AcceptGoal(g)
    BY <2>1, AcceptGoalKeeps
  <2>2. CASE (\E g \in Goals : CancelGoal(g)) \/ ClaimCancel \/ AnswerCancel
    BY <2>2, CancelGoalKeeps
  <2>3. CASE QueueCancel \/ \E c \in ControlsUsed : SubmitServiceControl(c)
    BY <2>3, QueueControlKeeps
  <2>4. CASE AcceptGoalHandle
    BY <2>4, AcceptGoalHandleKeeps
  <2>5. CASE Shutdown
    BY <2>5, ShutdownKeeps
  <2> QED
    BY <1>1, <2>1, <2>2, <2>3, <2>4, <2>5, Zenon DEF ExecutorStep, CallbackStep
<1>2. CASE WorkerStep
  BY <1>2, TakeRequestKeeps, LoopKeeps, StartKeeps, HandOverKeeps, EndGoalKeeps, ClearKeeps,
     DrainKeeps, CloseKeeps, Zenon DEF WorkerStep
<1>3. CASE UNCHANGED <<vars, bridgeVars>>
  <2>1. UNCHANGED <<goals, requests, stopping, goalReserved, cancelQueued, taskActive, executor,
                    worker, current, activeGoal, cancelRequested, advances, ranFor, services,
                    terminal>>
    BY <1>3 DEF vars, bridgeVars, sharedVars, workerVars
  <2>2. BridgeTypeOK' /\ ThreadsInStep'
    BY <2>1 DEF BridgeInv, BridgeTypeOK, ThreadsInStep
  <2>3. \A g \in Goals : Held(g)' <=> Held(g)
    BY <2>1 DEF Held, Enqueuing
  <2>4. GoalsHeld' /\ HeldOnce' /\ ReservationKept'
    BY <2>1, <2>3 DEF BridgeInv, GoalsHeld, HeldOnce, ReservationKept, Occupied, Unfinished
  <2> QED
    BY <2>2, <2>4 DEF BridgeInv
<1> QED
  BY <1>1, <1>2, <1>3 DEF BridgeNext

LEMMA BridgeAlways == BridgeSpec => []BridgeInv
<1>1. BridgeInit => BridgeInv
  BY BridgeInvInitially
<1>2. BridgeInv /\ [BridgeNext]_<<vars, bridgeVars>> => BridgeInv'
  BY BridgeInvStep
<1> QED
  BY <1>1, <1>2, PTL DEF BridgeSpec

-----------------------------------------------------------------------------
(***************************************************************************)
(* The bridge's own state has its type, the bound of the request queue     *)
(* included: only the STOP of Shutdown goes past kRequestQueueCapacity.    *)
(***************************************************************************)
THEOREM BridgeTypeCorrect == BridgeSpec => []BridgeTypeOK
<1>1. BridgeInv => BridgeTypeOK
  BY DEF BridgeInv
<1> QED
  BY <1>1, BridgeAlways, PTL

\* HeldOnce excludes all places but one, and the queue holds one program.
LEMMA OnlyUnfinished ==
  ASSUME BridgeInv, NEW f \in Goals, NEW g \in Goals, Unfinished(f), Unfinished(g)
  PROVE  f = g
<1>1. Held(f) /\ Held(g)
  BY DEF BridgeInv, GoalsHeld
<1>2. \A h \in Goals :
        /\ Enqueuing(h) => executor.at = "enqueuing"
        /\ QueueHolds(requests, h) => HasProgram(requests)
        /\ current = ProgramRequest(h) => current.kind = "Program" /\ current.goal = h
        /\ activeGoal = h => activeGoal # 0
  BY HeldIsProgram, RequestFacts DEF Enqueuing, Goals
<1>3. /\ executor.at = "enqueuing" =>
           ~HasProgram(requests) /\ current.kind # "Program" /\ activeGoal = 0
      /\ HasProgram(requests) => current.kind # "Program" /\ activeGoal = 0
      /\ current.kind = "Program" => activeGoal = 0
  BY DEF BridgeInv, HeldOnce
<1>4. QueueHolds(requests, f) /\ QueueHolds(requests, g) => f = g
  <2>1. ASSUME QueueHolds(requests, f), QueueHolds(requests, g)
        PROVE  f = g
    <3>1. PICK m \in DOMAIN requests : requests[m] = ProgramRequest(f)
      BY <2>1 DEF QueueHolds
    <3>2. PICK n \in DOMAIN requests : requests[n] = ProgramRequest(g)
      BY <2>1 DEF QueueHolds
    <3>3. /\ requests[m].kind = "Program" /\ requests[m].goal = f
          /\ requests[n].kind = "Program" /\ requests[n].goal = g
      BY <3>1, <3>2, RequestFacts
    <3>4. m = n
      BY <3>3 DEF BridgeInv, HeldOnce, OneAtMost
    <3> QED
      BY <3>3, <3>4
  <2> QED
    BY <2>1
<1> QED
  BY <1>1, <1>2, <1>3, <1>4 DEF Held, Enqueuing

(***************************************************************************)
(* A goal that AcceptGoal took and that has no result yet is reserved, is  *)
(* the only one, and is held by exactly one of the executor, the queue and *)
(* the worker, whatever the session, the clients and the node's            *)
(* destruction do.                                                         *)
(***************************************************************************)
THEOREM GoalIsNeverLost == BridgeSpec => []GoalHasItsPlace
<1>1. ASSUME BridgeInv, NEW g \in Goals, Unfinished(g)
      PROVE  /\ goalReserved
             /\ Cardinality(Places(g)) = 1
             /\ \A f \in Goals : Unfinished(f) => f = g
  <2>1. Held(g)
    BY <1>1 DEF BridgeInv, GoalsHeld
  <2>2. executor \in [at : ExecutorPlaces, goal : Goals \cup {0}]
    BY <1>1 DEF BridgeInv, BridgeTypeOK
  <2>3. executor = [at |-> "enqueuing", goal |-> g] <=> Enqueuing(g)
    BY <2>2 DEF Enqueuing
  <2>4. Places(g) = {place \in {"executor", "queue", "taken", "active"} :
                       \/ place = "executor" /\ Enqueuing(g)
                       \/ place = "queue" /\ QueueHolds(requests, g)
                       \/ place = "taken" /\ current = ProgramRequest(g)
                       \/ place = "active" /\ activeGoal = g}
    BY <2>3, Zenon DEF Places, QueueHolds
  <2>5. /\ Enqueuing(g) => executor.at = "enqueuing"
        /\ QueueHolds(requests, g) => HasProgram(requests)
        /\ current = ProgramRequest(g) => current.kind = "Program"
        /\ activeGoal = g => activeGoal # 0
    BY HeldIsProgram, RequestFacts DEF Enqueuing, Goals
  <2>6. /\ executor.at = "enqueuing" =>
             ~HasProgram(requests) /\ current.kind # "Program" /\ activeGoal = 0
        /\ HasProgram(requests) => current.kind # "Program" /\ activeGoal = 0
        /\ current.kind = "Program" => activeGoal = 0
    BY <1>1 DEF BridgeInv, HeldOnce
  <2>7. goalReserved
    BY <1>1, <2>1, <2>5 DEF BridgeInv, ReservationKept, Occupied, Held
  <2>8. \E place : Places(g) = {place}
    <3>1. CASE Enqueuing(g)
      BY <2>4, <2>5, <2>6, <3>1
    <3>2. CASE QueueHolds(requests, g)
      BY <2>4, <2>5, <2>6, <3>2
    <3>3. CASE current = ProgramRequest(g)
      BY <2>4, <2>5, <2>6, <3>3
    <3>4. CASE activeGoal = g
      BY <2>4, <2>5, <2>6, <3>4
    <3> QED
      BY <2>1, <3>1, <3>2, <3>3, <3>4 DEF Held
  <2>9. Cardinality(Places(g)) = 1
    BY <2>8, FS_Singleton
  <2>10. \A f \in Goals : Unfinished(f) => f = g
    BY <1>1, OnlyUnfinished
  <2> QED
    BY <2>7, <2>9, <2>10
<1>2. BridgeInv => GoalHasItsPlace
  BY <1>1 DEF GoalHasItsPlace
<1> QED
  BY <1>2, BridgeAlways, PTL

(***************************************************************************)
(* Once the worker has ended every goal has its result, whatever was in    *)
(* the queue when the node was destroyed and whether or not the device     *)
(* confirmed the stop within kShutdownAdvanceLimit calls of Advance.       *)
(***************************************************************************)
THEOREM ShutdownLeavesNoGoal == BridgeSpec => []ShutdownEndsGoals
<1>1. ASSUME BridgeInv, worker = "done", NEW g \in Goals
      PROVE  ~Unfinished(g)
  <2>1. requests = <<>> /\ current = NoRequest /\ activeGoal = 0 /\ executor.at = "joining"
    BY <1>1 DEF BridgeInv, ThreadsInStep, AfterLoop
  <2>2. ~Held(g)
    BY <2>1, HeldIsProgram, EmptyHoldsNothing, RequestFacts DEF Held, Enqueuing, Goals
  <2> QED
    BY <1>1, <2>2 DEF BridgeInv, GoalsHeld
<1>2. BridgeInv => ShutdownEndsGoals
  BY <1>1 DEF ShutdownEndsGoals
<1> QED
  BY <1>2, BridgeAlways, PTL

-----------------------------------------------------------------------------
(***************************************************************************)
(* Whose cancel the worker carries out, and what an ESTOP overtakes.  Both *)
(* rest on the order of the requests: a cancel of an earlier goal is in    *)
(* front of the program of a later one, whose start forgets it, so one     *)
(* that is behind the program of a goal was asked for that goal; an ESTOP  *)
(* is never behind a program.                                              *)
(***************************************************************************)
Asked(g) == goals[g] = "canceling" \/ executor = [at |-> "answering", goal |-> g]

HasCancel(q) == \E n \in DOMAIN q : CancelWaits(q[n])

CancelBehind(q, g) ==
  \E m, n \in DOMAIN q : m < n /\ q[m] = ProgramRequest(g) /\ CancelWaits(q[n])

IsEstop(r) == r.kind = "Control" /\ r.control = "ESTOP"

EstopBehind(q) == \E m, n \in DOMAIN q : m < n /\ q[m].kind = "Program" /\ IsEstop(q[n])

CancelReaches(g) ==
  \/ CancelBehind(requests, g)
  \/ (activeGoal = g \/ current = ProgramRequest(g)) /\ HasCancel(requests)
  \/ activeGoal = g /\ (CancelWaits(current) \/ cancelRequested)

CancelGoalOnly ==
  executor.at \in {"claiming", "queuing", "answering"} =>
    \A g \in Goals : Unfinished(g) => g = executor.goal

CancelInv == CancelGoalOnly /\ \A g \in Goals : CancelReaches(g) => Asked(g)

LEMMA AppendOrder ==
  ASSUME NEW q \in Seq(Request), NEW r \in Request, NEW p, p = Append(q, r)
  PROVE  /\ HasCancel(p) => HasCancel(q) \/ CancelWaits(r)
         /\ \A g : CancelBehind(p, g) =>
              CancelBehind(q, g) \/ (QueueHolds(q, g) /\ CancelWaits(r))
         /\ EstopBehind(p) => EstopBehind(q) \/ IsEstop(r)
<1>1. /\ \A n \in DOMAIN p : n = Len(p) \/ (n \in DOMAIN q /\ p[n] = q[n])
      /\ p[Len(p)] = r
      /\ \A m, n \in DOMAIN p : m < n => m \in DOMAIN q /\ p[m] = q[m]
  BY AppendItems
<1>2. HasCancel(p) => HasCancel(q) \/ CancelWaits(r)
  BY <1>1 DEF HasCancel
<1>3. ASSUME NEW g, CancelBehind(p, g)
      PROVE  CancelBehind(q, g) \/ (QueueHolds(q, g) /\ CancelWaits(r))
  BY <1>1, <1>3 DEF CancelBehind, QueueHolds
<1>4. EstopBehind(p) => EstopBehind(q) \/ IsEstop(r)
  BY <1>1 DEF EstopBehind
<1> QED
  BY <1>2, <1>3, <1>4

LEMMA FrontOrder ==
  ASSUME NEW q \in Seq(Request), NEW r \in Request, r.kind = "Control", NEW p, p = <<r>> \o q
  PROVE  /\ ~r.cancel /\ HasCancel(p) => HasCancel(q)
         /\ \A g : CancelBehind(p, g) => CancelBehind(q, g)
         /\ EstopBehind(p) => EstopBehind(q)
<1>1. /\ \A n \in DOMAIN p : n = 1 \/ (n - 1 \in DOMAIN q /\ p[n] = q[n - 1])
      /\ p[1] = r /\ DOMAIN p \subseteq Int /\ \A n \in DOMAIN p : n >= 1
  BY FrontItems, LenProperties
<1>2. \A g : p[1] # ProgramRequest(g)
  BY <1>1, RequestFacts
<1>3. \A m, n \in DOMAIN p : m < n /\ p[m].kind = "Program" =>
        /\ m - 1 \in DOMAIN q /\ n - 1 \in DOMAIN q /\ m - 1 < n - 1
        /\ p[m] = q[m - 1] /\ p[n] = q[n - 1]
  BY <1>1
<1>4. ~r.cancel /\ HasCancel(p) => HasCancel(q)
  BY <1>1 DEF HasCancel, CancelWaits
<1>5. \A g : CancelBehind(p, g) => CancelBehind(q, g)
  BY <1>3, RequestFacts DEF CancelBehind
<1>6. EstopBehind(p) => EstopBehind(q)
  BY <1>3 DEF EstopBehind
<1> QED
  BY <1>4, <1>5, <1>6

LEMMA TailOrder ==
  ASSUME NEW q \in Seq(Request), q # <<>>
  PROVE  /\ CancelWaits(Head(q)) \/ HasCancel(Tail(q)) => HasCancel(q)
         /\ \A g : CancelBehind(Tail(q), g) => CancelBehind(q, g)
         /\ \A g : Head(q) = ProgramRequest(g) /\ HasCancel(Tail(q)) => CancelBehind(q, g)
         /\ EstopBehind(Tail(q)) => EstopBehind(q)
         /\ Head(q).kind = "Program" /\ ~EstopBehind(q) => \A n \in DOMAIN q : ~IsEstop(q[n])
<1>1. /\ Head(q) = q[1] /\ 1 \in DOMAIN q
      /\ \A n \in DOMAIN Tail(q) : n + 1 \in DOMAIN q /\ 1 < n + 1 /\ Tail(q)[n] = q[n + 1]
      /\ \A m, n \in DOMAIN Tail(q) : m < n => m + 1 < n + 1
      /\ \A n \in DOMAIN q : n = 1 \/ 1 < n
  BY TailItems
<1>2. CancelWaits(Head(q)) \/ HasCancel(Tail(q)) => HasCancel(q)
  BY <1>1 DEF HasCancel
<1>3. \A g : CancelBehind(Tail(q), g) => CancelBehind(q, g)
  BY <1>1 DEF CancelBehind
<1>4. \A g : Head(q) = ProgramRequest(g) /\ HasCancel(Tail(q)) => CancelBehind(q, g)
  BY <1>1 DEF HasCancel, CancelBehind
<1>5. EstopBehind(Tail(q)) => EstopBehind(q)
  BY <1>1 DEF EstopBehind
<1>6. Head(q).kind = "Program" /\ ~EstopBehind(q) => \A n \in DOMAIN q : ~IsEstop(q[n])
  <2>1. ASSUME Head(q).kind = "Program", NEW n \in DOMAIN q, IsEstop(q[n])
        PROVE  EstopBehind(q)
    <3>1. n # 1
      BY <1>1, <2>1 DEF IsEstop
    <3> QED
      BY <1>1, <2>1, <3>1 DEF EstopBehind
  <2> QED
    BY <2>1
<1> QED
  BY <1>2, <1>3, <1>4, <1>5, <1>6

LEMMA EnqueuedOrder ==
  ASSUME NEW q, q = requests, q \in Seq(Request), NEW r \in Request, NEW p, p = Enqueued(r)
  PROVE  /\ HasCancel(p) => HasCancel(q) \/ CancelWaits(r)
         /\ \A g : CancelBehind(p, g) =>
              CancelBehind(q, g) \/ (QueueHolds(q, g) /\ CancelWaits(r))
         /\ EstopBehind(p) => EstopBehind(q)
<1>1. CASE IsEstop(r)
  <2>1. p = <<r>> \o q /\ r.kind = "Control"
    BY <1>1 DEF Enqueued, IsEstop
  <2>2. HasCancel(p) => HasCancel(q) \/ CancelWaits(r)
    BY <2>1, FrontOrder DEF CancelWaits
  <2> QED
    BY <2>1, <2>2, FrontOrder
<1>2. CASE ~IsEstop(r)
  BY <1>2, AppendOrder DEF Enqueued, IsEstop
<1> QED
  BY <1>1, <1>2

\* What a step does to the queue and to the request at hand.
LEMMA RequestsMove ==
  ASSUME BridgeInv, [BridgeNext]_<<vars, bridgeVars>>
  PROVE  \/ TakeRequest
         \/ /\ current' \in {current, NoRequest}
            /\ \/ UNCHANGED requests
               \/ \E r \in Request : requests' = Enqueued(r)
               \/ requests' = <<ControlRequest("STOP", FALSE)>> \o requests
<1>1. CASE ExecutorStep
  <2>1. UNCHANGED current
    BY <1>1 DEF ExecutorStep, CallbackStep, AcceptGoal, CancelGoal, SubmitServiceControl, Shutdown,
       AcceptGoalHandle, ClaimCancel, QueueCancel, AnswerCancel, workerVars
  <2>2. CASE AcceptGoalHandle
    <3>1. executor.goal \in Goals
      BY <2>2 DEF AcceptGoalHandle, BridgeInv, ThreadsInStep
    <3> QED
      BY <2>1, <2>2, <3>1, RequestFacts DEF AcceptGoalHandle
  <2>3. CASE QueueCancel
    BY <2>1, <2>3, RequestFacts DEF QueueCancel, Controls
  <2>4. CASE \E c \in ControlsUsed : SubmitServiceControl(c)
    BY <2>1, <2>4, RequestFacts, SessionAssumption DEF SubmitServiceControl
  <2>5. CASE Shutdown
    BY <2>1, <2>5 DEF Shutdown
  <2>6. CASE (\E g \in Goals : AcceptGoal(g) \/ CancelGoal(g)) \/ ClaimCancel \/ AnswerCancel
    BY <2>1, <2>6 DEF AcceptGoal, CancelGoal, ClaimCancel, AnswerCancel, sharedVars
  <2> QED
    BY <1>1, <2>2, <2>3, <2>4, <2>5, <2>6, Zenon DEF ExecutorStep, CallbackStep
<1>2. CASE WorkerStep /\ ~TakeRequest
  BY <1>2 DEF WorkerStep, KeepRunning, LeaveLoop, StartUnparsed, StartProgram, StartRefused, TakeGoal,
     HandOverControl, AdvanceSession, EndGoal, ClearTaskActive, ClearReservation, ClearCancel,
     BeginDrain, DrainStep, EndDrain, Close, Forget, sharedVars
<1>3. CASE UNCHANGED <<vars, bridgeVars>>
  BY <1>3 DEF bridgeVars, sharedVars, workerVars
<1> QED
  BY <1>1, <1>2, <1>3, Zenon DEF BridgeNext

(***************************************************************************)
(* A program is never taken for execution past an ESTOP that waits in the  *)
(* queue (bridge_node.cpp, Enqueue, Shutdown, Run).                        *)
(***************************************************************************)
THEOREM EstopComesFirst == BridgeSpec => EstopOvertakes
<1>1. ASSUME BridgeInv, ~EstopBehind(requests), [BridgeNext]_<<vars, bridgeVars>>
      PROVE  ~EstopBehind(requests')
  <2>1. requests \in Seq(Request) /\ ControlRequest("STOP", FALSE) \in Request
        /\ ControlRequest("STOP", FALSE).kind = "Control"
    BY <1>1, RequestFacts DEF BridgeInv, BridgeTypeOK, Controls
  <2>2. CASE TakeRequest
    BY <1>1, <2>1, <2>2, TailOrder DEF TakeRequest
  <2>3. CASE UNCHANGED requests
    BY <1>1, <2>3
  <2>4. CASE \E r \in Request : requests' = Enqueued(r)
    BY <1>1, <2>1, <2>4, EnqueuedOrder
  <2>5. CASE requests' = <<ControlRequest("STOP", FALSE)>> \o requests
    BY <1>1, <2>1, <2>5, FrontOrder
  <2> QED
    BY <1>1, <2>2, <2>3, <2>4, <2>5, RequestsMove
<1>2. ASSUME BridgeInv, ~EstopBehind(requests), [BridgeNext]_<<vars, bridgeVars>>,
             current # current', current'.kind = "Program"
      PROVE  \A n \in DOMAIN requests :
               requests[n].kind = "Control" => requests[n].control # "ESTOP"
  <2>1. TakeRequest
    BY <1>2, RequestsMove, RequestFacts
  <2>2. requests \in Seq(Request) /\ requests # <<>> /\ current' = Head(requests)
    BY <1>2, <2>1 DEF TakeRequest, BridgeInv, BridgeTypeOK
  <2> QED
    BY <1>2, <2>2, TailOrder DEF IsEstop
<1>3. BridgeInit => ~EstopBehind(requests)
  BY DEF BridgeInit, EstopBehind
<1>4. BridgeInv /\ ~EstopBehind(requests) /\ [BridgeNext]_<<vars, bridgeVars>>
        => ~EstopBehind(requests)'
  BY <1>1 DEF EstopBehind
<1>5. BridgeInv /\ ~EstopBehind(requests) /\ [BridgeNext]_<<vars, bridgeVars>> =>
        [ current # current' /\ current'.kind = "Program" =>
            \A n \in DOMAIN requests :
              requests[n].kind = "Control" => requests[n].control # "ESTOP"
        ]_<<vars, bridgeVars>>
  BY <1>2
<1> QED
  BY <1>3, <1>4, <1>5, BridgeAlways, PTL DEF BridgeSpec, EstopOvertakes

-----------------------------------------------------------------------------
LEMMA ReachedIsHeld ==
  ASSUME NEW g, CancelReaches(g)
  PROVE  QueueHolds(requests, g) \/ activeGoal = g \/ current = ProgramRequest(g)
BY DEF CancelReaches, CancelBehind, QueueHolds

LEMMA ReachedIsUnfinished ==
  ASSUME BridgeInv, NEW g \in Goals, CancelReaches(g)
  PROVE  Unfinished(g)
BY ReachedIsHeld DEF Held, BridgeInv, GoalsHeld

LEMMA NothingReached ==
  ASSUME ~HasProgram(requests), current.kind # "Program", activeGoal = 0
  PROVE  \A g \in Goals : ~CancelReaches(g)
BY ReachedIsHeld, HeldIsProgram, RequestFacts DEF Goals

LEMMA NoRequestWaits == ~CancelWaits(NoRequest) /\ \A g : NoRequest # ProgramRequest(g)
BY RequestFacts DEF CancelWaits

\* The worker carries a cancel on, and forgets it with the goal.
LEMMA WorkerKeepsCancel ==
  ASSUME BridgeInv, CancelInv, WorkerStep
  PROVE  CancelInv'
<1>0. UNCHANGED executor
  BY DEF WorkerStep, TakeRequest, KeepRunning, LeaveLoop, StartUnparsed, StartProgram, StartRefused,
     TakeGoal, HandOverControl, AdvanceSession, EndGoal, ClearTaskActive, ClearReservation,
     ClearCancel, BeginDrain, DrainStep, EndDrain, Close, Forget, ExecutorIdles
<1>1. SUFFICES \/ /\ UNCHANGED goals
                  /\ \A g \in Goals : CancelReaches(g)' => CancelReaches(g)
               \/ /\ \A g \in Goals : Unfinished(g)' => Unfinished(g)
                  /\ \A g \in Goals : ~CancelReaches(g)'
  BY <1>0 DEF CancelInv, CancelGoalOnly, Asked, Unfinished
<1>2. CASE TakeRequest
  <2>1. /\ UNCHANGED <<goals, activeGoal, cancelRequested>>
        /\ current' = Head(requests) /\ requests' = Tail(requests) /\ requests # <<>>
        /\ requests \in Seq(Request)
    BY <1>2 DEF TakeRequest, BridgeInv, BridgeTypeOK
  <2>2. ASSUME NEW g \in Goals, CancelReaches(g)'
        PROVE  CancelReaches(g)
    BY <2>1, <2>2, TailOrder DEF CancelReaches
  <2> QED
    BY <2>1, <2>2
<1>3. CASE StartUnparsed \/ StartProgram \/ StartRefused
  <2>1. /\ UNCHANGED <<goals, requests>> /\ cancelRequested' = FALSE /\ current' = NoRequest
        /\ activeGoal' = current.goal /\ current.kind = "Program" /\ current \in Request
    BY <1>3, RequestFacts DEF StartUnparsed, StartProgram, StartRefused, TakeGoal, AtHand,
       BridgeInv, BridgeTypeOK
  <2>2. current = ProgramRequest(activeGoal')
    BY <2>1, RequestFacts
  <2>3. ASSUME NEW g \in Goals, CancelReaches(g)'
        PROVE  CancelReaches(g)
    BY <2>1, <2>2, <2>3, NoRequestWaits DEF CancelReaches
  <2> QED
    BY <2>1, <2>3
<1>4. CASE HandOverControl
  <2>1. /\ UNCHANGED <<goals, requests, activeGoal>> /\ current' = NoRequest
        /\ cancelRequested' = (cancelRequested \/ current.cancel) /\ current.kind = "Control"
    BY <1>4 DEF HandOverControl, AtHand, sharedVars
  <2>2. cancelRequested' => cancelRequested \/ CancelWaits(current)
    BY <2>1 DEF CancelWaits
  <2>3. ASSUME NEW g \in Goals, CancelReaches(g)'
        PROVE  CancelReaches(g)
    BY <2>1, <2>2, <2>3, NoRequestWaits DEF CancelReaches
  <2> QED
    BY <2>1, <2>3
<1>5. CASE EndGoal \/ EndDrain \/ Close
  <2>1. CASE UNCHANGED <<goals, requests, activeGoal, current>>
             /\ cancelRequested' \in {cancelRequested, FALSE}
    BY <2>1 DEF CancelReaches
  <2>2. CASE /\ activeGoal # 0 /\ activeGoal' = 0 /\ UNCHANGED <<requests, current>>
             /\ \E verdict \in Ended : goals' = [goals EXCEPT ![activeGoal] = verdict]
    <3>1. ~HasProgram(requests') /\ current'.kind # "Program"
      BY <2>2 DEF BridgeInv, HeldOnce
    <3>2. \A g \in Goals : ~CancelReaches(g)'
      <4>1. ASSUME NEW g \in Goals, CancelReaches(g)'
            PROVE  FALSE
        <5>1. QueueHolds(requests', g) \/ activeGoal' = g \/ current' = ProgramRequest(g)
          BY <4>1 DEF CancelReaches, CancelBehind, QueueHolds
        <5> QED
          BY <2>2, <3>1, <5>1, HeldIsProgram, RequestFacts DEF Goals
      <4> QED
        BY <4>1
    <3>3. \A g \in Goals : Unfinished(g)' => Unfinished(g)
      BY <2>2 DEF Unfinished, Ended, BridgeInv, BridgeTypeOK
    <3> QED
      BY <3>2, <3>3
  <2>3. CASE EndGoal
    BY <2>2, <2>3, VerdictEnds DEF EndGoal, sharedVars, Ended, BridgeInv, ThreadsInStep
  <2>4. CASE EndDrain
    BY <2>1, <2>2, <2>4 DEF EndDrain, Forget, sharedVars, Ended, BridgeInv, ThreadsInStep
  <2>5. CASE Close
    BY <2>1, <2>2, <2>5, VerdictEnds DEF Close, Forget, sharedVars
  <2> QED
    BY <1>5, <2>3, <2>4, <2>5
<1>6. CASE \/ KeepRunning \/ LeaveLoop \/ AdvanceSession
           \/ ClearTaskActive \/ ClearReservation \/ ClearCancel \/ BeginDrain \/ DrainStep
  <2>1. UNCHANGED <<goals, requests, activeGoal, current>>
        /\ cancelRequested' \in {cancelRequested, FALSE}
    BY <1>6 DEF KeepRunning, LeaveLoop, AdvanceSession, ClearTaskActive, ClearReservation,
       ClearCancel, BeginDrain, DrainStep, sharedVars
  <2> QED
    BY <2>1 DEF CancelReaches
<1> QED
  BY <1>2, <1>3, <1>4, <1>5, <1>6, Zenon DEF WorkerStep

\* The executor thread sends a cancel only for the goal there is.
LEMMA ExecutorKeepsCancel ==
  ASSUME BridgeInv, BridgeInv', CancelInv, ExecutorStep
  PROVE  CancelInv'
<1>0. UNCHANGED <<current, activeGoal, cancelRequested>> /\ requests \in Seq(Request)
  BY DEF ExecutorStep, CallbackStep, AcceptGoal, CancelGoal, SubmitServiceControl, Shutdown,
     AcceptGoalHandle, ClaimCancel, QueueCancel, AnswerCancel, workerVars, BridgeInv, BridgeTypeOK
<1>1. ASSUME HasCancel(requests') => HasCancel(requests),
             \A g \in Goals : CancelBehind(requests', g) => CancelBehind(requests, g)
      PROVE  \A g \in Goals : CancelReaches(g)' => CancelReaches(g)
  BY <1>0, <1>1 DEF CancelReaches
<1>2. CASE \E g \in Goals : AcceptGoal(g)
  <2>1. PICK g \in Goals : AcceptGoal(g)
    BY <1>2
  <2>2. /\ UNCHANGED requests /\ executor.at = "spinning" /\ goals[g] = "unsent"
        /\ executor'.at \in {"spinning", "enqueuing"}
        /\ \A f \in Goals : f # g => goals'[f] = goals[f]
    BY <2>1 DEF AcceptGoal, Spinning, SendsNext, Unsent, ExecutorAt, BridgeInv, BridgeTypeOK
  <2>3. ASSUME NEW f \in Goals, CancelReaches(f)'
        PROVE  Asked(f)'
    <3>1. CancelReaches(f) /\ Asked(f) /\ Unfinished(f)
      BY <1>1, <2>2, <2>3, ReachedIsUnfinished DEF CancelInv
    <3> QED
      BY <2>2, <3>1 DEF Asked, Unfinished
  <2> QED
    BY <2>2, <2>3 DEF CancelInv, CancelGoalOnly
<1>3. CASE AcceptGoalHandle
  <2>1. /\ executor.at = "enqueuing" /\ executor'.at = "spinning" /\ executor.goal \in Goals
        /\ ~HasProgram(requests) /\ current.kind # "Program" /\ activeGoal = 0
    BY <1>3 DEF AcceptGoalHandle, ExecutorAt, BridgeInv, HeldOnce, ThreadsInStep
  <2>2. \A f \in Goals : ~CancelReaches(f)
    BY <2>1, NothingReached
  <2>3. \/ UNCHANGED requests
        \/ requests' = Enqueued(ProgramRequest(executor.goal))
    BY <1>3 DEF AcceptGoalHandle
  <2>4. ProgramRequest(executor.goal) \in Request /\ ~CancelWaits(ProgramRequest(executor.goal))
    BY <2>1, RequestFacts DEF CancelWaits
  <2>5. \A f \in Goals : CancelReaches(f)' => CancelReaches(f)
    BY <1>0, <1>1, <2>3, <2>4, EnqueuedOrder
  <2> QED
    BY <2>1, <2>2, <2>5 DEF CancelInv, CancelGoalOnly
<1>4. CASE (\E g \in Goals : CancelGoal(g)) \/ ClaimCancel
  <2>1. /\ UNCHANGED <<requests, goals>> /\ executor.at \in {"spinning", "claiming"}
        /\ \/ \E g \in Goals : goals[g] = "executing" /\ executor'.goal = g
           \/ executor.at = "claiming" /\ executor'.goal = executor.goal
    BY <1>4 DEF CancelGoal, ClaimCancel, Spinning, ExecutorAt, sharedVars
  <2>2. \A f \in Goals : CancelReaches(f)' => CancelReaches(f)
    BY <1>1, <2>1
  <2>3. \A f \in Goals : Asked(f) => Asked(f)'
    BY <2>1 DEF Asked
  <2>4. CancelGoalOnly'
    BY <2>1, OnlyUnfinished DEF CancelInv, CancelGoalOnly, Unfinished
  <2> QED
    BY <2>2, <2>3, <2>4 DEF CancelInv
<1>5. CASE QueueCancel
  <2>1. CASE CanEnqueue
    <3>1. /\ UNCHANGED goals /\ executor.at = "queuing"
          /\ executor' = [at |-> "answering", goal |-> executor.goal]
      BY <1>5, <2>1 DEF QueueCancel, ExecutorAt
    <3>2. ASSUME NEW f \in Goals, Unfinished(f)
          PROVE  f = executor.goal
      BY <3>1, <3>2 DEF CancelInv, CancelGoalOnly
    <3>3. ASSUME NEW f \in Goals, CancelReaches(f)'
          PROVE  Asked(f)'
      <4>1. QueueHolds(requests', f) \/ activeGoal' = f \/ current' = ProgramRequest(f)
        BY <3>3 DEF CancelReaches, CancelBehind, QueueHolds
      <4>2. Held(f)'
        BY <4>1 DEF Held, QueueHolds
      <4>3. Unfinished(f)
        BY <3>1, <4>2 DEF BridgeInv, GoalsHeld, Unfinished
      <4> QED
        BY <3>1, <3>2, <4>3 DEF Asked
    <3>4. CancelGoalOnly'
      BY <3>1, <3>2 DEF CancelGoalOnly, Unfinished
    <3> QED
      BY <3>3, <3>4 DEF CancelInv
  <2>2. CASE ~CanEnqueue
    <3>1. UNCHANGED <<goals, requests>> /\ executor.at = "queuing" /\ executor'.at = "spinning"
      BY <1>5, <2>2 DEF QueueCancel, ExecutorAt
    <3>2. \A f \in Goals : CancelReaches(f)' => CancelReaches(f)
      BY <1>1, <3>1
    <3> QED
      BY <3>1, <3>2 DEF CancelInv, CancelGoalOnly, Asked
  <2> QED
    BY <2>1, <2>2
<1>6. CASE AnswerCancel
  <2>1. /\ UNCHANGED requests /\ executor'.at = "spinning"
        /\ goals' = [goals EXCEPT ![executor.goal] = IF @ = "executing" THEN "canceling" ELSE @]
    BY <1>6 DEF AnswerCancel, ExecutorAt, sharedVars
  <2>2. ASSUME NEW f \in Goals, CancelReaches(f)'
        PROVE  Asked(f)'
    <3>1. CancelReaches(f) /\ Asked(f) /\ Unfinished(f)
      BY <1>1, <2>1, <2>2, ReachedIsUnfinished DEF CancelInv
    <3>2. executor = [at |-> "answering", goal |-> f] => executor.goal = f
      OBVIOUS
    <3>3. goals'[f] = "canceling"
      BY <2>1, <3>1, <3>2 DEF Asked, Unfinished, BridgeInv, BridgeTypeOK
    <3> QED
      BY <3>3 DEF Asked
  <2> QED
    BY <2>1, <2>2 DEF CancelInv, CancelGoalOnly
<1>7. CASE Shutdown \/ \E c \in ControlsUsed : SubmitServiceControl(c)
  <2>1. UNCHANGED goals /\ executor.at = "spinning" /\ executor'.at \in {"spinning", "joining"}
    <3>1. ASSUME Shutdown
          PROVE  UNCHANGED goals /\ executor.at = "spinning" /\ executor'.at = "joining"
      BY <3>1 DEF Shutdown, Spinning, ExecutorAt
    <3>2. ASSUME NEW c \in ControlsUsed, SubmitServiceControl(c)
          PROVE  UNCHANGED <<goals, executor>> /\ executor.at = "spinning"
      BY <3>2 DEF SubmitServiceControl, Spinning
    <3> QED
      BY <1>7, <3>1, <3>2
  <2>2. \/ UNCHANGED requests
        \/ requests' = <<ControlRequest("STOP", FALSE)>> \o requests
        \/ \E c \in Controls : requests' = Enqueued(ControlRequest(c, FALSE))
    BY <1>7, SessionAssumption DEF Shutdown, SubmitServiceControl
  <2>3. \A c \in Controls : /\ ControlRequest(c, FALSE) \in Request
                            /\ ControlRequest(c, FALSE).kind = "Control"
                            /\ ~ControlRequest(c, FALSE).cancel
                            /\ ~CancelWaits(ControlRequest(c, FALSE))
    BY RequestFacts DEF ControlRequest, CancelWaits
  <2>4. \A f \in Goals : CancelReaches(f)' => CancelReaches(f)
    <3>1. CASE UNCHANGED requests
      BY <1>1, <3>1
    <3>2. CASE requests' = <<ControlRequest("STOP", FALSE)>> \o requests
      <4>1. "STOP" \in Controls
        BY DEF Controls
      <4>2. /\ HasCancel(requests') => HasCancel(requests)
            /\ \A f \in Goals : CancelBehind(requests', f) => CancelBehind(requests, f)
        <5> DEFINE r == ControlRequest("STOP", FALSE)
        <5>1. r \in Request /\ r.kind = "Control" /\ ~r.cancel
          BY <2>3, <4>1
        <5>2. requests' = <<r>> \o requests
          BY <3>2
        <5> HIDE DEF r
        <5> QED
          BY <1>0, <5>1, <5>2, FrontOrder
      <4> QED
        BY <1>1, <4>2
    <3>3. CASE \E c \in Controls : requests' = Enqueued(ControlRequest(c, FALSE))
      BY <1>0, <1>1, <2>3, <3>3, EnqueuedOrder
    <3> QED
      BY <2>2, <3>1, <3>2, <3>3
  <2> QED
    BY <2>1, <2>4 DEF CancelInv, CancelGoalOnly, Asked
<1> QED
  BY <1>2, <1>3, <1>4, <1>5, <1>6, <1>7, Zenon DEF ExecutorStep, CallbackStep

(***************************************************************************)
(* A goal is reported canceled only if its own client asked for that; a    *)
(* cancel of the goal before, and a STOP of the service, do not count      *)
(* (bridge_node.cpp, CancelGoal, StartProgram, FinishGoalIfTerminal).      *)
(***************************************************************************)
THEOREM CanceledByItsClient == BridgeSpec => CanceledWasAsked
<1>1. BridgeInit => CancelInv
  BY NoRequestWaits, RequestFacts
     DEF BridgeInit, CancelInv, CancelGoalOnly, CancelReaches, CancelBehind, HasCancel
<1>2. BridgeInv /\ BridgeInv' /\ CancelInv /\ [BridgeNext]_<<vars, bridgeVars>> => CancelInv'
  <2> SUFFICES ASSUME BridgeInv, BridgeInv', CancelInv, [BridgeNext]_<<vars, bridgeVars>>
               PROVE  CancelInv'
    OBVIOUS
  <2>1. CASE UNCHANGED <<vars, bridgeVars>>
    BY <2>1 DEF bridgeVars, sharedVars, workerVars, CancelInv, CancelGoalOnly, CancelReaches, Asked,
       Unfinished
  <2> QED
    BY <2>1, ExecutorKeepsCancel, WorkerKeepsCancel DEF BridgeNext
<1>3. ASSUME BridgeInv, CancelInv, BridgeNext, NEW g \in Goals,
             goals[g] # goals'[g], goals'[g] = "canceled"
      PROVE  Asked(g)
  <2>1. /\ goals \in [Goals -> {Unsent, "executing", "canceling"} \cup Ended]
        /\ worker = "closing" /\ activeGoal # 0 => terminal
    BY <1>3 DEF BridgeInv, BridgeTypeOK, ThreadsInStep
  <2>2. ~ExecutorStep
    BY <1>3, <2>1 DEF ExecutorStep, CallbackStep, AcceptGoal, CancelGoal, SubmitServiceControl,
       Shutdown, AcceptGoalHandle, ClaimCancel, QueueCancel, AnswerCancel
  <2>3. EndGoal \/ EndDrain \/ Close
    BY <1>3, <2>2, Zenon DEF BridgeNext, WorkerStep, TakeRequest, KeepRunning, LeaveLoop,
       StartUnparsed, StartProgram, StartRefused, TakeGoal, HandOverControl, AdvanceSession,
       ClearTaskActive, ClearReservation, ClearCancel, BeginDrain, DrainStep
  <2>4. \/ goals' = [goals EXCEPT ![activeGoal] = "aborted"]
        \/ goals' = [goals EXCEPT ![activeGoal] = Verdict]
    BY <1>3, <2>3 DEF EndGoal, EndDrain, Close
  <2>5. activeGoal = g /\ Verdict = "canceled"
    BY <1>3, <2>1, <2>4
  <2>6. cancelRequested
    BY <2>5 DEF Verdict
  <2> QED
    BY <1>3, <2>5, <2>6 DEF CancelInv, CancelReaches
<1>4. BridgeInv /\ CancelInv /\ [BridgeNext]_<<vars, bridgeVars>> =>
        [\A g \in Goals :
           goals[g] # goals'[g] /\ goals'[g] = "canceled" =>
             goals[g] = "canceling" \/ executor = [at |-> "answering", goal |-> g]
        ]_<<vars, bridgeVars>>
  BY <1>3 DEF Asked
<1> QED
  BY <1>1, <1>2, <1>4, BridgeAlways, PTL DEF BridgeSpec, CanceledWasAsked

-----------------------------------------------------------------------------
(***************************************************************************)
(* What the bridge's worker sees of the session.  Since the options of the *)
(* bridge disconnect at the end of a task, a terminal session is connected *)
(* only when it could not disconnect; so an ESTOP or a lost connection     *)
(* after the task, which begins a stop in a terminal session, never finds  *)
(* one that ended well, and the outcome of the last task is not read for   *)
(* that of the next.                                                       *)
(***************************************************************************)
BadEnds == {"EmergencyStopped", "Faulted"}

TerminalInv ==
  /\ terminal => lifecycle \in EndLifecycles \cup {"Stopping", "EmergencyStopping"}
  /\ terminal /\ connected => untrusted
  /\ terminal /\ lifecycle # "Stopped" => outcome \in BadEnds
  /\ lifecycle = "Idle" => ~connected /\ ~terminal

AtRest == terminal \/ lifecycle = "Idle"
RestStep == TerminalInv' /\ (AtRest => AtRest')

LEMMA SameRest ==
  ASSUME TerminalInv, UNCHANGED <<lifecycle, connected, untrusted, terminal, outcome>>
  PROVE  RestStep
BY DEF TerminalInv, RestStep, AtRest

\* Work goes on.
LEMMA WorkRest ==
  ASSUME TerminalInv, lifecycle \in InProgram, lifecycle' \in Lifecycles \ {"Idle"},
         UNCHANGED terminal
  PROVE  RestStep
BY DEF TerminalInv, RestStep, AtRest, InProgram, EndLifecycles

LEMMA FinishFaultRest ==
  ASSUME NEW conn, NEW disabled, NEW distrust, NEW prim, FinishFault(conn, disabled, distrust, prim)
  PROVE  RestStep
<1>1. /\ lifecycle' = "Faulted" /\ terminal' = TRUE /\ outcome' = "Faulted"
      /\ connected' => untrusted'
  BY BridgeAssumption, Zenon DEF FinishFault, TriesDisconnect
<1> QED
  BY <1>1 DEF RestStep, TerminalInv, AtRest, EndLifecycles, BadEnds

LEMMA FinishTerminalRest ==
  ASSUME NEW result \in {"ProgramCompleted", "OperatorStopped", "EmergencyStopped"},
         NEW disabled, NEW prim, FinishTerminal(result, disabled, prim)
  PROVE  RestStep
<1>1. CASE \E conn, distrust, p : FinishFault(conn, disabled, distrust, p)
  BY <1>1, FinishFaultRest
<1>2. CASE /\ connected' = (connected /\ ~DisconnectOnTerminal)
           /\ lifecycle' = IF result = "EmergencyStopped" THEN "EmergencyStopped" ELSE "Stopped"
           /\ outcome' = result /\ terminal' = TRUE
  <2>1. connected' = FALSE
    BY <1>2, BridgeAssumption
  <2> QED
    BY <1>2, <2>1 DEF RestStep, TerminalInv, AtRest, EndLifecycles, BadEnds
<1> QED
  BY <1>1, <1>2, Zenon DEF FinishTerminal

LEMMA FailStopRest ==
  ASSUME NEW conn, NEW prim, FailStop(conn, prim)
  PROVE  RestStep
BY FinishFaultRest DEF FailStop

LEMMA EndedBadly ==
  ASSUME AlarmInv, TerminalInv, terminal, connected
  PROVE  outcome \in BadEnds /\ untrusted
BY DEF AlarmInv, TerminalInv, AlarmLifecycles

LEMMA BeginStopRest ==
  ASSUME AlarmInv, TerminalInv, connected \/ (~terminal /\ lifecycle # "Idle"),
         NEW q, NEW disp \in Dispositions, disp = "Pause" => ~terminal, NEW command, NEW prim,
         BeginStop(q, disp, command, prim)
  PROVE  RestStep
<1>1. CASE FailStop(TRUE, prim)
  BY <1>1, FailStopRest
<1>2. CASE lifecycle' = StopLifecycle(disp) /\ UNCHANGED <<untrusted, terminal, outcome>>
  <2>1. lifecycle' \in {"Pausing", "Stopping", "EmergencyStopping"}
        /\ (terminal => lifecycle' # "Pausing")
    BY <1>2 DEF StopLifecycle, Dispositions
  <2>2. lifecycle # "Idle"
    BY DEF TerminalInv
  <2> QED
    BY <1>2, <2>1, <2>2, EndedBadly DEF RestStep, TerminalInv, AtRest
<1> QED
  BY <1>1, <1>2, Zenon DEF BeginStop

LEMMA BeginFaultRest ==
  ASSUME AlarmInv, TerminalInv, NEW q, NEW conn, conn = connected \/ (~terminal /\ lifecycle # "Idle"),
         NEW kind, NEW command, BeginFault(q, conn, kind, command)
  PROVE  RestStep
<1>1. CASE ~(conn /\ ~StopPending)
  BY <1>1, FinishFaultRest DEF BeginFault
<1>2. CASE conn /\ ~StopPending
  <2>1. BeginStop(q, "Fault", command, Raise(primary, kind))
    BY <1>2 DEF BeginFault
  <2> QED
    BY <1>2, <2>1, BeginStopRest DEF Dispositions
<1> QED
  BY <1>1, <1>2

LEMMA ControlRest ==
  ASSUME EpisodeInv, AlarmInv, TerminalInv, HandleControl
  PROVE  RestStep
<1>0. StopPending <=> lifecycle \in StopLifecycles
  BY PendingWatched DEF EpisodeInv
<1>1. CASE ControlWithoutEffect \/ ResetRejected
  BY <1>1, SameRest, Zenon DEF ControlWithoutEffect, ResetRejected, Drop, taskVars
<1>2. CASE PauseBetweenCommands \/ PauseLocalWait \/ ResumeBetweenCommands \/ ResumeMotion
           \/ ResumeLocalWait \/ ResumeSatisfiedWait
  <2>1. lifecycle \in InProgram /\ lifecycle' \in {"Running", "Waiting", "Paused"}
        /\ UNCHANGED terminal
    BY <1>2 DEF PauseBetweenCommands, PauseLocalWait, ResumeBetweenCommands, ResumeMotion,
       ResumeLocalWait, ResumeSatisfiedWait, Succeed, InProgram
  <2> QED
    BY <2>1, WorkRest DEF Lifecycles
<1>3. CASE PauseMotion
  <2>1. /\ lifecycle \in {"Running", "Waiting"}
        /\ BeginStop(Tail(queue), "Pause", [active EXCEPT !.remaining = Remaining], primary)
    BY <1>3 DEF PauseMotion
  <2>2. ~terminal /\ lifecycle # "Idle"
    BY <2>1 DEF TerminalInv, EndLifecycles
  <2> QED
    BY <2>1, <2>2, BeginStopRest DEF Dispositions
<1>4. CASE ResumeMotionFails \/ ResumePastTimeRange
  <2>1. \E kind : BeginFault(Tail(queue), connected, kind, [active EXCEPT !.gen = @ + 1])
    BY <1>4 DEF ResumeMotionFails, ResumePastTimeRange, ResumeFault
  <2> QED
    BY <2>1, BeginFaultRest
<1>5. CASE Stop
  <2>1. CASE StopPending
    BY <1>5, <2>1, SameRest DEF Stop, taskVars
  <2>2. CASE ~StopPending /\ connected
    BY <1>5, <2>2, BeginStopRest DEF Stop, Dispositions
  <2>3. CASE ~StopPending /\ ~connected
    BY <1>5, <2>3, FinishTerminalRest DEF Stop
  <2> QED
    BY <2>1, <2>2, <2>3
<1>6. CASE Estop
  <2>1. CASE StopPending
    <3>1. /\ lifecycle' = "EmergencyStopping"
          /\ UNCHANGED <<connected, untrusted, terminal, outcome>>
      BY <1>6, <2>1 DEF Estop
    <3>2. lifecycle \notin {"Stopped", "Idle"}
      BY <1>0, <2>1 DEF StopLifecycles
    <3> QED
      BY <3>1, <3>2 DEF RestStep, TerminalInv, AtRest
  <2>2. CASE ~StopPending /\ connected
    BY <1>6, <2>2, BeginStopRest DEF Estop, Dispositions
  <2>3. CASE ~StopPending /\ ~connected
    BY <1>6, <2>3, FinishTerminalRest DEF Estop
  <2> QED
    BY <2>1, <2>2, <2>3
<1>7. CASE Reset
  <2>1. /\ lifecycle \in BadEnds /\ ~untrusted
        /\ lifecycle' = "Idle" /\ terminal' = FALSE /\ UNCHANGED connected
    BY <1>7, Zenon DEF Reset, ResetAllowed, BadEnds
  <2>2. terminal
    BY <2>1 DEF AlarmInv, EndLifecycles, BadEnds
  <2> QED
    BY <2>1, <2>2 DEF RestStep, TerminalInv, AtRest
<1> QED
  BY <1>1, <1>2, <1>3, <1>4, <1>5, <1>6, <1>7, Zenon DEF HandleControl

LEMMA EventRest ==
  ASSUME EpisodeInv, AlarmInv, TerminalInv, HandleEvent, ~HandleControl
  PROVE  RestStep
<1>1. CASE StaleMotionPoll \/ StaleDelayComplete \/ StaleTimeout \/ StaleStopPoll
           \/ MotionRunning \/ StillStopping
  BY <1>1, SameRest, Zenon DEF StaleMotionPoll, StaleDelayComplete, StaleTimeout, StaleStopPoll,
     MotionRunning, StillStopping, Drop, taskVars
<1>2. CASE MotionSucceeded \/ DelayComplete
  <2>1. lifecycle \in InProgram /\ lifecycle' = "Running" /\ UNCHANGED terminal
    BY <1>2 DEF MotionSucceeded, PollIsCurrent, DelayComplete, DelayIsOver, Succeed, InProgram
  <2> QED
    BY <2>1, WorkRest DEF Lifecycles
<1>3. CASE InputChange
  <2>1. CASE UNCHANGED taskVars
    BY <2>1, SameRest DEF taskVars
  <2>2. CASE lifecycle \in {"Running", "Waiting"} /\ Succeed(Tail(queue))
    BY <2>2, WorkRest DEF Succeed, InProgram, Lifecycles
  <2> QED
    BY <1>3, <2>1, <2>2, Zenon DEF InputChange, InputSatisfies
<1>4. CASE MotionFails \/ CommandTimeout \/ ConnectionLoss
  <2>1. \E kind : BeginFault(Tail(queue), connected, kind, active)
    BY <1>4, Zenon DEF MotionFails, CommandTimeout, ConnectionLoss
  <2> QED
    BY <2>1, BeginFaultRest
<1>5. CASE StopPollFails \/ StopDeadline
  BY <1>5, SameRest, FailStopRest, Zenon DEF StopPollFails, StopDeadline, Drop, taskVars
<1>6. CASE PauseConfirmed
  <2>1. lifecycle = "Pausing"
    BY <1>6, PendingWatched, Zenon
       DEF PauseConfirmed, StopConfirmed, OwnEpisode, EpisodeInv, StopLifecycle
  <2>2. lifecycle' \in {"Pausing", "Paused"} /\ UNCHANGED terminal
    BY <1>6, <2>1 DEF PauseConfirmed
  <2> QED
    BY <2>1, <2>2, WorkRest DEF InProgram, Lifecycles
<1>7. CASE FaultStopConfirmed \/ EmergencyStopConfirmed
  BY <1>7, FinishFaultRest, FinishTerminalRest, Zenon DEF FaultStopConfirmed, EmergencyStopConfirmed
<1>8. CASE OperatorStopConfirmed \/ ProgramStopConfirmed
  BY <1>8, FinishTerminalRest, Zenon DEF OperatorStopConfirmed, ProgramStopConfirmed
<1> QED
  BY <1>1, <1>2, <1>3, <1>4, <1>5, <1>6, <1>7, <1>8, Zenon DEF HandleEvent

LEMMA NextCommandRest ==
  ASSUME TypeOK, AlarmInv, TerminalInv, HandleNextCommand
  PROVE  RestStep
<1>1. ~terminal /\ lifecycle # "Idle"
  BY NextCommandCalls DEF CallsNextCommand
<1>2. CASE ConnectFails \/ ServoCommandThrows \/ StartPastTimeRange \/ StartMotionFails
  <2>1. \E conn, kind, command : BeginFault(queue, conn, kind, command)
    BY <1>2, Zenon
       DEF ConnectFails, ServoCommandThrows, StartPastTimeRange, StartMotionFails, StartFault
  <2> QED
    BY <1>1, <2>1, BeginFaultRest
<1>3. CASE ServoCommand \/ SetDo \/ ZeroDelay \/ StartDelay \/ StartWait \/ StartMotion
           \/ WaitAlreadySatisfied
  <2>1. UNCHANGED terminal /\ lifecycle' \in {lifecycle, "Running", "Waiting"}
    BY <1>3, Zenon DEF ServoCommand, SetDo, ZeroDelay, StartDelay, StartWait, StartMotion,
       WaitAlreadySatisfied, Pass, Begin
  <2> QED
    BY <1>1, <2>1 DEF RestStep, TerminalInv, AtRest
<1>4. CASE StopCommand
  BY <1>1, <1>4, BeginStopRest DEF StopCommand, Dispositions
<1> QED
  BY <1>2, <1>3, <1>4, Zenon DEF HandleNextCommand

LEMMA AdvanceRest ==
  ASSUME EpisodeInv, AlarmInv, TerminalInv, Advance
  PROVE  RestStep
BY ControlRest, EventRest, NextCommandRest DEF Advance, HandleEvent, EpisodeInv

LEMMA SubmissionRest ==
  ASSUME TerminalInv, NEW p \in Programs, SubmitProgram(p)
  PROVE  /\ TerminalInv'
         /\ terminal' => outcome' = "Faulted"
<1>1. CASE /\ lifecycle' = "Running" /\ terminal' = FALSE
  BY <1>1 DEF TerminalInv
<1>2. CASE /\ lifecycle' = "Faulted" /\ terminal' = TRUE /\ outcome' = "Faulted" /\ connected' = FALSE
  BY <1>2 DEF TerminalInv, EndLifecycles, BadEnds
<1> QED
  BY <1>1, <1>2, Zenon DEF SubmitProgram, PrepareResult

-----------------------------------------------------------------------------
(***************************************************************************)
(* The bridge calls the session, whose other state it never touches, so    *)
(* what the session keeps it keeps under the bridge.  The controls of the  *)
(* bridge need not be those a host uses elsewhere (ControlsUsed).          *)
(***************************************************************************)
SessionCalls ==
  \/ \E p \in Programs : SubmitProgram(p)
  \/ \E c \in Controls : SubmitControl(c)
  \/ Advance

SessionKept == ContractInv /\ ProgressInv /\ OrderedQueue(queue) /\ TerminalInv

LEMMA BridgeCalls ==
  ASSUME BridgeInv, [BridgeNext]_<<vars, bridgeVars>>
  PROVE  [SessionCalls]_vars
<1>1. CASE ExecutorStep \/ UNCHANGED <<vars, bridgeVars>>
  BY <1>1, Zenon DEF ExecutorStep, CallbackStep, AcceptGoal, CancelGoal, SubmitServiceControl, Shutdown,
     AcceptGoalHandle, ClaimCancel, QueueCancel, AnswerCancel
<1>2. CASE \/ TakeRequest \/ KeepRunning \/ LeaveLoop \/ StartUnparsed \/ StartRefused
           \/ EndGoal \/ ClearTaskActive \/ ClearReservation \/ ClearCancel
  BY <1>2, Zenon DEF TakeRequest, KeepRunning, LeaveLoop, StartUnparsed, StartRefused, EndGoal,
     ClearTaskActive, ClearReservation, ClearCancel
<1>3. CASE StartProgram
  BY <1>3, Zenon DEF StartProgram, SessionCalls
<1>4. CASE HandOverControl
  <2>1. current.kind = "Control" /\ SubmitControl(current.control)
    BY <1>4 DEF HandOverControl, AtHand
  <2>2. current.control \in Controls
    BY <2>1, RequestFacts DEF BridgeInv, BridgeTypeOK
  <2> QED
    BY <2>1, <2>2 DEF SessionCalls
<1>5. CASE AdvanceSession \/ DrainStep
  BY <1>5, Zenon DEF AdvanceSession, DrainStep, AdvanceIdles, SessionCalls
<1>6. CASE BeginDrain
  <2>1. "STOP" \in Controls
    BY DEF Controls
  <2> QED
    BY <1>6, <2>1, Zenon DEF BeginDrain, SessionCalls
<1>7. CASE EndDrain \/ Close
  BY <1>7, Zenon DEF EndDrain, Close, Forget
<1> QED
  BY <1>1, <1>2, <1>3, <1>4, <1>5, <1>6, <1>7, Zenon DEF BridgeNext, WorkerStep

LEMMA SubmittedControl ==
  ASSUME SessionKept, NEW c \in Controls, SubmitControl(c)
  PROVE  SessionKept'
<1>1. /\ TypeOK /\ EpisodeInv /\ AlarmInv /\ CommandInv /\ WorkNeedsConnection /\ StandsStill
      /\ SafetyInv /\ KnownInv
  BY DEF SessionKept, ContractInv, KnownInv, SafetyInv, EpisodeInv
<1>2. /\ queue' = Schedule(queue, ControlEvent(now, c)) /\ controls' \in Nat
      /\ UNCHANGED <<taskVars, program, next, nextStop, now, input, moving, submissions>>
  BY <1>1 DEF SubmitControl, TypeOK
<1>3. ControlEvent(now, c) \in Event /\ queue \in Seq(Event)
  BY <1>1, EventTypes DEF TypeOK
<1>4. TypeOK'
  BY <1>1, <1>2, <1>3, ScheduleTyped DEF TypeOK, taskVars
<1>5. StopEpisodeWatched' /\ PauseHasCommand'
  <2>1. /\ StopPending => Watched(queue, stop)
        /\ StopPending <=> lifecycle \in StopLifecycles
    BY <1>1, PendingWatched DEF EpisodeInv
  <2>2. StopPending => Watched(queue', stop)
    BY <1>2, <1>3, <2>1, WatchedSchedule
  <2> QED
    BY <1>1, <1>2, <2>1, <2>2, KeptWatched DEF EpisodeInv, HasActive, taskVars
<1>6. AlarmInv'
  BY <1>1, <1>2, SameAlarm DEF taskVars
<1>7. CommandInv'
  BY <1>1, <1>2, <1>3, EndsSchedule, KeptCommand DEF taskVars
<1>8. WorkNeedsConnection' /\ StandsStill'
  BY <1>1, <1>2, SameWorkConnected, SameStill DEF taskVars, HasActive
<1>9. ProgressInv' /\ TerminalInv'
  BY <1>2, SameProgress, SameRest DEF taskVars, SessionKept, RestStep
<1>10. OrderedQueue(queue')
  BY <1>2, <1>3, OrderSchedule DEF SessionKept
<1> QED
  BY <1>4, <1>5, <1>6, <1>7, <1>8, <1>9, <1>10
     DEF SessionKept, ContractInv, KnownInv, SafetyInv, EpisodeInv, OrderedQueue

LEMMA CallsKeep ==
  ASSUME SessionKept, [SessionCalls]_vars
  PROVE  SessionKept'
<1>1. CASE \E c \in Controls : SubmitControl(c)
  BY <1>1, SubmittedControl
<1>2. CASE [(\E p \in Programs : SubmitProgram(p)) \/ Advance]_vars
  <2>1. [Next]_vars
    BY <1>2 DEF Next
  <2>2. SafetyInv' /\ CommandInv' /\ WorkNeedsConnection'
    BY <2>1, EpisodeStep, AlarmStep, CommandStep, ConnectionStep
       DEF SessionKept, ContractInv, KnownInv, SafetyInv
  <2>3. StandsStill' /\ ProgressInv'
    BY <2>1, StillStep, ProgressStep DEF SessionKept, ContractInv
  <2>4. OrderedQueue(queue')
    BY <2>1, OrderStep DEF SessionKept, ContractInv, KnownInv, SafetyInv, EpisodeInv
  <2>5. TerminalInv'
    <3>1. CASE UNCHANGED vars
      BY <3>1, SameRest DEF SessionKept, RestStep, vars
    <3>2. CASE \E p \in Programs : SubmitProgram(p)
      BY <3>2, SubmissionRest DEF SessionKept
    <3>3. CASE Advance
      BY <3>3, AdvanceRest DEF SessionKept, ContractInv, KnownInv, SafetyInv, RestStep
    <3> QED
      BY <1>2, <3>1, <3>2, <3>3
  <2> QED
    BY <2>2, <2>3, <2>4, <2>5 DEF SessionKept, ContractInv, KnownInv, OrderedQueue
<1> QED
  BY <1>1, <1>2 DEF SessionCalls

LEMMA BridgeKeepsSession == BridgeSpec => []SessionKept
<1>1. BridgeInit => SessionKept
  <2> SUFFICES ASSUME Init PROVE SessionKept
    BY DEF BridgeInit
  <2>1. SafetyInv
    BY SafetyInit
  <2>2. CommandInv /\ WorkNeedsConnection /\ StandsStill
    BY IdleCommand DEF Init, CommandInv, HasActive, StopPending, WorkNeedsConnection, StandsStill
  <2>3. ProgressInv /\ TerminalInv
    BY DEF Init, ProgressInv, InProgram, NoStop, TerminalInv
  <2>4. OrderedQueue(queue)
    BY OrderEmpty DEF Init
  <2> QED
    BY <2>1, <2>2, <2>3, <2>4 DEF SessionKept, ContractInv, KnownInv
<1>2. BridgeInv /\ SessionKept /\ [BridgeNext]_<<vars, bridgeVars>> => SessionKept'
  BY BridgeCalls, CallsKeep
<1> QED
  BY <1>1, <1>2, BridgeAlways, PTL DEF BridgeSpec

(***************************************************************************)
(* Whatever the two threads do, the session sees nothing but its own three *)
(* calls, and keeps under the bridge what it keeps under any host: its     *)
(* stop episodes and active commands are watched, it has no work under an  *)
(* alarm or without a connection, stands still when it reports so, stays   *)
(* in its program and completes only what it ran (bridge_node.cpp,         *)
(* RuntimeWorker::Run, the only caller of session_).                       *)
(***************************************************************************)
THEOREM BridgeDrivesSession ==
  BridgeSpec =>
    /\ [][SessionCalls]_vars
    /\ [](/\ TypeOK /\ StopEpisodeWatched /\ ActiveCommandWatched /\ NoWorkUnderAlarm
          /\ WorkNeedsConnection /\ StandsStill /\ StaysInProgram /\ CompletedMeansAllRan)
<1>1. BridgeInv /\ [BridgeNext]_<<vars, bridgeVars>> => [SessionCalls]_vars
  BY BridgeCalls
<1>2. SessionKept => /\ TypeOK /\ StopEpisodeWatched /\ ActiveCommandWatched /\ NoWorkUnderAlarm
                     /\ WorkNeedsConnection /\ StandsStill /\ StaysInProgram
                     /\ CompletedMeansAllRan
  <2> SUFFICES ASSUME SessionKept
               PROVE  /\ TypeOK /\ StopEpisodeWatched /\ ActiveCommandWatched /\ NoWorkUnderAlarm
                      /\ WorkNeedsConnection /\ StandsStill /\ StaysInProgram
                      /\ CompletedMeansAllRan
    OBVIOUS
  <2>1. /\ TypeOK /\ StopEpisodeWatched /\ AlarmInv /\ CommandInv /\ KnownInv
        /\ WorkNeedsConnection /\ StandsStill /\ ProgressInv
    BY DEF SessionKept, ContractInv, KnownInv, SafetyInv, EpisodeInv
  <2>2. ActiveCommandWatched
    BY <2>1, Zenon DEF CommandInv, ActiveCommandWatched, Working, Ends, EndEvent, Pending
  <2>3. NoWorkUnderAlarm
    BY <2>1 DEF AlarmInv, AlarmLifecycles, NoWorkUnderAlarm
  <2>4. StaysInProgram
    <3> SUFFICES ASSUME CallsNextCommand
                 PROVE  lifecycle = "Running" /\ ~HasActive /\ ~StopPending /\ next \in DOMAIN program
      BY DEF StaysInProgram
    <3> QED
      BY <2>1, CallsIdle DEF ProgressInv, InProgram
  <2>5. CompletedMeansAllRan
    BY <2>1 DEF ProgressInv, AllRan, CompletedMeansAllRan
  <2> QED
    BY <2>1, <2>2, <2>3, <2>4, <2>5
<1> QED
  BY <1>1, <1>2, BridgeAlways, BridgeKeepsSession, PTL DEF BridgeSpec

-----------------------------------------------------------------------------
(***************************************************************************)
(* Between two goals the session has nothing to do, so the session is      *)
(* terminal only for the active goal, or it refused that goal's program    *)
(* and still says how badly an earlier one ended.                          *)
(***************************************************************************)
OwnInv ==
  /\ worker \notin AfterLoop /\ (activeGoal = 0 \/ worker = "rejecting") => AtRest
  /\ worker = "finishing" => terminal
  /\ activeGoal # 0 /\ worker # "rejecting" =>
       ranFor = activeGoal \/ (worker = "finishing" /\ outcome \in BadEnds)

LEMMA OwnStep ==
  ASSUME BridgeInv, SessionKept, OwnInv, [BridgeNext]_<<vars, bridgeVars>>
  PROVE  OwnInv'
<1>0. /\ TerminalInv /\ EpisodeInv /\ AlarmInv
      /\ worker \in WorkerPlaces
      /\ worker \in {"finishing", "rejecting", "stopping"} => activeGoal # 0
  BY DEF SessionKept, ContractInv, KnownInv, SafetyInv, BridgeInv, BridgeTypeOK, ThreadsInStep
<1>1. CASE ExecutorStep \/ UNCHANGED <<vars, bridgeVars>>
  <2>1. UNCHANGED <<vars, workerVars>>
    BY <1>1, Zenon DEF ExecutorStep, CallbackStep, AcceptGoal, CancelGoal, SubmitServiceControl,
       Shutdown, AcceptGoalHandle, ClaimCancel, QueueCancel, AnswerCancel, bridgeVars
  <2>2. UNCHANGED <<lifecycle, terminal, outcome, worker, activeGoal, ranFor>>
    BY <2>1 DEF vars, taskVars, workerVars
  <2> QED
    BY <2>2 DEF OwnInv, AtRest
<1>2. CASE \/ TakeRequest \/ KeepRunning \/ LeaveLoop \/ ClearTaskActive \/ ClearReservation
           \/ ClearCancel
  <2>1. /\ UNCHANGED <<vars, activeGoal, ranFor>>
        /\ worker \notin AfterLoop \cup {"finishing", "rejecting"}
        /\ worker' \notin {"finishing", "rejecting"}
    BY <1>2 DEF TakeRequest, KeepRunning, LeaveLoop, ClearTaskActive, ClearReservation, ClearCancel,
       AfterLoop
  <2>2. UNCHANGED <<lifecycle, terminal, outcome>>
    BY <2>1 DEF vars, taskVars
  <2> QED
    BY <2>1, <2>2 DEF OwnInv, AtRest
<1>3. CASE StartUnparsed \/ StartProgram \/ StartRefused
  <2>1. /\ worker = "processing" /\ activeGoal = 0 /\ activeGoal' = current.goal
        /\ current.goal \in Goals /\ AtRest
    BY <1>3, RequestFacts DEF StartUnparsed, StartProgram, StartRefused, TakeGoal, AtHand,
       BridgeInv, BridgeTypeOK, OwnInv, AfterLoop
  <2>2. activeGoal' # 0
    BY <2>1 DEF Goals
  <2>3. CASE StartUnparsed
    <3>1. UNCHANGED <<lifecycle, terminal>> /\ worker' = "rejecting"
      BY <2>3 DEF StartUnparsed, vars, taskVars
    <3> QED
      BY <2>1, <2>2, <3>1 DEF OwnInv, AtRest
  <2>4. CASE StartRefused
    <3>1. /\ UNCHANGED <<lifecycle, terminal, outcome>> /\ lifecycle \notin {"Idle", "Stopped"}
          /\ worker' = IF terminal THEN "finishing" ELSE "advancing"
      BY <2>4 DEF StartRefused, vars, taskVars
    <3>2. terminal /\ outcome \in BadEnds
      BY <1>0, <2>1, <3>1 DEF AtRest, TerminalInv
    <3> QED
      BY <2>2, <3>1, <3>2 DEF OwnInv
  <2>5. CASE StartProgram
    <3>1. /\ ranFor' = IF terminal' THEN ranFor ELSE current.goal
          /\ worker' = IF terminal' THEN "finishing" ELSE "advancing"
          /\ terminal' => outcome' = "Faulted"
      BY <1>0, <2>5, SubmissionRest DEF StartProgram
    <3> QED
      BY <2>1, <2>2, <3>1 DEF OwnInv, BadEnds
  <2> QED
    BY <1>3, <2>3, <2>4, <2>5
<1>4. CASE HandOverControl
  <2>1. /\ UNCHANGED <<lifecycle, terminal, activeGoal, ranFor>>
        /\ worker = "processing" /\ worker' = "advancing"
    BY <1>4 DEF HandOverControl, AtHand, SubmitControl, taskVars
  <2> QED
    BY <2>1 DEF OwnInv, AtRest, AfterLoop
<1>5. CASE AdvanceSession
  <2>1. RestStep
    <3>1. CASE Advance
      BY <1>0, <3>1, AdvanceRest
    <3>2. CASE AdvanceIdles
      BY <1>0, <3>2, SameRest DEF AdvanceIdles, vars, taskVars
    <3> QED
      BY <1>5, <3>1, <3>2 DEF AdvanceSession
  <2>2. /\ worker = "advancing" /\ UNCHANGED <<activeGoal, ranFor>>
        /\ worker' = IF activeGoal # 0 /\ terminal' THEN "finishing" ELSE "waiting"
    BY <1>5 DEF AdvanceSession
  <2> QED
    BY <2>1, <2>2 DEF OwnInv, RestStep, AfterLoop
<1>6. CASE EndGoal
  <2>1. /\ UNCHANGED <<lifecycle, terminal>> /\ worker \in {"finishing", "rejecting"}
        /\ activeGoal' = 0 /\ worker' = "inactive"
    BY <1>6 DEF EndGoal, vars, taskVars
  <2> QED
    BY <2>1 DEF OwnInv, AtRest, AfterLoop
<1>7. CASE BeginDrain \/ DrainStep \/ EndDrain \/ Close
  <2>1. /\ worker \in AfterLoop /\ worker' \in AfterLoop
        /\ \/ UNCHANGED <<activeGoal, ranFor>>
           \/ activeGoal' = 0
    BY <1>7 DEF BeginDrain, DrainStep, EndDrain, Close, Forget, AfterLoop
  <2> QED
    BY <2>1 DEF OwnInv, AfterLoop
<1> QED
  BY <1>1, <1>2, <1>3, <1>4, <1>5, <1>6, <1>7, Zenon DEF BridgeNext, WorkerStep

(***************************************************************************)
(* A goal that succeeds or is canceled reports the run of its own program, *)
(* and one that succeeds ran to the end with the device standing still:    *)
(* the bridge takes the result from the session, which may still have that *)
(* of an earlier goal (bridge_node.cpp, StartProgram, FinishGoalIfTerminal;*)
(* runtime.cpp, PrepareResult).                                            *)
(***************************************************************************)
THEOREM ResultIsOwn == BridgeSpec => OwnResult
<1>1. BridgeInit => OwnInv
  BY DEF BridgeInit, Init, OwnInv, AtRest
<1>2. ASSUME BridgeInv, SessionKept, OwnInv, BridgeNext, NEW g \in Goals,
             goals[g] # goals'[g], goals'[g] \in {"succeeded", "canceled"}
      PROVE  ranFor = g /\ (goals'[g] = "succeeded" => next = Len(program) + 1 /\ ~moving)
  <2>1. goals \in [Goals -> {Unsent, "executing", "canceling"} \cup Ended]
    BY <1>2 DEF BridgeInv, BridgeTypeOK
  <2>2. ~ExecutorStep
    BY <1>2, <2>1 DEF ExecutorStep, CallbackStep, AcceptGoal, CancelGoal, SubmitServiceControl,
       Shutdown, AcceptGoalHandle, ClaimCancel, QueueCancel, AnswerCancel
  <2>3. EndGoal \/ EndDrain \/ Close
    BY <1>2, <2>2, Zenon DEF BridgeNext, WorkerStep, TakeRequest, KeepRunning, LeaveLoop,
       StartUnparsed, StartProgram, StartRefused, TakeGoal, HandOverControl, AdvanceSession,
       ClearTaskActive, ClearReservation, ClearCancel, BeginDrain, DrainStep
  <2>4. \/ goals' = [goals EXCEPT ![activeGoal] = "aborted"]
        \/ goals' = [goals EXCEPT ![activeGoal] = Verdict] /\ worker \in {"finishing", "closing"}
    BY <1>2, <2>3 DEF EndGoal, EndDrain, Close
  <2>5. activeGoal = g /\ goals'[g] = Verdict /\ worker \in {"finishing", "closing"}
    BY <1>2, <2>1, <2>4
  <2>6. outcome \in {"ProgramCompleted", "OperatorStopped"}
        /\ (goals'[g] = "succeeded" => outcome = "ProgramCompleted")
    BY <1>2, <2>5 DEF Verdict
  <2>7. ranFor = g
    BY <1>2, <2>5, <2>6 DEF OwnInv, BadEnds, Goals
  <2>8. outcome = "ProgramCompleted" => next = Len(program) + 1 /\ ~moving
    BY <1>2 DEF SessionKept, ProgressInv, AllRan
  <2> QED
    BY <2>6, <2>7, <2>8
<1>3. BridgeInv /\ SessionKept /\ OwnInv /\ [BridgeNext]_<<vars, bridgeVars>> => OwnInv'
  BY OwnStep
<1>4. BridgeInv /\ SessionKept /\ OwnInv /\ [BridgeNext]_<<vars, bridgeVars>> =>
        [\A g \in Goals :
           /\ goals[g] # goals'[g] /\ goals'[g] \in {"succeeded", "canceled"} => ranFor = g
           /\ goals[g] # goals'[g] /\ goals'[g] = "succeeded" =>
                next = Len(program) + 1 /\ ~moving
        ]_<<vars, bridgeVars>>
  BY <1>2
<1> QED
  BY <1>1, <1>3, <1>4, BridgeAlways, BridgeKeepsSession, PTL DEF BridgeSpec, OwnResult

-----------------------------------------------------------------------------
(***************************************************************************)
(* Without a scenario nothing in the queue is due in the past, and the     *)
(* only control there is the one the worker handed over and calls Advance  *)
(* for.  It comes first: what is due with it has a lower priority.         *)
(***************************************************************************)
Unscripted == \A t \in Time : ScenarioAt(t) = <<>>

IsControl(e) == e.type = "Control"

ControlInv ==
  worker \notin AfterLoop =>
    /\ \A n \in DOMAIN queue : queue[n].time >= now
    /\ worker # "advancing" => \A n \in DOMAIN queue : ~IsControl(queue[n])
    /\ \A m, n \in DOMAIN queue : IsControl(queue[m]) /\ IsControl(queue[n]) =>
         m = n /\ queue[m].time = now

LEMMA SubmittedAlone ==
  ASSUME NEW q \in Seq(Event), \A n \in DOMAIN q : ~IsControl(q[n]) /\ q[n].time >= now,
         NEW e \in Event, e.time = now, now \in Time
  PROVE  LET s == Schedule(q, e)
         IN  /\ \A n \in DOMAIN s : s[n].time >= now
             /\ \A m, n \in DOMAIN s : IsControl(s[m]) /\ IsControl(s[n]) =>
                  m = n /\ s[m].time = now
<1> DEFINE s == Schedule(q, e)
           r == Rank(q, e)
<1>1. r \in 0 .. Len(q) /\ Len(q) \in Nat /\ DOMAIN q = 1 .. Len(q)
  BY RankType, LenProperties
<1>2. /\ s \in Seq(Event) /\ Len(s) = Len(q) + 1
      /\ \A i \in 1 .. Len(q) + 1 :
           s[i] = IF i <= r THEN q[i] ELSE IF i = r + 1 THEN e ELSE q[i - 1]
  <2>1. /\ Schedule(q, e) \in Seq(Event) /\ Len(Schedule(q, e)) = Len(q) + 1
        /\ \A i \in 1 .. Len(q) + 1 :
             Schedule(q, e)[i] = IF i <= Rank(q, e) THEN q[i]
                                 ELSE IF i = Rank(q, e) + 1 THEN e ELSE q[i - 1]
    BY ScheduleProperties
  <2> QED
    BY <2>1, Zenon
<1> HIDE DEF s, r
<1>3. DOMAIN s = 1 .. Len(q) + 1
  BY <1>1, <1>2, LenProperties
<1>4. ASSUME NEW n \in DOMAIN s, n # r + 1
      PROVE  ~IsControl(s[n]) /\ s[n].time >= now
  <2>1. CASE n <= r
    BY <1>1, <1>2, <1>3, <2>1
  <2>2. CASE n > r + 1
    <3>1. n - 1 \in DOMAIN q /\ s[n] = q[n - 1]
      BY <1>1, <1>2, <1>3, <2>2
    <3> QED
      BY <3>1
  <2> QED
    BY <1>1, <1>3, <1>4, <2>1, <2>2
<1>5. ASSUME NEW n \in DOMAIN s, n = r + 1
      PROVE  s[n].time = now /\ now >= now
  BY <1>1, <1>2, <1>3, <1>5, SessionAssumption DEF Time
<1>6. \A n \in DOMAIN s : s[n].time >= now
  BY <1>4, <1>5
<1>7. \A m, n \in DOMAIN s : IsControl(s[m]) /\ IsControl(s[n]) => m = n /\ s[m].time = now
  BY <1>4, <1>5
<1> QED
  BY <1>6, <1>7 DEF s

\* The control is the head of the queue.
LEMMA ControlIsFirst ==
  ASSUME OrderedQueue(queue), now \in Time, \A n \in DOMAIN queue : queue[n].time >= now,
         NEW n \in DOMAIN queue, IsControl(queue[n]), queue[n].time = now
  PROVE  IsControl(queue[1]) /\ queue[1].time = now /\ 1 \in DOMAIN queue
<1>1. /\ queue \in Seq(Event) /\ DOMAIN queue = 1 .. Len(queue) /\ Len(queue) \in Nat
      /\ 1 \in DOMAIN queue /\ Ordered(queue)
  BY LenProperties DEF OrderedQueue
<1>2. queue[n] \in Event /\ queue[1] \in Event
  BY <1>1, ElementOfSeq
<1>3. /\ queue[1].time \in Nat /\ queue[1].prio \in Nat /\ queue[n].prio \in 0 .. 2
      /\ queue[1].prio <= 2 => IsControl(queue[1])
  BY <1>2, EventTimes DEF Event, ControlEvents, CommandEvents, StopEvents, InputEvents, LossEvents,
     IsControl
<1>4. CASE n # 1
  <2>1. ~Precedes(queue[n], queue[1])
    BY <1>1, <1>4 DEF Ordered
  <2>2. now \in Nat /\ queue[1].time >= now
    BY <1>1, SessionAssumption DEF Time
  <2> QED
    BY <1>1, <1>3, <2>1, <2>2 DEF Precedes
<1> QED
  BY <1>1, <1>4

\* One call of Advance leaves no control, and nothing that is due in the past.
LEMMA AdvanceTakesControl ==
  ASSUME TypeOK, OrderedQueue(queue), Advance \/ AdvanceIdles,
         \A n \in DOMAIN queue : queue[n].time >= now,
         \A m, n \in DOMAIN queue : IsControl(queue[m]) /\ IsControl(queue[n]) =>
           m = n /\ queue[m].time = now
  PROVE  \A n \in DOMAIN queue' : ~IsControl(queue'[n]) /\ queue'[n].time >= now'
<1>0. /\ queue \in Seq(Event) /\ now \in Time /\ now \in Nat /\ DOMAIN queue = 1 .. Len(queue)
      /\ \A n \in DOMAIN queue : queue[n] \in Event /\ queue[n].time \in Nat /\ queue[n].prio \in Nat
  BY LenProperties, ElementOfSeq, EventTimes, SessionAssumption DEF TypeOK, Time
<1>1. ASSUME NEW n \in DOMAIN queue, IsControl(queue[n])
      PROVE  n = 1 /\ MustProcessEvent
  <2>1. queue[n].time = now
    BY <1>1
  <2>2. IsControl(queue[1]) /\ queue[1].time = now /\ 1 \in DOMAIN queue
    BY <1>0, <1>1, <2>1, ControlIsFirst
  <2>3. n = 1
    BY <1>1, <2>2
  <2>4. queue # <<>> /\ Head(queue) = queue[1]
    BY <1>0, <1>1, HeadTailProperties, EmptySeq
  <2> QED
    BY <1>0, <2>2, <2>3, <2>4 DEF MustProcessEvent
<1>2. CASE HandleEvent
  <2>1. Adds(queue', Tail(queue))
    BY <1>2, ControlAdds, EventAdds DEF HandleEvent
  <2>2. MustProcessEvent /\ now' = Greatest(now, Head(queue).time)
    BY <1>2, EventTakes
  <2>3. queue # <<>> /\ Head(queue) = queue[1] /\ 1 \in DOMAIN queue
        /\ Tail(queue) \in Seq(Event) /\ DOMAIN Tail(queue) = 1 .. Len(queue) - 1
        /\ \A n \in DOMAIN Tail(queue) : Tail(queue)[n] = queue[n + 1]
    BY <1>0, <2>2, HeadTailProperties, LenProperties, EmptySeq DEF MustProcessEvent
  <2>4. ASSUME NEW n \in DOMAIN Tail(queue)
        PROVE  ~IsControl(Tail(queue)[n]) /\ Tail(queue)[n].time >= now'
    <3>1. n + 1 \in DOMAIN queue /\ 1 < n + 1 /\ n + 1 # 1 /\ Tail(queue)[n] = queue[n + 1]
      BY <1>0, <2>3
    <3>2. ~IsControl(queue[n + 1])
      BY <1>1, <3>1
    <3>3. ~Precedes(queue[n + 1], queue[1])
      BY <2>3, <3>1 DEF OrderedQueue, Ordered
    <3>4. queue[n + 1].time >= queue[1].time /\ queue[n + 1].time >= now
      BY <1>0, <2>3, <3>1, <3>3 DEF Precedes
    <3> QED
      BY <1>0, <2>2, <2>3, <3>1, <3>2, <3>4 DEF Greatest
  <2> QED
    BY <2>1, <2>4 DEF Adds, In, IsControl
<1>3. CASE HandleNextCommand
  <2>1. Adds(queue', queue) /\ now' = now
    BY <1>3, NextCommandAdds
  <2>2. ~MustProcessEvent
    BY <1>3, NextCommandCalls DEF CallsNextCommand
  <2>3. \A n \in DOMAIN queue : ~IsControl(queue[n]) /\ queue[n].time >= now'
    BY <1>1, <2>1, <2>2
  <2> QED
    BY <2>1, <2>3 DEF Adds, In, IsControl
<1>4. CASE AdvanceIdles
  <2>1. ~MustProcessEvent /\ UNCHANGED <<queue, now>>
    BY <1>4 DEF AdvanceIdles, vars
  <2> QED
    BY <1>1, <2>1
<1> QED
  BY <1>2, <1>3, <1>4 DEF Advance

LEMMA ControlInvStep ==
  ASSUME Unscripted, BridgeInv, SessionKept, ControlInv, [BridgeNext]_<<vars, bridgeVars>>
  PROVE  ControlInv'
<1>0. /\ TypeOK /\ OrderedQueue(queue) /\ queue \in Seq(Event) /\ now \in Time
  BY DEF SessionKept, ContractInv, KnownInv, SafetyInv, EpisodeInv, TypeOK
<1> SUFFICES ASSUME worker' \notin AfterLoop
             PROVE  ControlInv'
  BY DEF ControlInv
<1>1. CASE ExecutorStep \/ UNCHANGED <<vars, bridgeVars>>
  <2>1. UNCHANGED <<vars, workerVars>>
    BY <1>1, Zenon DEF ExecutorStep, CallbackStep, AcceptGoal, CancelGoal, SubmitServiceControl,
       Shutdown, AcceptGoalHandle, ClaimCancel, QueueCancel, AnswerCancel, bridgeVars
  <2>2. UNCHANGED <<queue, now, worker>>
    BY <2>1 DEF vars, workerVars
  <2> QED
    BY <2>2 DEF ControlInv, IsControl
<1>2. CASE \/ TakeRequest \/ KeepRunning \/ LeaveLoop \/ StartUnparsed \/ StartRefused
           \/ EndGoal \/ ClearTaskActive \/ ClearReservation \/ ClearCancel
  <2>1. /\ UNCHANGED vars /\ worker \notin AfterLoop \cup {"advancing"}
    BY <1>2 DEF TakeRequest, KeepRunning, LeaveLoop, StartUnparsed, StartRefused, AtHand, EndGoal,
       ClearTaskActive, ClearReservation, ClearCancel, AfterLoop
  <2>2. UNCHANGED <<queue, now>>
    BY <2>1 DEF vars
  <2> QED
    BY <2>1, <2>2 DEF ControlInv, IsControl
<1>3. CASE StartProgram
  <2>1. UNCHANGED now /\ queue' \in {ScenarioAt(now), <<>>}
    BY <1>3 DEF StartProgram, SubmitProgram, PrepareResult
  <2>2. queue' = <<>>
    BY <1>0, <2>1 DEF Unscripted
  <2> QED
    BY <2>2 DEF ControlInv
<1>4. CASE HandOverControl
  <2>1. /\ worker = "processing" /\ worker' = "advancing" /\ UNCHANGED now
        /\ queue' = Schedule(queue, ControlEvent(now, current.control))
        /\ current.control \in Controls
    BY <1>4, RequestFacts DEF HandOverControl, AtHand, SubmitControl, BridgeInv, BridgeTypeOK
  <2> DEFINE e == ControlEvent(now, current.control)
  <2>2. e \in Event /\ e.time = now
    BY <1>0, <2>1, EventTypes DEF ControlEvent
  <2>3. \A n \in DOMAIN queue : ~IsControl(queue[n]) /\ queue[n].time >= now
    BY <2>1 DEF ControlInv, AfterLoop
  <2>4. queue' = Schedule(queue, e)
    BY <2>1
  <2> HIDE DEF e
  <2>5. /\ \A n \in DOMAIN queue' : queue'[n].time >= now
        /\ \A m, n \in DOMAIN queue' : IsControl(queue'[m]) /\ IsControl(queue'[n]) =>
             m = n /\ queue'[m].time = now
    BY <1>0, <2>2, <2>3, <2>4, SubmittedAlone
  <2> QED
    BY <2>1, <2>5 DEF ControlInv, IsControl
<1>5. CASE AdvanceSession
  <2>1. worker = "advancing" /\ (Advance \/ AdvanceIdles)
    BY <1>5 DEF AdvanceSession
  <2>2. /\ \A n \in DOMAIN queue : queue[n].time >= now
        /\ \A m, n \in DOMAIN queue : IsControl(queue[m]) /\ IsControl(queue[n]) =>
             m = n /\ queue[m].time = now
    BY <2>1 DEF ControlInv, AfterLoop
  <2>3. \A n \in DOMAIN queue' : ~IsControl(queue'[n]) /\ queue'[n].time >= now'
    BY <1>0, <2>1, <2>2, AdvanceTakesControl
  <2> QED
    BY <2>3 DEF ControlInv, IsControl
<1>6. CASE BeginDrain \/ DrainStep \/ EndDrain \/ Close
  BY <1>6 DEF BeginDrain, DrainStep, EndDrain, Close, AfterLoop
<1> QED
  BY <1>1, <1>2, <1>3, <1>4, <1>5, <1>6, Zenon DEF BridgeNext, WorkerStep

(***************************************************************************)
(* A control that reached the session is handled before the worker waits   *)
(* again, also when no goal is active: the one call of Advance behind      *)
(* SubmitControl takes it, whatever else is due (bridge_node.cpp,          *)
(* RuntimeWorker::Run; event_queue.h, LaterEventFirst).  Of a station      *)
(* without scenario_config: the events of a scenario may be due in the     *)
(* past, before the control, and its controls wait for their own time.     *)
(***************************************************************************)
THEOREM ControlsAreHandled == Unscripted /\ BridgeSpec => []ControlsTakeEffect
<1> SUFFICES ASSUME Unscripted PROVE BridgeSpec => []ControlsTakeEffect
  OBVIOUS
<1>1. BridgeInit => ControlInv
  BY DEF BridgeInit, Init, ControlInv
<1>2. BridgeInv /\ SessionKept /\ ControlInv /\ [BridgeNext]_<<vars, bridgeVars>>
        => ControlInv'
  BY ControlInvStep
<1>3. ControlInv => ControlsTakeEffect
  BY DEF ControlInv, ControlsTakeEffect, IsControl, AfterLoop
<1> QED
  BY <1>1, <1>2, <1>3, BridgeAlways, BridgeKeepsSession, PTL DEF BridgeSpec
=============================================================================
