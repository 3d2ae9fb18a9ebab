-------------------------- MODULE AlgorithmProofs --------------------------
(***************************************************************************)
(* What Schedule does to every queue and ValidateProgram to every program. *)
(***************************************************************************)
EXTENDS EventQueue, Validator, Integers, SequenceTheorems, FiniteSetTheorems, TLAPS

-----------------------------------------------------------------------------
(***************************************************************************)
(* The queue.                                                              *)
(***************************************************************************)

(***************************************************************************)
(* Rank is a position of the queue.                                        *)
(***************************************************************************)
LEMMA RankType ==
  ASSUME NEW S, NEW q \in Seq(S), NEW e
  PROVE  Rank(q, e) \in 0 .. Len(q)
<1> DEFINE T == {i \in DOMAIN q : ~Precedes(e, q[i])}
<1>1. DOMAIN q = 1 .. Len(q) /\ Len(q) \in Nat
  BY LenProperties
<1>2. IsFiniteSet(1 .. Len(q)) /\ Cardinality(1 .. Len(q)) = Len(q)
  BY <1>1, FS_Interval
<1>3. T \subseteq 1 .. Len(q)
  BY <1>1
<1>4. IsFiniteSet(T) /\ Cardinality(T) <= Len(q)
  BY <1>2, <1>3, FS_Subset
<1>5. Cardinality(T) \in Nat
  BY <1>4, FS_CardinalityType
<1> QED
  BY <1>1, <1>4, <1>5 DEF Rank

(***************************************************************************)
(* Schedule inserts the event behind the first Rank events and moves the   *)
(* others back by one place.                                               *)
(***************************************************************************)
LEMMA ScheduleProperties ==
  ASSUME NEW S, NEW q \in Seq(S), NEW e \in S
  PROVE  /\ Schedule(q, e) \in Seq(S)
         /\ Len(Schedule(q, e)) = Len(q) + 1
         /\ \A i \in 1 .. Len(q) + 1 :
              Schedule(q, e)[i] = IF i <= Rank(q, e) THEN q[i]
                                  ELSE IF i = Rank(q, e) + 1 THEN e ELSE q[i - 1]
<1> DEFINE r == Rank(q, e)
           front == SubSeq(q, 1, r)
           back == SubSeq(q, r + 1, Len(q))
<1>1. r \in 0 .. Len(q) /\ Len(q) \in Nat
  BY RankType, LenProperties
<1> HIDE DEF r
<1>2. /\ front \in Seq(S) /\ Len(front) = r
      /\ \A i \in 1 .. r : front[i] = q[i]
  <2>1. \A i \in 1 .. r : q[i] \in S
    BY <1>1, ElementOfSeq
  <2> QED
    BY <1>1, <2>1, SubSeqProperties
<1>3. /\ back \in Seq(S) /\ Len(back) = Len(q) - r
      /\ \A i \in 1 .. Len(q) - r : back[i] = q[r + i]
  <2>1. \A i \in r + 1 .. Len(q) : q[i] \in S
    BY <1>1, ElementOfSeq
  <2>2. /\ back \in Seq(S)
        /\ Len(back) = IF r + 1 <= Len(q) THEN Len(q) - (r + 1) + 1 ELSE 0
        /\ \A i \in 1 .. Len(q) - (r + 1) + 1 : back[i] = q[r + 1 + i - 1]
    <3>1. r + 1 \in Int /\ Len(q) \in Int
      BY <1>1
    <3> QED
      BY <2>1, <3>1, SubSeqProperties
  <2> HIDE DEF back
  <2>3. (IF r + 1 <= Len(q) THEN Len(q) - (r + 1) + 1 ELSE 0) = Len(q) - r
    BY <1>1
  <2>4. back \in Seq(S) /\ Len(back) = Len(q) - r
    BY <1>1, <2>2, <2>3
  <2>5. ASSUME NEW i \in 1 .. Len(q) - r
        PROVE  back[i] = q[r + i]
    <3>1. i \in 1 .. Len(q) - (r + 1) + 1 /\ r + 1 + i - 1 = r + i
      BY <1>1
    <3>2. back[i] = q[r + 1 + i - 1]
      BY <2>2, <3>1
    <3> QED
      BY <3>1, <3>2
  <2> QED
    BY <2>4, <2>5
<1> HIDE DEF front, back
<1>4. <<e>> \in Seq(S) /\ Len(<<e>>) = 1 /\ <<e>>[1] = e
  OBVIOUS
<1>5. /\ front \o <<e>> \in Seq(S) /\ Len(front \o <<e>>) = r + 1
      /\ \A i \in 1 .. r + 1 : (front \o <<e>>)[i] = IF i <= r THEN q[i] ELSE e
  <2>1. \A i \in 1 .. r + 1 :
          (front \o <<e>>)[i] = IF i <= Len(front) THEN front[i] ELSE <<e>>[i - Len(front)]
    BY <1>2, <1>4, ConcatProperties
  <2> QED
    BY <1>1, <1>2, <1>4, <2>1, ConcatProperties
<1>6. Schedule(q, e) = (front \o <<e>>) \o back
  BY DEF Schedule, front, back, r
<1>7. /\ Schedule(q, e) \in Seq(S)
      /\ Len(Schedule(q, e)) = Len(q) + 1
      /\ \A i \in 1 .. Len(q) + 1 :
           Schedule(q, e)[i] = IF i <= r + 1 THEN (front \o <<e>>)[i] ELSE back[i - (r + 1)]
  BY <1>1, <1>3, <1>5, <1>6, ConcatProperties
<1>8. \A i \in 1 .. Len(q) + 1 :
        Schedule(q, e)[i] = IF i <= r THEN q[i] ELSE IF i = r + 1 THEN e ELSE q[i - 1]
  <2> TAKE i \in 1 .. Len(q) + 1
  <2>1. CASE i <= r + 1
    <3>1. i \in 1 .. r + 1 /\ (i <= r \/ i = r + 1)
      BY <1>1, <2>1
    <3>2. Schedule(q, e)[i] = (front \o <<e>>)[i]
      BY <1>7, <2>1
    <3>3. (front \o <<e>>)[i] = IF i <= r THEN q[i] ELSE e
      BY <1>5, <3>1
    <3> QED
      BY <3>1, <3>2, <3>3
  <2>2. CASE i > r + 1
    <3>1. i - (r + 1) \in 1 .. Len(q) - r /\ r + (i - (r + 1)) = i - 1 /\ i # r + 1 /\ ~(i <= r)
      BY <1>1, <2>2
    <3>2. Schedule(q, e)[i] = back[i - (r + 1)]
      BY <1>1, <1>7, <2>2
    <3>3. back[i - (r + 1)] = q[i - 1]
      BY <1>3, <3>1
    <3> QED
      BY <3>1, <3>2, <3>3
  <2> QED
    BY <1>1, <2>1, <2>2
<1> QED
  BY <1>7, <1>8 DEF r

(***************************************************************************)
(* Nothing is lost and nothing but the event is added.                     *)
(***************************************************************************)
LEMMA ScheduleElements ==
  ASSUME NEW S, NEW q \in Seq(S), NEW e \in S
  PROVE  /\ \E n \in DOMAIN Schedule(q, e) : Schedule(q, e)[n] = e
         /\ \A i \in DOMAIN q : \E n \in DOMAIN Schedule(q, e) : Schedule(q, e)[n] = q[i]
         /\ \A n \in DOMAIN Schedule(q, e) :
              Schedule(q, e)[n] = e \/ \E i \in DOMAIN q : Schedule(q, e)[n] = q[i]
<1> DEFINE s == Schedule(q, e)
           r == Rank(q, e)
<1>1. r \in 0 .. Len(q) /\ Len(q) \in Nat /\ DOMAIN q = 1 .. Len(q)
  BY RankType, LenProperties
<1>2. /\ s \in Seq(S) /\ Len(s) = Len(q) + 1
      /\ \A i \in 1 .. Len(q) + 1 :
           s[i] = IF i <= r THEN q[i] ELSE IF i = r + 1 THEN e ELSE q[i - 1]
  <2>1. /\ Schedule(q, e) \in Seq(S) /\ Len(Schedule(q, e)) = Len(q) + 1
        /\ \A i \in 1 .. Len(q) + 1 :
             Schedule(q, e)[i] = IF i <= Rank(q, e) THEN q[i]
                                 ELSE IF i = Rank(q, e) + 1 THEN e ELSE q[i - 1]
    BY ScheduleProperties
  <2> QED
    BY <2>1 DEF s, r
<1> HIDE DEF s, r
<1>3. DOMAIN s = 1 .. Len(q) + 1
  BY <1>2, LenProperties
<1>4. r + 1 \in DOMAIN s /\ s[r + 1] = e
  BY <1>1, <1>2, <1>3
<1>5. ASSUME NEW i \in DOMAIN q
      PROVE  \E n \in DOMAIN s : s[n] = q[i]
  <2>1. CASE i <= r
    <3>1. i \in DOMAIN s /\ s[i] = q[i]
      BY <1>1, <1>2, <1>3, <2>1
    <3> QED
      BY <3>1
  <2>2. CASE i > r
    <3>1. i + 1 \in DOMAIN s /\ s[i + 1] = q[i]
      <4>1. i + 1 \in 1 .. Len(q) + 1 /\ ~(i + 1 <= r) /\ i + 1 # r + 1 /\ (i + 1) - 1 = i
        BY <1>1, <2>2
      <4> QED
        BY <1>2, <1>3, <4>1
    <3> QED
      BY <3>1
  <2> QED
    BY <1>1, <2>1, <2>2
<1>6. ASSUME NEW n \in DOMAIN s
      PROVE  s[n] = e \/ \E i \in DOMAIN q : s[n] = q[i]
  <2>1. CASE n <= r
    BY <1>1, <1>2, <1>3, <2>1
  <2>2. CASE n = r + 1
    BY <1>4, <2>2
  <2>3. CASE n > r + 1
    <3>1. n - 1 \in DOMAIN q /\ s[n] = q[n - 1]
      BY <1>1, <1>2, <1>3, <2>3
    <3> QED
      BY <3>1
  <2> QED
    BY <1>1, <1>3, <2>1, <2>2, <2>3
<1> QED
  BY <1>4, <1>5, <1>6 DEF s

-----------------------------------------------------------------------------
(***************************************************************************)
(* Order.  Events have integer times and priorities.                       *)
(***************************************************************************)
Timed(S) == \A x \in S : x.time \in Int /\ x.prio \in Int

LEMMA LeastNatural ==
  ASSUME NEW T, T \subseteq Nat, T # {}
  PROVE  \E m \in T : \A n \in T : m <= n
<1>1. PICK m \in T : \A n \in T : <<n, m>> \notin OpToRel(<, Nat)
  BY NatLessThanWellFounded, WFMin
<1>2. \A n \in T : ~(n < m)
  BY <1>1 DEF OpToRel
<1> QED
  BY <1>2

(***************************************************************************)
(* In an ordered queue the events that are not later than e are exactly    *)
(* the first Rank ones.                                                    *)
(***************************************************************************)
LEMMA RankCuts ==
  ASSUME NEW S, Timed(S), NEW q \in Seq(S), NEW e \in S, Ordered(q)
  PROVE  \A i \in DOMAIN q : i <= Rank(q, e) <=> ~Precedes(e, q[i])
<1> DEFINE Later == {i \in DOMAIN q : Precedes(e, q[i])}
           NotLater == {i \in DOMAIN q : ~Precedes(e, q[i])}
<1>1. DOMAIN q = 1 .. Len(q) /\ Len(q) \in Nat
  BY LenProperties
<1>2. \A i \in DOMAIN q : q[i].time \in Int /\ q[i].prio \in Int
  BY <1>1, ElementOfSeq DEF Timed
<1>3. e.time \in Int /\ e.prio \in Int
  BY DEF Timed
<1>4. \A i, j \in DOMAIN q : i < j /\ Precedes(e, q[i]) => Precedes(e, q[j])
  BY <1>2, <1>3 DEF Ordered, Precedes
<1>5. PICK k \in 0 .. Len(q) : \A i \in DOMAIN q : i <= k <=> ~Precedes(e, q[i])
  <2>1. CASE Later = {}
    BY <1>1, <2>1
  <2>2. CASE Later # {}
    <3>1. PICK m \in Later : \A n \in Later : m <= n
      <4>1. Later \subseteq Nat
        BY <1>1
      <4> QED
        BY <2>2, <4>1, LeastNatural
    <3>2. \A i \in DOMAIN q : i <= m - 1 <=> ~Precedes(e, q[i])
      BY <1>1, <1>4, <3>1
    <3>3. m - 1 \in 0 .. Len(q)
      BY <1>1
    <3> QED
      BY <3>2, <3>3
  <2> QED
    BY <2>1, <2>2
<1>6. NotLater = 1 .. k
  BY <1>1, <1>5
<1>7. Cardinality(1 .. k) = k
  BY <1>5, FS_Interval
<1>8. Rank(q, e) = k
  BY <1>6, <1>7 DEF Rank
<1> QED
  BY <1>5, <1>8

(***************************************************************************)
(* What is ahead of what in a queue in which an event was scheduled: two   *)
(* events that were there stay as they were, the new one is behind those   *)
(* that are not later and ahead of those that are.                         *)
(***************************************************************************)
LEMMA SchedulePairs ==
  ASSUME NEW S, Timed(S), NEW q \in Seq(S), NEW e \in S, Ordered(q)
  PROVE  LET s == Schedule(q, e) IN
         \A i, j \in DOMAIN s : i < j =>
           \/ \E a, b \in DOMAIN q : a < b /\ s[i] = q[a] /\ s[j] = q[b]
           \/ s[j] = e /\ \E a \in DOMAIN q : s[i] = q[a] /\ ~Precedes(e, q[a])
           \/ s[i] = e /\ \E b \in DOMAIN q : s[j] = q[b] /\ Precedes(e, q[b])
<1> DEFINE s == Schedule(q, e)
           r == Rank(q, e)
<1>1. r \in 0 .. Len(q) /\ Len(q) \in Nat /\ DOMAIN q = 1 .. Len(q)
  BY RankType, LenProperties
<1>2. DOMAIN s = 1 .. Len(q) + 1
  BY ScheduleProperties, LenProperties
<1>3. \A i \in 1 .. Len(q) + 1 :
        s[i] = IF i <= r THEN q[i] ELSE IF i = r + 1 THEN e ELSE q[i - 1]
  <2>1. \A i \in 1 .. Len(q) + 1 :
          Schedule(q, e)[i] = IF i <= Rank(q, e) THEN q[i]
                              ELSE IF i = Rank(q, e) + 1 THEN e ELSE q[i - 1]
    BY ScheduleProperties
  <2> QED
    BY <2>1
<1>4. \A i \in DOMAIN q : i <= r <=> ~Precedes(e, q[i])
  BY RankCuts
<1> HIDE DEF s, r
<1> SUFFICES ASSUME NEW i \in 1 .. Len(q) + 1, NEW j \in 1 .. Len(q) + 1, i < j
             PROVE  \/ \E a, b \in DOMAIN q : a < b /\ s[i] = q[a] /\ s[j] = q[b]
                    \/ s[j] = e /\ \E a \in DOMAIN q : s[i] = q[a] /\ ~Precedes(e, q[a])
                    \/ s[i] = e /\ \E b \in DOMAIN q : s[j] = q[b] /\ Precedes(e, q[b])
  BY <1>2 DEF s
<1>5. CASE j <= r
  <2>1. i \in DOMAIN q /\ j \in DOMAIN q /\ s[i] = q[i] /\ s[j] = q[j]
    BY <1>1, <1>3, <1>5
  <2> QED
    BY <2>1
<1>6. CASE j = r + 1
  <2>1. i \in DOMAIN q /\ i <= r /\ s[i] = q[i] /\ s[j] = e
    BY <1>1, <1>3, <1>6
  <2> QED
    BY <1>4, <2>1
<1>7. CASE j > r + 1 /\ i <= r
  <2>1. i \in DOMAIN q /\ j - 1 \in DOMAIN q /\ i < j - 1 /\ s[i] = q[i] /\ s[j] = q[j - 1]
    BY <1>1, <1>3, <1>7
  <2> QED
    BY <2>1
<1>8. CASE j > r + 1 /\ i = r + 1
  <2>1. j - 1 \in DOMAIN q /\ ~(j - 1 <= r) /\ s[j] = q[j - 1] /\ s[i] = e
    BY <1>1, <1>3, <1>8
  <2> QED
    BY <1>4, <2>1
<1>9. CASE j > r + 1 /\ i > r + 1
  <2>1. /\ i - 1 \in DOMAIN q /\ j - 1 \in DOMAIN q /\ i - 1 < j - 1
        /\ s[i] = q[i - 1] /\ s[j] = q[j - 1]
    BY <1>1, <1>3, <1>9
  <2> QED
    BY <2>1
<1> QED
  BY <1>1, <1>5, <1>6, <1>7, <1>8, <1>9

(***************************************************************************)
(* Scheduling an event keeps the queue in the order of service: nothing    *)
(* that is due is ever behind something that is due later.                 *)
(***************************************************************************)
THEOREM ScheduleKeepsOrder ==
  ASSUME NEW S, Timed(S), NEW q \in Seq(S), NEW e \in S, Ordered(q)
  PROVE  Ordered(Schedule(q, e))
<1> DEFINE s == Schedule(q, e)
           r == Rank(q, e)
<1>1. r \in 0 .. Len(q) /\ Len(q) \in Nat /\ DOMAIN q = 1 .. Len(q)
  BY RankType, LenProperties
<1>2. DOMAIN s = 1 .. Len(q) + 1
  BY ScheduleProperties, LenProperties
<1>3. \A i \in 1 .. Len(q) + 1 :
        s[i] = IF i <= r THEN q[i] ELSE IF i = r + 1 THEN e ELSE q[i - 1]
  <2>1. \A i \in 1 .. Len(q) + 1 :
          Schedule(q, e)[i] = IF i <= Rank(q, e) THEN q[i]
                              ELSE IF i = Rank(q, e) + 1 THEN e ELSE q[i - 1]
    BY ScheduleProperties
  <2> QED
    BY <2>1
<1>4. \A i \in DOMAIN q : i <= r <=> ~Precedes(e, q[i])
  BY RankCuts
<1>5. \A i \in DOMAIN q : q[i].time \in Int /\ q[i].prio \in Int
  BY <1>1, ElementOfSeq DEF Timed
<1>6. e.time \in Int /\ e.prio \in Int
  BY DEF Timed
<1> HIDE DEF s, r
<1>7. SUFFICES ASSUME NEW i \in 1 .. Len(q) + 1, NEW j \in 1 .. Len(q) + 1, i < j
               PROVE  ~Precedes(s[j], s[i])
  BY <1>2 DEF Ordered, s
<1>8. CASE j <= r
  <2>1. i \in DOMAIN q /\ j \in DOMAIN q /\ s[i] = q[i] /\ s[j] = q[j]
    BY <1>1, <1>3, <1>7, <1>8
  <2> QED
    BY <1>7, <2>1 DEF Ordered
<1>9. CASE j = r + 1
  <2>1. i \in DOMAIN q /\ i <= r /\ s[i] = q[i] /\ s[j] = e
    BY <1>1, <1>3, <1>7, <1>9
  <2> QED
    BY <1>4, <2>1
<1>10. CASE j > r + 1 /\ i <= r
  <2>1. i \in DOMAIN q /\ j - 1 \in DOMAIN q /\ i < j - 1 /\ s[i] = q[i] /\ s[j] = q[j - 1]
    BY <1>1, <1>3, <1>7, <1>10
  <2> QED
    BY <2>1 DEF Ordered
<1>11. CASE j > r + 1 /\ i = r + 1
  <2>1. j - 1 \in DOMAIN q /\ ~(j - 1 <= r) /\ s[i] = e /\ s[j] = q[j - 1]
    BY <1>1, <1>3, <1>7, <1>11
  <2>2. Precedes(e, q[j - 1])
    BY <1>4, <2>1
  <2> QED
    BY <1>5, <1>6, <2>1, <2>2 DEF Precedes
<1>12. CASE j > r + 1 /\ i > r + 1
  <2>1. i - 1 \in DOMAIN q /\ j - 1 \in DOMAIN q /\ i - 1 < j - 1
        /\ s[i] = q[i - 1] /\ s[j] = q[j - 1]
    BY <1>1, <1>3, <1>7, <1>12
  <2> QED
    BY <2>1 DEF Ordered
<1> QED
  BY <1>1, <1>8, <1>9, <1>10, <1>11, <1>12

(***************************************************************************)
(* Taking the first event keeps the order.                                 *)
(***************************************************************************)
LEMMA TailKeepsOrder ==
  ASSUME NEW S, NEW q \in Seq(S), q # <<>>, Ordered(q)
  PROVE  Ordered(Tail(q))
<1>1. /\ Len(q) \in Nat \ {0} /\ DOMAIN q = 1 .. Len(q)
      /\ DOMAIN Tail(q) = 1 .. Len(q) - 1
      /\ \A i \in 1 .. Len(q) - 1 : Tail(q)[i] = q[i + 1]
  BY HeadTailProperties, LenProperties, EmptySeq
<1> QED
  BY <1>1 DEF Ordered

-----------------------------------------------------------------------------
(***************************************************************************)
(* The validator.  ServoAfter is a recursive function: that one with its   *)
(* recursion exists is shown for the least number of commands for which    *)
(* there would be none.                                                    *)
(***************************************************************************)
\* A walk of the first N commands of p.
Walks(f, p, N) ==
  f = [n \in 0 .. N |-> IF n = 0 THEN "ServoOff" ELSE ServoStep(f[n - 1], p[n].type)]

LEMMA WalkExists ==
  ASSUME NEW p, NEW N \in Nat
  PROVE  \E f : Walks(f, p, N)
<1> DEFINE Bad == {n \in Nat : ~ \E f : Walks(f, p, n)}
<1> SUFFICES Bad = {}
  OBVIOUS
<1> SUFFICES ASSUME Bad # {} PROVE FALSE
  OBVIOUS
<1>1. PICK m \in Bad : \A n \in Bad : m <= n
  <2>1. Bad \subseteq Nat
    OBVIOUS
  <2> QED
    BY <2>1, LeastNatural
<1>2. Walks([n \in 0 .. 0 |-> "ServoOff"], p, 0)
  BY DEF Walks
<1>3. m # 0
  BY <1>1, <1>2
<1>4. m - 1 \in Nat /\ m - 1 \notin Bad
  BY <1>1, <1>3
<1>5. PICK f : Walks(f, p, m - 1)
  BY <1>4
<1> DEFINE g == [n \in 0 .. m |-> IF n = m THEN ServoStep(f[m - 1], p[m].type) ELSE f[n]]
<1>6. \A n \in 0 .. m - 1 : f[n] = IF n = 0 THEN "ServoOff" ELSE ServoStep(f[n - 1], p[n].type)
  BY <1>5 DEF Walks
<1>7. \A n \in 0 .. m : g[n] = IF n = 0 THEN "ServoOff" ELSE ServoStep(g[n - 1], p[n].type)
  BY <1>3, <1>4, <1>6
<1>8. g = [n \in 0 .. m |-> IF n = 0 THEN "ServoOff" ELSE ServoStep(g[n - 1], p[n].type)]
  BY <1>7, Zenon
<1>9. Walks(g, p, m)
  BY <1>8 DEF Walks
<1> QED
  BY <1>1, <1>9

LEMMA ServoAfterWalks ==
  ASSUME NEW S, NEW p \in Seq(S)
  PROVE  Walks(ServoAfter(p), p, Len(p))
<1>1. \E f : Walks(f, p, Len(p))
  BY WalkExists
<1>2. ServoAfter(p) = CHOOSE f : Walks(f, p, Len(p))
  BY DEF ServoAfter, Walks
<1> QED
  BY <1>1, <1>2

(***************************************************************************)
(* The walk of ValidateProgram, unfolded: it starts with the servo off and *)
(* makes one step per command.                                             *)
(***************************************************************************)
LEMMA ServoAfterSteps ==
  ASSUME NEW S, NEW p \in Seq(S)
  PROVE  /\ ServoAfter(p)[0] = "ServoOff"
         /\ \A n \in 1 .. Len(p) :
              ServoAfter(p)[n] = ServoStep(ServoAfter(p)[n - 1], p[n].type)
<1>1. Len(p) \in Nat
  BY LenProperties
<1> DEFINE f == ServoAfter(p)
<1>2. \A n \in 0 .. Len(p) : f[n] = IF n = 0 THEN "ServoOff" ELSE ServoStep(f[n - 1], p[n].type)
  BY ServoAfterWalks DEF Walks
<1> QED
  BY <1>1, <1>2

LEMMA LegalStates ==
  /\ \A type : LegalIn(type) \subseteq {"ServoOff", "Ready"}
  /\ \A servo, type : ServoStep(servo, type) = "Stopped" =>
       servo = "Stopped" \/ type = "STOP"
  /\ \A servo \in {"ServoOff", "Ready"} : ServoStep(servo, "STOP") = "Stopped"
BY DEF LegalIn, ServoStep

(***************************************************************************)
(* An accepted program has one STOP, and it is its last command.           *)
(***************************************************************************)
LEMMA StopEndsProgram ==
  ASSUME NEW S, NEW p \in Seq(S), Accepts(p)
  PROVE  /\ Len(p) \in Nat \ {0}
         /\ \A n \in DOMAIN p : p[n].type = "STOP" <=> n = Len(p)
<1>1. DOMAIN p = 1 .. Len(p) /\ Len(p) \in Nat \ {0}
  BY LenProperties, EmptySeq DEF Accepts
<1>2. \A n \in 1 .. Len(p) :
        /\ ServoAfter(p)[n - 1] \in LegalIn(p[n].type)
        /\ ServoAfter(p)[n] = ServoStep(ServoAfter(p)[n - 1], p[n].type)
  BY ServoAfterSteps DEF Accepts
<1>3. \A n \in 1 .. Len(p) : ServoAfter(p)[n - 1] \in {"ServoOff", "Ready"}
  BY <1>2, LegalStates
<1>4. p[Len(p)].type = "STOP"
  BY <1>1, <1>2, <1>3, LegalStates DEF Accepts
<1>5. ASSUME NEW n \in 1 .. Len(p), p[n].type = "STOP", n # Len(p)
      PROVE  FALSE
  <2>1. ServoAfter(p)[n] = "Stopped"
    BY <1>2, <1>3, <1>5, LegalStates
  <2>2. n + 1 \in 1 .. Len(p) /\ (n + 1) - 1 = n
    BY <1>1, <1>5
  <2> QED
    BY <1>3, <2>1, <2>2
<1> QED
  BY <1>1, <1>4, <1>5
=============================================================================
