---------------------------- MODULE KernelProofs ----------------------------
(***************************************************************************)
(* The validator accepts the well-formed programs and no others, and the   *)
(* heap implements the list: for programs of every length, and for every   *)
(* set of requests with integer times and priorities.  MCKernels bounds    *)
(* both for TLC; here MaxLength, Capacity and MaxSequence are arbitrary.   *)
(*                                                                         *)
(* What holds along a program or for every set of events is shown on a     *)
(* smallest counterexample (LeastNatural).                                 *)
(***************************************************************************)
EXTENDS MCKernels, AlgorithmProofs

-----------------------------------------------------------------------------
(***************************************************************************)
(* The validator.                                                          *)
(***************************************************************************)

Program == Seq([type : CommandTypes])

\* There is no STOP among the first n commands.
StopFree(p, n) == \A k \in 1 .. n : p[k].type # "STOP"

LEMMA ProgramFacts ==
  ASSUME NEW p \in Program
  PROVE  /\ DOMAIN p = 1 .. Len(p) /\ Len(p) \in Nat
         /\ \A n \in 1 .. Len(p) : p[n].type \in CommandTypes
<1>1. DOMAIN p = 1 .. Len(p) /\ Len(p) \in Nat
  BY LenProperties DEF Program
<1>2. \A n \in 1 .. Len(p) : p[n] \in [type : CommandTypes]
  BY ElementOfSeq DEF Program
<1> QED
  BY <1>1, <1>2

(***************************************************************************)
(* How a command changes whether the servo is powered: only SERVO_ON and   *)
(* SERVO_OFF do.                                                           *)
(***************************************************************************)
LEMMA PoweredStep ==
  ASSUME NEW p \in Program, NEW n \in 1 .. Len(p)
  PROVE  PoweredAt(p, n + 1) <=>
           \/ p[n].type = "SERVO_ON"
           \/ p[n].type # "SERVO_OFF" /\ PoweredAt(p, n)
<1>1. DOMAIN p = 1 .. Len(p) /\ Len(p) \in Nat
  BY LenProperties DEF Program
<1>2. ASSUME p[n].type = "SERVO_ON"
      PROVE  PoweredAt(p, n + 1)
  <2>1. n \in Types(p, {"SERVO_ON"}) /\ n < n + 1
    BY <1>1, <1>2 DEF Types
  <2>2. \A off \in Types(p, {"SERVO_OFF"}) : ~(n < off /\ off < n + 1)
    BY <1>1 DEF Types
  <2> QED
    BY <2>1, <2>2 DEF PoweredAt
<1>3. ASSUME p[n].type = "SERVO_OFF"
      PROVE  ~PoweredAt(p, n + 1)
  <2> SUFFICES ASSUME NEW on \in Types(p, {"SERVO_ON"}), on < n + 1,
                      \A off \in Types(p, {"SERVO_OFF"}) : ~(on < off /\ off < n + 1)
               PROVE  FALSE
    BY DEF PoweredAt
  <2>1. on \in 1 .. Len(p) /\ p[on].type = "SERVO_ON"
    BY <1>1 DEF Types
  <2>2. on # n
    BY <1>3, <2>1
  <2>3. n \in Types(p, {"SERVO_OFF"})
    BY <1>1, <1>3 DEF Types
  <2> QED
    BY <2>1, <2>2, <2>3
<1>4. ASSUME p[n].type \notin {"SERVO_ON", "SERVO_OFF"}
      PROVE  PoweredAt(p, n + 1) <=> PoweredAt(p, n)
  <2>1. \A k \in Types(p, {"SERVO_ON"}) \cup Types(p, {"SERVO_OFF"}) :
          k \in 1 .. Len(p) /\ (k < n + 1 <=> k < n)
    BY <1>1, <1>4 DEF Types
  <2> QED
    BY <2>1 DEF PoweredAt
<1> QED
  BY <1>2, <1>3, <1>4

(***************************************************************************)
(* The servo state ValidateProgram carries along says whether the servo is *)
(* powered at that command, as long as there was no STOP.                  *)
(***************************************************************************)
LEMMA ServoIsPowered ==
  ASSUME NEW p \in Program, NEW N \in 0 .. Len(p), StopFree(p, N)
  PROVE  ServoAfter(p)[N] = IF PoweredAt(p, N + 1) THEN "Ready" ELSE "ServoOff"
<1>0. DOMAIN p = 1 .. Len(p) /\ Len(p) \in Nat
  BY LenProperties DEF Program
<1> DEFINE Same(n) == ServoAfter(p)[n] = IF PoweredAt(p, n + 1) THEN "Ready" ELSE "ServoOff"
           Bad == {n \in 0 .. N : ~Same(n)}
<1> SUFFICES ASSUME Bad # {} PROVE FALSE
  OBVIOUS
<1>1. PICK m \in Bad : \A n \in Bad : m <= n
  <2>1. Bad \subseteq Nat
    OBVIOUS
  <2> HIDE DEF Bad
  <2> QED
    BY <2>1, LeastNatural
<1>2. Same(0)
  <2>1. ~PoweredAt(p, 0 + 1)
    BY <1>0 DEF PoweredAt, Types
  <2> QED
    BY <2>1, ServoAfterSteps DEF Program
<1>3. m \in 1 .. N /\ Same(m - 1) /\ m \in 1 .. Len(p)
  BY <1>0, <1>1, <1>2
<1>4. ServoAfter(p)[m] = ServoStep(ServoAfter(p)[m - 1], p[m].type)
  BY <1>3, ServoAfterSteps DEF Program
<1>5. p[m].type \in CommandTypes \ {"STOP"}
  BY <1>3, ProgramFacts DEF StopFree
<1>6. ServoAfter(p)[m - 1] = IF PoweredAt(p, m) THEN "Ready" ELSE "ServoOff"
  BY <1>3
<1>7. PoweredAt(p, m + 1) <=>
        p[m].type = "SERVO_ON" \/ (p[m].type # "SERVO_OFF" /\ PoweredAt(p, m))
  BY <1>3, PoweredStep
<1>8. Same(m)
  BY <1>4, <1>5, <1>6, <1>7 DEF ServoStep, LegalIn, CommandTypes
<1> QED
  BY <1>1, <1>8

(***************************************************************************)
(* The walk and the declarative reference agree: either one alone gives    *)
(* that STOP is at the end and nowhere else, and given that the commands   *)
(* are legal for the servo at the same positions.                          *)
(***************************************************************************)
LEMMA AcceptedAreWellFormed ==
  ASSUME NEW p \in Program
  PROVE  Accepts(p) <=> WellFormed(p)
<1>0. DOMAIN p = 1 .. Len(p) /\ Len(p) \in Nat /\ \A n \in 1 .. Len(p) : p[n].type \in CommandTypes
  BY ProgramFacts
<1>01. Len(p) \in Nat
  BY <1>0
<1> DEFINE OnlyStop == Len(p) # 0 /\ \A n \in 1 .. Len(p) : p[n].type = "STOP" <=> n = Len(p)
<1>1. Accepts(p) => OnlyStop
  BY <1>0, StopEndsProgram DEF Program
<1>2. WellFormed(p) => OnlyStop
  <2> SUFFICES ASSUME Types(p, {"STOP"}) # {}, Types(p, {"STOP"}) = {Len(p)}
               PROVE  OnlyStop
    BY DEF WellFormed
  <2>1. \A n : n \in {Len(p)} <=> n \in 1 .. Len(p) /\ p[n].type = "STOP"
    BY <1>0 DEF Types
  <2>2. Len(p) \in 1 .. Len(p)
    BY <2>1
  <2>3. \A n \in 1 .. Len(p) : p[n].type = "STOP" <=> n = Len(p)
    BY <2>1
  <2>4. Len(p) # 0
    BY <1>01, <2>2
  <2> QED
    BY <2>3, <2>4
<1>3. ASSUME OnlyStop
      PROVE  Accepts(p) <=> WellFormed(p)
  <2>1. ASSUME NEW n \in 1 .. Len(p)
        PROVE  ServoAfter(p)[n - 1] = IF PoweredAt(p, n) THEN "Ready" ELSE "ServoOff"
    <3>1. n - 1 \in 0 .. Len(p) /\ (n - 1) + 1 = n /\ n \in Nat
      BY <1>0
    <3>2. StopFree(p, n - 1)
      <4>1. \A k \in 1 .. n - 1 : k \in 1 .. Len(p) /\ k # Len(p)
        BY <1>01
      <4> QED
        BY <1>3, <4>1 DEF StopFree
    <3> QED
      BY <3>1, <3>2, ServoIsPowered
  <2>2. ASSUME NEW n \in 1 .. Len(p)
        PROVE  ServoAfter(p)[n - 1] \in LegalIn(p[n].type) <=>
                 /\ p[n].type = "SERVO_ON" => ~PoweredAt(p, n)
                 /\ p[n].type \notin {"SERVO_ON", "STOP"} => PoweredAt(p, n)
    BY <1>0, <2>1 DEF LegalIn, CommandTypes
  <2>3. ServoAfter(p)[Len(p)] = "Stopped"
    <3>1. Len(p) \in 1 .. Len(p)
      BY <1>01, <1>3
    <3>2. ServoAfter(p)[Len(p)] = ServoStep(ServoAfter(p)[Len(p) - 1], "STOP")
      BY <1>3, <3>1, ServoAfterSteps DEF Program
    <3> QED
      BY <2>1, <3>1, <3>2, LegalStates
  <2>4. Types(p, {"STOP"}) = {Len(p)}
    <3>1. Len(p) \in 1 .. Len(p)
      BY <1>01, <1>3
    <3>2. \A n : n \in Types(p, {"STOP"}) <=> n = Len(p)
      BY <1>0, <1>3, <3>1 DEF Types
    <3> QED
      BY <3>2
  <2>5. WellFormed(p) <=> \A n \in 1 .. Len(p) :
          /\ p[n].type = "SERVO_ON" => ~PoweredAt(p, n)
          /\ p[n].type \notin {"SERVO_ON", "STOP"} => PoweredAt(p, n)
    <3>1. Types(p, {"STOP"}) # {}
      BY <2>4
    <3>2. \A n : /\ n \in Types(p, {"SERVO_ON"}) <=> n \in 1 .. Len(p) /\ p[n].type = "SERVO_ON"
                 /\ n \in Types(p, CommandTypes \ {"SERVO_ON", "STOP"}) <=>
                      n \in 1 .. Len(p) /\ p[n].type \notin {"SERVO_ON", "STOP"}
      BY <1>0 DEF Types
    <3>3. /\ (\A n \in Types(p, {"SERVO_ON"}) : ~PoweredAt(p, n)) <=>
               \A n \in 1 .. Len(p) : p[n].type = "SERVO_ON" => ~PoweredAt(p, n)
          /\ (\A n \in Types(p, CommandTypes \ {"SERVO_ON", "STOP"}) : PoweredAt(p, n)) <=>
               \A n \in 1 .. Len(p) : p[n].type \notin {"SERVO_ON", "STOP"} => PoweredAt(p, n)
      BY <3>2, Zenon
    <3> HIDE DEF OnlyStop
    <3> QED
      BY <2>4, <3>1, <3>3 DEF WellFormed
  <2>6. p # <<>>
    BY <1>3, EmptySeq
  <2> QED
    <3>1. (\A n \in 1 .. Len(p) : ServoAfter(p)[n - 1] \in LegalIn(p[n].type)) <=> WellFormed(p)
      <4> DEFINE Legal(n) == ServoAfter(p)[n - 1] \in LegalIn(p[n].type)
                 Fits(n) == /\ p[n].type = "SERVO_ON" => ~PoweredAt(p, n)
                            /\ p[n].type \notin {"SERVO_ON", "STOP"} => PoweredAt(p, n)
      <4>1. \A n \in 1 .. Len(p) : Legal(n) <=> Fits(n)
        BY <2>2
      <4>2. WellFormed(p) <=> \A n \in 1 .. Len(p) : Fits(n)
        BY <2>5
      <4> HIDE DEF Legal, Fits
      <4>3. (\A n \in 1 .. Len(p) : Legal(n)) <=> WellFormed(p)
        BY <4>1, <4>2
      <4> QED
        BY <4>3 DEF Legal
    <3> HIDE DEF OnlyStop
    <3> QED
      BY <2>3, <2>6, <3>1 DEF Accepts
<1> QED
  BY <1>1, <1>2, <1>3

(***************************************************************************)
(* ValidateProgram accepts a program exactly when it is well formed.       *)
(***************************************************************************)
THEOREM ValidatorMeetsReference == KernelSpec => []AcceptsWellFormed
<1>1. KernelInit => candidate \in Program
  BY EmptySeq DEF KernelInit, Program
<1>2. candidate \in Program /\ [HeapStep \/ ValidatorStep]_kernelVars => (candidate \in Program)'
  <2>1. ASSUME candidate \in Program, NEW type \in CommandTypes
        PROVE  Append(candidate, [type |-> type]) \in Program
    <3>1. [type |-> type] \in [type : CommandTypes]
      OBVIOUS
    <3> QED
      BY <2>1, <3>1, AppendProperties DEF Program
  <2> QED
    BY <2>1 DEF HeapStep, ValidatorStep, AddCommand, kernelVars
<1>3. candidate \in Program => AcceptsWellFormed
  BY AcceptedAreWellFormed DEF AcceptsWellFormed
<1> QED
  BY <1>1, <1>2, <1>3, PTL DEF KernelSpec

-----------------------------------------------------------------------------
(***************************************************************************)
(* The heap.  Stamped events of which no two have the same sequence number *)
(* are strictly ordered by ServedBefore.                                   *)
(***************************************************************************)
StampedRequest == [request : Requests, sequence : Nat]

Stamped(S) ==
  /\ S \subseteq StampedRequest /\ IsFiniteSet(S)
  /\ \A e, f \in S : e.sequence = f.sequence => e = f

LEMMA ServiceIsStrict ==
  ASSUME NEW e \in StampedRequest, NEW f \in StampedRequest
  PROVE  /\ ~(ServedBefore(e, f) /\ ServedBefore(f, e))
         /\ e.sequence # f.sequence => ServedBefore(e, f) \/ ServedBefore(f, e)
         /\ \A g \in StampedRequest : ServedBefore(e, f) /\ ServedBefore(f, g) => ServedBefore(e, g)
<1>1. \A d \in StampedRequest :
        /\ d.request.time \in Int /\ d.request.prio \in Int /\ d.sequence \in Int
  BY HeapAssumption DEF StampedRequest
<1> QED
  BY <1>1 DEF ServedBefore, Precedes

LEMMA StampedSubset ==
  ASSUME NEW S, Stamped(S), NEW T, T \subseteq S
  PROVE  Stamped(T)
BY FS_Subset DEF Stamped

\* An order of service has every event once.
LEMMA ServiceIsOnto ==
  ASSUME NEW S, Stamped(S), NEW q, InService(q, S)
  PROVE  /\ Cardinality(S) \in Nat /\ DOMAIN q = 1 .. Cardinality(S)
         /\ \A i \in DOMAIN q : q[i] \in S /\ q[i] \in StampedRequest
         /\ \A e \in S : \E i \in DOMAIN q : q[i] = e
<1>1. Cardinality(S) \in Nat
  BY FS_CardinalityType DEF Stamped
<1>2. DOMAIN q = 1 .. Cardinality(S) /\ \A i \in DOMAIN q : q[i] \in S /\ q[i] \in StampedRequest
  BY DEF InService, Stamped
<1>3. \A i, j \in DOMAIN q : i # j => q[i] # q[j]
  <2> SUFFICES ASSUME NEW i \in DOMAIN q, NEW j \in DOMAIN q, i < j
               PROVE  q[i] # q[j]
    BY <1>1, <1>2
  <2>1. ServedBefore(q[i], q[j])
    BY DEF InService
  <2> QED
    BY <1>2, <2>1, ServiceIsStrict
<1>4. q \in Injection(1 .. Cardinality(S), S)
  BY <1>2, <1>3 DEF InService, Injection, IsInjective
<1>5. IsFiniteSet(1 .. Cardinality(S)) /\ Cardinality(1 .. Cardinality(S)) = Cardinality(S)
  BY <1>1, FS_Interval
<1>6. q \in Surjection(1 .. Cardinality(S), S)
  BY <1>4, <1>5, FS_Injection DEF Stamped
<1> QED
  BY <1>1, <1>2, <1>6 DEF Surjection

(***************************************************************************)
(* There is one order of service only: where two of them first differ,     *)
(* each has the event of the other further behind.                         *)
(***************************************************************************)
LEMMA ServiceIsUnique ==
  ASSUME NEW S, Stamped(S), NEW p, InService(p, S), NEW q, InService(q, S)
  PROVE  p = q
<1> DEFINE Differ == {i \in DOMAIN p : p[i] # q[i]}
<1>0. /\ Cardinality(S) \in Nat /\ DOMAIN p = 1 .. Cardinality(S) /\ DOMAIN q = DOMAIN p
      /\ p \in [1 .. Cardinality(S) -> S] /\ q \in [1 .. Cardinality(S) -> S]
      /\ \A i \in DOMAIN p : p[i] \in StampedRequest /\ q[i] \in StampedRequest
  BY ServiceIsOnto DEF InService
<1> SUFFICES ASSUME Differ # {} PROVE FALSE
  BY <1>0
<1>1. PICK m \in Differ : \A n \in Differ : m <= n
  <2>1. Differ \subseteq Nat
    BY <1>0
  <2> HIDE DEF Differ
  <2> QED
    BY <2>1, LeastNatural
<1>2. \A i \in DOMAIN p : i < m => p[i] = q[i]
  BY <1>0, <1>1
<1>21. /\ m \in DOMAIN p /\ p[m] \in S /\ q[m] \in S
       /\ \A e \in S : \E i \in DOMAIN p : p[i] = e
       /\ \A e \in S : \E i \in DOMAIN p : q[i] = e
  <2>1. \A e \in S : \E i \in DOMAIN q : q[i] = e
    BY ServiceIsOnto
  <2>2. \A e \in S : \E i \in DOMAIN p : p[i] = e
    BY ServiceIsOnto
  <2> QED
    BY <1>0, <1>1, <2>1, <2>2
<1>3. PICK j \in DOMAIN p : q[j] = p[m]
  BY <1>21
<1>4. PICK k \in DOMAIN p : p[k] = q[m]
  BY <1>21
<1>5. ~ServedBefore(p[m], p[m]) /\ ~ServedBefore(q[m], q[m])
  BY <1>0, <1>1, ServiceIsStrict
<1>6. m < j
  <2>1. CASE j < m
    BY <1>0, <1>1, <1>2, <1>3, <1>5, <2>1 DEF InService
  <2>2. CASE j = m
    BY <1>1, <1>3, <2>2
  <2> QED
    BY <1>0, <1>1, <2>1, <2>2
<1>7. m < k
  <2>1. CASE k < m
    BY <1>0, <1>1, <1>2, <1>4, <1>5, <2>1 DEF InService
  <2>2. CASE k = m
    BY <1>1, <1>4, <2>2
  <2> QED
    BY <1>0, <1>1, <2>1, <2>2
<1>8. ServedBefore(q[m], p[m]) /\ ServedBefore(p[m], q[m])
  BY <1>0, <1>1, <1>3, <1>4, <1>6, <1>7 DEF InService
<1> QED
  BY <1>0, <1>1, <1>8, ServiceIsStrict

(***************************************************************************)
(* An event put behind the k events that are served before it.             *)
(***************************************************************************)
PutBehind(q, N, k, e) ==
  [i \in 1 .. N + 1 |-> IF i <= k THEN q[i] ELSE IF i = k + 1 THEN e ELSE q[i - 1]]

LEMMA PutInService ==
  ASSUME NEW S, NEW e \in StampedRequest, e \notin S, Stamped(S \cup {e}),
         NEW q, InService(q, S), NEW k \in 0 .. Cardinality(S),
         \A i \in 1 .. Cardinality(S) : i <= k <=> ServedBefore(q[i], e)
  PROVE  InService(PutBehind(q, Cardinality(S), k, e), S \cup {e})
<1> DEFINE N == Cardinality(S)
           p == PutBehind(q, N, k, e)
<1>0. Stamped(S) /\ S \subseteq S \cup {e}
  BY StampedSubset
<1>1. N \in Nat /\ DOMAIN q = 1 .. N /\ \A i \in 1 .. N : q[i] \in S /\ q[i] \in StampedRequest
  BY <1>0, ServiceIsOnto
<1>2. Cardinality(S \cup {e}) = N + 1
  BY <1>0, FS_AddElement DEF Stamped
<1>3. p \in [1 .. N + 1 -> S \cup {e}]
  BY <1>1 DEF PutBehind
<1>4. ASSUME NEW i \in 1 .. N
      PROVE  k < i => ServedBefore(e, q[i])
  <2>1. e.sequence # q[i].sequence
    BY <1>1 DEF Stamped
  <2> QED
    BY <1>1, <2>1, ServiceIsStrict
<1>5. ASSUME NEW i \in 1 .. N + 1, NEW j \in 1 .. N + 1, i < j
      PROVE  ServedBefore(p[i], p[j])
  <2>1. /\ p[i] = IF i <= k THEN q[i] ELSE IF i = k + 1 THEN e ELSE q[i - 1]
        /\ p[j] = IF j <= k THEN q[j] ELSE IF j = k + 1 THEN e ELSE q[j - 1]
    BY DEF PutBehind
  <2>2. \A a, b \in 1 .. N : a < b => ServedBefore(q[a], q[b])
    BY <1>1 DEF InService
  <2>3. CASE j <= k
    BY <1>1, <1>5, <2>1, <2>2, <2>3
  <2>4. CASE j = k + 1
    <3>1. i \in 1 .. N /\ i <= k
      BY <1>1, <1>5, <2>4
    <3> QED
      BY <2>1, <2>4, <3>1
  <2>5. CASE j > k + 1
    <3>1. j - 1 \in 1 .. N /\ k < j - 1 /\ p[j] = q[j - 1]
      BY <1>1, <1>5, <2>1, <2>5
    <3>2. CASE i <= k
      <4>1. i \in 1 .. N /\ i < j - 1
        BY <1>1, <1>5, <3>1, <3>2
      <4> QED
        BY <2>1, <2>2, <3>1, <3>2, <4>1
    <3>3. CASE i = k + 1
      BY <1>4, <2>1, <3>1, <3>3
    <3>4. CASE i > k + 1
      <4>1. i - 1 \in 1 .. N /\ i - 1 < j - 1 /\ p[i] = q[i - 1]
        BY <1>1, <1>5, <2>1, <3>4
      <4> QED
        BY <2>2, <3>1, <4>1
    <3> QED
      BY <1>1, <3>2, <3>3, <3>4
  <2> QED
    BY <1>1, <2>3, <2>4, <2>5
<1> QED
  BY <1>2, <1>3, <1>5 DEF InService

(***************************************************************************)
(* Every set of stamped events can be served: otherwise take a smallest    *)
(* one that cannot, and put one of its events where it belongs in an order *)
(* of the others.                                                          *)
(***************************************************************************)
LEMMA ServiceExists ==
  ASSUME NEW S, Stamped(S)
  PROVE  InService(Service(S), S)
<1> DEFINE Servable(T) == \E q : InService(q, T)
           Bad == {n \in Nat : \E T \in SUBSET S : Cardinality(T) = n /\ ~Servable(T)}
<1>1. \A T \in SUBSET S : Stamped(T) /\ IsFiniteSet(T) /\ Cardinality(T) \in Nat
  <2> TAKE T \in SUBSET S
  <2>1. Stamped(T)
    BY StampedSubset
  <2> QED
    BY <2>1, FS_CardinalityType DEF Stamped
<1>2. ASSUME Bad # {}
      PROVE  FALSE
  <2>1. PICK n \in Bad : \A k \in Bad : n <= k
    <3>1. Bad \subseteq Nat
      OBVIOUS
    <3> HIDE DEF Bad
    <3> QED
      BY <1>2, <3>1, LeastNatural
  <2>2. PICK T \in SUBSET S : Cardinality(T) = n /\ ~Servable(T)
    BY <2>1
  <2>3. T # {}
    <3> SUFFICES ASSUME T = {} PROVE FALSE
      OBVIOUS
    <3>1. Cardinality(T) = 0
      BY FS_EmptySet
    <3>2. InService([i \in 1 .. 0 |-> i], T)
      BY <3>1 DEF InService
    <3> QED
      BY <2>2, <3>2
  <2>4. PICK e \in T : TRUE
    BY <2>3
  <2> DEFINE R == T \ {e}
             N == Cardinality(R)
  <2>5. R \in SUBSET S /\ e \notin R /\ R \cup {e} = T
    BY <2>2, <2>4
  <2> HIDE DEF R
  <2>6. N \in Nat /\ n = N + 1 /\ Stamped(R) /\ Stamped(T) /\ e \in StampedRequest
    <3>1. IsFiniteSet(R) /\ Stamped(R) /\ Stamped(T)
      BY <1>1, <2>2, <2>5
    <3>2. Cardinality(R \cup {e}) = N + 1
      BY <2>5, <3>1, FS_AddElement
    <3> QED
      BY <1>1, <2>2, <2>4, <2>5, <3>1, <3>2 DEF Stamped
  <2>7. PICK q : InService(q, R)
    <3>1. N \notin Bad
      BY <2>1, <2>6
    <3> QED
      BY <2>5, <2>6, <3>1
  <2>8. DOMAIN q = 1 .. N /\ \A i \in 1 .. N : q[i] \in R /\ q[i] \in StampedRequest
    BY <2>6, <2>7, ServiceIsOnto
  <2> DEFINE Behind == {i \in 1 .. N : ~ServedBefore(q[i], e)} \cup {N + 1}
  <2>9. PICK m \in Behind : \A i \in Behind : m <= i
    <3>1. Behind \subseteq Nat /\ Behind # {}
      BY <2>6
    <3> HIDE DEF Behind
    <3> QED
      BY <3>1, LeastNatural
  <2>10. m - 1 \in 0 .. N
    BY <2>6, <2>9
  <2>11. \A i \in 1 .. N : i <= m - 1 <=> ServedBefore(q[i], e)
    <3> TAKE i \in 1 .. N
    <3>1. ASSUME i <= m - 1
          PROVE  ServedBefore(q[i], e)
      BY <2>6, <2>9, <3>1
    <3>2. ASSUME ServedBefore(q[i], e), m <= i
          PROVE  FALSE
      <4>1. m \in 1 .. N /\ ~ServedBefore(q[m], e)
        BY <2>6, <2>9, <3>2
      <4>2. m # i
        BY <3>2, <4>1
      <4>3. ServedBefore(q[m], q[i])
        BY <2>6, <2>7, <2>8, <3>2, <4>1, <4>2 DEF InService
      <4> QED
        BY <2>6, <2>8, <3>2, <4>1, <4>3, ServiceIsStrict
    <3> QED
      BY <2>6, <2>10, <3>1, <3>2
  <2>12. InService(PutBehind(q, N, m - 1, e), R \cup {e})
    BY <2>5, <2>6, <2>7, <2>10, <2>11, PutInService
  <2> QED
    BY <2>2, <2>5, <2>12
<1>3. Servable(S)
  BY <1>1, <1>2
<1>4. PICK q : InService(q, S)
  BY <1>3
<1>5. q \in [1 .. Cardinality(S) -> S]
  BY <1>4 DEF InService
<1> QED
  BY <1>4, <1>5 DEF Service

LEMMA ServiceIs ==
  ASSUME NEW S, Stamped(S), NEW q, InService(q, S)
  PROVE  Service(S) = q
BY ServiceExists, ServiceIsUnique

(***************************************************************************)
(* The requests in the order of service are an ordered queue.              *)
(***************************************************************************)
LEMMA InOrderIsQueue ==
  ASSUME NEW S, Stamped(S)
  PROVE  /\ InOrder(S) \in Seq(Requests) /\ Len(InOrder(S)) = Cardinality(S)
         /\ Cardinality(S) \in Nat /\ DOMAIN InOrder(S) = 1 .. Cardinality(S)
         /\ \A i \in 1 .. Cardinality(S) : InOrder(S)[i] = Service(S)[i].request
         /\ Ordered(InOrder(S))
<1> DEFINE N == Cardinality(S)
<1>1. /\ N \in Nat /\ DOMAIN Service(S) = 1 .. N
      /\ \A i \in 1 .. N : Service(S)[i] \in StampedRequest
      /\ \A i, j \in 1 .. N : i < j => ServedBefore(Service(S)[i], Service(S)[j])
  <2>1. N \in Nat /\ DOMAIN Service(S) = 1 .. N /\ \A i \in 1 .. N : Service(S)[i] \in StampedRequest
    BY ServiceExists, ServiceIsOnto
  <2> QED
    BY <2>1, ServiceExists DEF InService
<1>2. \A i \in 1 .. N : Service(S)[i].request \in Requests /\ InOrder(S)[i] = Service(S)[i].request
  BY <1>1 DEF InOrder, StampedRequest
<1>3. InOrder(S) \in [1 .. N -> Requests]
  BY <1>2 DEF InOrder
<1>4. InOrder(S) \in Seq(Requests)
  BY <1>1, <1>3, SeqDef
<1>5. DOMAIN InOrder(S) = 1 .. N /\ Len(InOrder(S)) = N
  BY <1>1, <1>3, <1>4, LenProperties
<1>6. Ordered(InOrder(S))
  <2> SUFFICES ASSUME NEW i \in 1 .. N, NEW j \in 1 .. N, i < j
               PROVE  ~Precedes(InOrder(S)[j], InOrder(S)[i])
    BY <1>5 DEF Ordered
  <2>1. ServedBefore(Service(S)[i], Service(S)[j])
    BY <1>1
  <2>2. \A k \in 1 .. N : Service(S)[k].request.time \in Int /\ Service(S)[k].request.prio \in Int
    BY <1>2, HeapAssumption
  <2> QED
    BY <1>2, <2>1, <2>2 DEF ServedBefore, Precedes
<1> QED
  BY <1>1, <1>2, <1>4, <1>5, <1>6

(***************************************************************************)
(* The newest event goes where Schedule puts it.                           *)
(***************************************************************************)
LEMMA PushSchedules ==
  ASSUME NEW S, Stamped(S), NEW r \in Requests, NEW n \in Nat, \A f \in S : f.sequence < n
  PROVE  LET e == [request |-> r, sequence |-> n] IN
         /\ Stamped(S \cup {e})
         /\ InOrder(S \cup {e}) = Schedule(InOrder(S), r)
<1> DEFINE e == [request |-> r, sequence |-> n]
           N == Cardinality(S)
           q == Service(S)
           k == Rank(InOrder(S), r)
<1>1. e \in StampedRequest /\ e \notin S
  BY DEF StampedRequest
<1>2. Stamped(S \cup {e})
  <2>1. IsFiniteSet(S \cup {e})
    BY FS_AddElement DEF Stamped
  <2>2. \A f \in S : f.sequence # n
    BY DEF Stamped, StampedRequest
  <2> QED
    BY <1>1, <2>1, <2>2 DEF Stamped
<1>3. /\ InOrder(S) \in Seq(Requests) /\ Len(InOrder(S)) = N /\ N \in Nat
      /\ DOMAIN InOrder(S) = 1 .. N /\ Ordered(InOrder(S))
      /\ \A i \in 1 .. N : InOrder(S)[i] = q[i].request
  BY InOrderIsQueue
<1>4. InService(q, S) /\ \A i \in 1 .. N : q[i] \in S /\ q[i] \in StampedRequest
  BY <1>3, ServiceExists, ServiceIsOnto
<1>5. k \in 0 .. N
  BY <1>3, RankType
<1>6. \A i \in 1 .. N : i <= k <=> ServedBefore(q[i], e)
  <2>1. \A i \in 1 .. N : i <= k <=> ~Precedes(r, q[i].request)
    <3>1. Timed(Requests)
      BY HeapAssumption DEF Timed
    <3> QED
      BY <1>3, <3>1, RankCuts
  <2>2. \A i \in 1 .. N : ServedBefore(q[i], e) <=> ~Precedes(r, q[i].request)
    <3> TAKE i \in 1 .. N
    <3>1. q[i].sequence < n /\ q[i].request \in Requests
      BY <1>4 DEF StampedRequest
    <3>2. /\ q[i].request.time \in Int /\ q[i].request.prio \in Int
          /\ r.time \in Int /\ r.prio \in Int
      BY <3>1, HeapAssumption
    <3> QED
      BY <3>1, <3>2 DEF ServedBefore, Precedes
  <2> HIDE DEF e, k
  <2> QED
    BY <2>1, <2>2
<1> HIDE DEF e, q, k
<1>7. InService(PutBehind(q, N, k, e), S \cup {e})
  BY <1>1, <1>2, <1>4, <1>5, <1>6, PutInService
<1>8. Service(S \cup {e}) = PutBehind(q, N, k, e)
  BY <1>2, <1>7, ServiceIs
<1>9. /\ InOrder(S \cup {e}) \in Seq(Requests) /\ Len(InOrder(S \cup {e})) = N + 1
      /\ \A i \in 1 .. N + 1 : InOrder(S \cup {e})[i] = PutBehind(q, N, k, e)[i].request
  <2>1. Cardinality(S \cup {e}) = N + 1
    BY <1>1, FS_AddElement DEF Stamped
  <2> QED
    BY <1>2, <1>8, <2>1, InOrderIsQueue
<1>10. /\ Schedule(InOrder(S), r) \in Seq(Requests) /\ Len(Schedule(InOrder(S), r)) = N + 1
       /\ \A i \in 1 .. N + 1 : Schedule(InOrder(S), r)[i] =
            IF i <= k THEN InOrder(S)[i] ELSE IF i = k + 1 THEN r ELSE InOrder(S)[i - 1]
  <2>1. /\ Schedule(InOrder(S), r) \in Seq(Requests) /\ Len(Schedule(InOrder(S), r)) = N + 1
        /\ \A i \in 1 .. N + 1 : Schedule(InOrder(S), r)[i] =
             IF i <= Rank(InOrder(S), r) THEN InOrder(S)[i]
             ELSE IF i = Rank(InOrder(S), r) + 1 THEN r ELSE InOrder(S)[i - 1]
    <3>1. InOrder(S) \in Seq(Requests) /\ Len(InOrder(S)) = N
      BY <1>3
    <3> HIDE DEF N
    <3> QED
      BY <3>1, ScheduleProperties, Zenon
  <2> QED
    BY <2>1 DEF k
<1>11. \A i \in 1 .. N + 1 : InOrder(S \cup {e})[i] = Schedule(InOrder(S), r)[i]
  <2> TAKE i \in 1 .. N + 1
  <2>1. PutBehind(q, N, k, e)[i] = IF i <= k THEN q[i] ELSE IF i = k + 1 THEN e ELSE q[i - 1]
    BY DEF PutBehind
  <2>2. i <= k => i \in 1 .. N
    BY <1>3, <1>5
  <2>3. ~(i <= k) /\ i # k + 1 => i - 1 \in 1 .. N
    BY <1>3, <1>5
  <2>4. CASE i <= k
    BY <1>3, <1>9, <1>10, <2>1, <2>2, <2>4
  <2>5. CASE i = k + 1
    <3>1. e.request = r /\ ~(i <= k)
      BY <1>5, <2>5 DEF e
    <3> QED
      BY <1>9, <1>10, <2>1, <2>5, <3>1
  <2>6. CASE ~(i <= k) /\ i # k + 1
    <3>1. InOrder(S)[i - 1] = q[i - 1].request
      BY <1>3, <2>3, <2>6
    <3> QED
      BY <1>9, <1>10, <2>1, <2>6, <3>1
  <2> QED
    BY <2>4, <2>5, <2>6
<1>12. InOrder(S \cup {e}) = Schedule(InOrder(S), r)
  BY <1>3, <1>9, <1>10, <1>11, SeqEqual
<1> QED
  BY <1>2, <1>12 DEF e

(***************************************************************************)
(* The top of the heap is the event that is served first, and without it   *)
(* the others are served in the same order.                                *)
(***************************************************************************)
LEMMA PopServes ==
  ASSUME NEW S, Stamped(S), NEW top \in S, \A f \in S : ~LaterEventFirst(top, f)
  PROVE  /\ InOrder(S) # <<>> /\ Head(InOrder(S)) = top.request
         /\ InOrder(S \ {top}) = Tail(InOrder(S))
<1> DEFINE N == Cardinality(S)
           q == Service(S)
           R == S \ {top}
           rest == [i \in 1 .. N - 1 |-> q[i + 1]]
<1>1. /\ InOrder(S) \in Seq(Requests) /\ Len(InOrder(S)) = N /\ N \in Nat
      /\ \A i \in 1 .. N : InOrder(S)[i] = q[i].request
  BY InOrderIsQueue
<1>2. /\ \A i \in 1 .. N : q[i] \in S /\ q[i] \in StampedRequest
      /\ \A f \in S : \E i \in 1 .. N : q[i] = f
      /\ \A i, j \in 1 .. N : i < j => ServedBefore(q[i], q[j])
  <2>1. /\ DOMAIN q = 1 .. N
        /\ \A i \in DOMAIN q : q[i] \in S /\ q[i] \in StampedRequest
        /\ \A f \in S : \E i \in DOMAIN q : q[i] = f
    BY ServiceExists, ServiceIsOnto
  <2> QED
    BY <2>1, ServiceExists DEF InService
<1>3. PICK t \in 1 .. N : q[t] = top
  BY <1>2
<1> HIDE DEF q
<1>4. t = 1
  <2> SUFFICES ASSUME t # 1 PROVE FALSE
    OBVIOUS
  <2>1. 1 \in 1 .. N /\ 1 < t
    BY <1>1, <1>3
  <2>2. ServedBefore(q[1], top)
    BY <1>2, <1>3, <2>1
  <2>3. ~LaterEventFirst(top, q[1])
    BY <1>2, <2>1
  <2>4. q[1] \in StampedRequest /\ top \in StampedRequest
    BY <1>2, <2>1 DEF Stamped
  <2>5. \A d \in StampedRequest :
          d.request.time \in Int /\ d.request.prio \in Int /\ d.sequence \in Int
    BY HeapAssumption DEF StampedRequest
  <2> QED
    BY <2>2, <2>3, <2>4, <2>5 DEF ServedBefore, Precedes, LaterEventFirst
<1>5. Stamped(R)
  BY StampedSubset
<1>6. Cardinality(R) = N - 1 /\ N - 1 \in Nat
  <2>1. Cardinality(R) = N - 1
    BY FS_RemoveElement DEF Stamped
  <2> QED
    BY <1>1, <1>3, <2>1
<1>7. InService(rest, R)
  <2>1. ASSUME NEW i \in 1 .. N - 1
        PROVE  i + 1 \in 1 .. N /\ q[i + 1] \in R
    <3>1. i + 1 \in 1 .. N /\ 1 \in 1 .. N /\ 1 < i + 1
      BY <1>1
    <3>2. ServedBefore(top, q[i + 1])
      BY <1>2, <1>3, <1>4, <3>1
    <3>3. q[i + 1] # top
      BY <1>2, <3>1, <3>2, ServiceIsStrict
    <3> QED
      BY <1>2, <3>1, <3>3
  <2>2. rest \in [1 .. N - 1 -> R]
    BY <2>1
  <2>3. ASSUME NEW i \in 1 .. N - 1, NEW j \in 1 .. N - 1, i < j
        PROVE  ServedBefore(rest[i], rest[j])
    BY <1>2, <2>1, <2>3
  <2> HIDE DEF R
  <2> QED
    BY <1>6, <2>2, <2>3 DEF InService
<1>8. Service(R) = rest
  BY <1>5, <1>7, ServiceIs
<1>9. /\ InOrder(R) \in Seq(Requests) /\ Len(InOrder(R)) = N - 1
      /\ \A i \in 1 .. N - 1 : InOrder(R)[i] = q[i + 1].request
  <2>1. \A i \in 1 .. N - 1 : Service(R)[i] = q[i + 1]
    BY <1>8
  <2>2. /\ InOrder(R) \in Seq(Requests) /\ Len(InOrder(R)) = Cardinality(R)
        /\ \A i \in 1 .. Cardinality(R) : InOrder(R)[i] = Service(R)[i].request
    BY <1>5, InOrderIsQueue
  <2> QED
    BY <1>6, <2>1, <2>2
<1>10. InOrder(S) # <<>> /\ Head(InOrder(S)) = top.request
  <2>1. Len(InOrder(S)) # 0 /\ 1 \in 1 .. N
    BY <1>1, <1>3
  <2>2. InOrder(S) # <<>>
    BY <2>1
  <2> QED
    BY <1>1, <1>3, <1>4, <2>1, <2>2, HeadTailProperties
<1>11. /\ Tail(InOrder(S)) \in Seq(Requests) /\ Len(Tail(InOrder(S))) = N - 1
       /\ \A i \in 1 .. N - 1 : Tail(InOrder(S))[i] = InOrder(S)[i + 1]
  BY <1>1, <1>10, HeadTailProperties
<1>12. \A i \in 1 .. N - 1 : InOrder(R)[i] = Tail(InOrder(S))[i]
  <2> TAKE i \in 1 .. N - 1
  <2>1. i + 1 \in 1 .. N
    BY <1>1
  <2> QED
    BY <1>1, <1>9, <1>11, <2>1
<1> QED
  BY <1>9, <1>10, <1>11, <1>12, SeqEqual

LEMMA EmptyInOrder ==
  ASSUME NEW S, Stamped(S)
  PROVE  InOrder(S) = <<>> <=> S = {}
<1>1. InOrder(S) \in Seq(Requests) /\ Len(InOrder(S)) = Cardinality(S)
  BY InOrderIsQueue
<1>2. InOrder(S) = <<>> <=> Len(InOrder(S)) = 0
  BY <1>1, EmptySeq
<1>3. Cardinality(S) = 0 <=> S = {}
  BY FS_EmptySet DEF Stamped
<1> QED
  BY <1>1, <1>2, <1>3

-----------------------------------------------------------------------------
(***************************************************************************)
(* The refinement.  A new event is the latest of all because the counter   *)
(* is ahead of every stamp; Clear may set it back because nothing is left. *)
(***************************************************************************)
HeapInv ==
  /\ Stamped(events) /\ nextSequence \in Nat
  /\ \A e \in events : e.sequence < nextSequence

\* The operators of EventList are those of EventQueue.
LEMMA ListSchedules ==
  ASSUME NEW q, NEW r
  PROVE  List!Schedule(q, r) = Schedule(q, r)
<1>1. \A a, b : List!Precedes(a, b) <=> Precedes(a, b)
  BY DEF List!Precedes, Precedes
<1>2. {i \in DOMAIN q : ~List!Precedes(r, q[i])} = {i \in DOMAIN q : ~Precedes(r, q[i])}
  BY <1>1
<1>3. List!Rank(q, r) = Rank(q, r)
  BY <1>2 DEF List!Rank, Rank, List!Cardinality, Cardinality
<1> QED
  BY <1>3 DEF List!Schedule, Schedule

LEMMA HeapInitially == HeapInit => HeapInv /\ List!ListInit
<1> SUFFICES ASSUME HeapInit PROVE HeapInv /\ List!ListInit
  OBVIOUS
<1>1. Stamped({})
  BY FS_EmptySet DEF Stamped
<1>2. InOrder({}) = <<>>
  BY <1>1, EmptyInOrder
<1> QED
  BY <1>1, <1>2 DEF HeapInit, HeapInv, List!ListInit

LEMMA HeapSteps ==
  ASSUME HeapInv, HeapNext
  PROVE  HeapInv' /\ List!ListNext
<1>0. Stamped(events) /\ nextSequence \in Nat
  BY DEF HeapInv
<1>1. ASSUME NEW r \in Requests, Push(r)
      PROVE  HeapInv' /\ List!ListNext
  <2>1. /\ Cardinality(events) < Capacity
        /\ events' = events \cup {[request |-> r, sequence |-> nextSequence]}
        /\ nextSequence' = nextSequence + 1 /\ returned' = returned
    BY <1>1 DEF Push
  <2>2. Stamped(events') /\ InOrder(events') = Schedule(InOrder(events), r)
    BY <1>0, <2>1, PushSchedules DEF HeapInv
  <2>3. HeapInv'
    <3>1. \A e \in events : e.sequence \in Nat
      BY <1>0 DEF Stamped, StampedRequest
    <3> QED
      BY <1>0, <2>1, <2>2, <3>1 DEF HeapInv
  <2>4. Len(InOrder(events)) = Cardinality(events)
    BY <1>0, InOrderIsQueue
  <2>5. InOrder(events)' = InOrder(events')
    BY DEF InOrder, Service, InService
  <2>6. List!Insert(r)
    BY <2>1, <2>2, <2>4, <2>5, ListSchedules DEF List!Insert
  <2> QED
    BY <2>3, <2>6 DEF List!ListNext
<1>2. ASSUME NEW top \in Tops,
             events' = events \ {top}, returned' = top.request, UNCHANGED nextSequence
      PROVE  HeapInv' /\ List!ListNext
  <2>1. top \in events /\ \A f \in events : ~LaterEventFirst(top, f)
    BY DEF Tops
  <2>2. /\ InOrder(events) # <<>> /\ Head(InOrder(events)) = top.request
        /\ InOrder(events') = Tail(InOrder(events))
    BY <1>0, <1>2, <2>1, PopServes
  <2>3. HeapInv'
    BY <1>0, <1>2, StampedSubset DEF HeapInv
  <2>4. List!Serve
    BY <1>2, <2>2 DEF List!Serve
  <2> QED
    BY <2>3, <2>4 DEF List!ListNext
<1>3. ASSUME events = {}, returned' = NoRequest, UNCHANGED <<events, nextSequence>>
      PROVE  HeapInv' /\ List!ListNext
  <2>1. HeapInv'
    BY <1>3 DEF HeapInv, Stamped
  <2>2. List!ServeNothing
    BY <1>0, <1>3, EmptyInOrder DEF List!ServeNothing
  <2> QED
    BY <2>1, <2>2 DEF List!ListNext
<1>4. ASSUME Clear
      PROVE  HeapInv' /\ List!ListNext
  <2>1. Stamped({})
    BY FS_EmptySet DEF Stamped
  <2>2. List!Forget
    BY <1>4, <2>1, EmptyInOrder DEF List!Forget, Clear
  <2> QED
    BY <1>4, <2>1, <2>2 DEF HeapInv, Clear, List!ListNext
<1> QED
  BY <1>1, <1>2, <1>3, <1>4 DEF HeapNext, PopNext

(***************************************************************************)
(* RuntimeEventQueue serves its events by time, then priority, then in the *)
(* order in which they were scheduled, across Clear as well.               *)
(***************************************************************************)
THEOREM HeapImplementsList == KernelSpec => ImplementsList
<1>1. KernelInit => HeapInv /\ List!ListInit
  BY HeapInitially DEF KernelInit
<1>2. HeapInv /\ [HeapStep \/ ValidatorStep]_kernelVars
        => HeapInv' /\ [List!ListNext]_<<InOrder(events), returned>>
  <2>1. ASSUME HeapInv, HeapStep
        PROVE  HeapInv' /\ List!ListNext
    BY <2>1, HeapSteps DEF HeapStep
  <2>2. ASSUME HeapInv, UNCHANGED heapVars
        PROVE  HeapInv' /\ UNCHANGED <<InOrder(events), returned>>
    BY <2>2 DEF HeapInv, heapVars
  <2> QED
    BY <2>1, <2>2 DEF ValidatorStep, kernelVars
<1> QED
  BY <1>1, <1>2, PTL DEF KernelSpec, ImplementsList, List!ListSpec
=============================================================================
