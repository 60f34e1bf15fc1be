------------------------- MODULE KbdFilterReadProofs -------------------------
(***************************************************************************)
(* Proofs about the reads of the keyboard filter, for any finite set of    *)
(* reads and any width of the count.                                       *)
(***************************************************************************)
EXTENDS KbdFilterRead, Integers, FiniteSetTheorems, TLAPS

(***************************************************************************)
(* Arithmetic modulo Modulus.                                              *)
(***************************************************************************)

LEMMA Division ==
  ASSUME NEW n \in Nat
  PROVE  /\ n % Modulus \in 0..(Modulus - 1)
         /\ n \div Modulus \in Int
         /\ n = Modulus * (n \div Modulus) + (n % Modulus)
<1>1. n % Modulus \in 0..(Modulus - 1) /\ n \div Modulus \in Int
  BY ModulusAssumption
<1>2. n = Modulus * (n \div Modulus) + (n % Modulus) /\ n \div Modulus \in Nat
  BY ModulusAssumption
<1> QED
  BY <1>1, <1>2

LEMMA NotAhead ==
  ASSUME NEW a \in Int, NEW b \in Int, a > b,
         NEW r \in 0..(Modulus - 1), NEW s \in 0..(Modulus - 1)
  PROVE  Modulus * a + r # Modulus * b + s
<1>1. PICK d \in Nat : a = b + 1 + d
  BY a - b - 1 \in Nat, a = b + 1 + (a - b - 1)
<1>2. Modulus * a = Modulus * b + Modulus + Modulus * d /\ Modulus * d >= 0
  BY <1>1, ModulusAssumption
<1> QED
  BY <1>2, ModulusAssumption

\* The remainder is the only one.
LEMMA Remainder ==
  ASSUME NEW n \in Nat, NEW q \in Int, NEW r \in 0..(Modulus - 1), n = Modulus * q + r
  PROVE  n % Modulus = r
<1>1. /\ n % Modulus \in 0..(Modulus - 1) /\ n \div Modulus \in Int
      /\ Modulus * (n \div Modulus) + (n % Modulus) = Modulus * q + r
  BY Division
<1> DEFINE d == n \div Modulus
           t == n % Modulus
<1>2. /\ d \in Int /\ t \in 0..(Modulus - 1) /\ Modulus * d + t = Modulus * q + r
  BY <1>1
<1> HIDE DEF d, t
<1>3. ~(q > d) /\ ~(d > q)
  BY <1>2, NotAhead
<1>4. t = r
  BY <1>2, <1>3, ModulusAssumption
<1> QED
  BY <1>4 DEF t

\* The count is n up to its width.
Counts(k, n) == \E q \in Int : n = Modulus * q + k

LEMMA CountsUp ==
  ASSUME NEW k \in Nat, NEW n \in Int, Counts(k, n)
  PROVE  Counts((k + 1) % Modulus, n + 1)
<1>1. PICK q \in Int : n = Modulus * q + k
  BY DEF Counts
<1> DEFINE d == (k + 1) \div Modulus
           r == (k + 1) % Modulus
<1>2. d \in Int /\ r \in Int /\ k + 1 = Modulus * d + r
  BY Division, k + 1 \in Nat, ModulusAssumption
<1> HIDE DEF d, r
<1>3. n + 1 = Modulus * (q + d) + r /\ q + d \in Int
  BY <1>1, <1>2, ModulusAssumption
<1> QED
  BY <1>3 DEF Counts, r

LEMMA CountsDown ==
  ASSUME NEW k \in Nat, NEW n \in Int, Counts(k, n)
  PROVE  Counts((k + Modulus - 1) % Modulus, n - 1)
<1>1. PICK q \in Int : n = Modulus * q + k
  BY DEF Counts
<1> DEFINE d == (k + Modulus - 1) \div Modulus
           r == (k + Modulus - 1) % Modulus
<1>2. d \in Int /\ r \in Int /\ k + Modulus - 1 = Modulus * d + r
  <2>1. k + Modulus - 1 \in Nat
    BY ModulusAssumption
  <2> QED
    BY <2>1, Division, ModulusAssumption
<1> HIDE DEF d, r
<1>3. n - 1 = Modulus * (q + d - 1) + r /\ q + d - 1 \in Int
  BY <1>1, <1>2, ModulusAssumption
<1> QED
  BY <1>3 DEF Counts, r

(***************************************************************************)
(* The invariant.                                                          *)
(***************************************************************************)

\* Where Reader and ReadComplete of one read may stand together, and what the
\* mark has become by then.
ReadInv(i) ==
  /\ complete[i] = "no" <=> pc[i] \in {"idle", "up", "call"}
  /\ pc[i] # "done" => returned[i] = "nothing"
  /\ pc[i] = "done" => returned[i] = IF pending[i] THEN "PENDING" ELSE "final"
  /\ complete[i] \in {"marked", "down", "done"} => (marked[i] <=> pending[i])

FilterInv ==
  /\ TypeOK
  /\ \A i \in Irp : ReadInv(i)
  /\ ~lost => Counts(pendingkey, Cardinality(Below))

LEMMA BelowIsFinite == IsFiniteSet(Below) /\ Cardinality(Below) \in Nat
<1>1. Below \subseteq Irp
  BY DEF Below
<1> QED
  BY <1>1, IrpAssumption, FS_Subset, FS_CardinalityType

LEMMA InitFilterInv == Init => FilterInv
<1> SUFFICES ASSUME Init PROVE FilterInv
  OBVIOUS
<1>1. TypeOK
  <2>1. 0 \in 0..(Modulus - 1)
    BY ModulusAssumption
  <2> QED
    BY <2>1 DEF Init, TypeOK
<1>2. \A i \in Irp : ReadInv(i)
  BY DEF Init, ReadInv
<1>3. Below = {} /\ pendingkey = 0
  BY DEF Init, Below
<1>4. Counts(0, 0)
  BY ModulusAssumption, 0 \in Int, 0 = Modulus * 0 + 0 DEF Counts
<1> QED
  BY <1>1, <1>2, <1>3, <1>4, FS_EmptySet DEF FilterInv

LEMMA CountUpStep ==
  ASSUME FilterInv, NEW i \in Irp, CountUp(i)
  PROVE  FilterInv'
<1>1. UNCHANGED <<complete, pending, returned, marked>>
  BY DEF CountUp
<1>2. CASE pc[i] = "idle" /\ pc' = [pc EXCEPT ![i] = "up"] /\ Load(i)
  <2>1. TypeOK' /\ \A k \in Irp : ReadInv(k)'
    BY <1>1, <1>2 DEF Load, FilterInv, TypeOK, ReadInv
  <2>2. Below' = Below
    BY <1>1, <1>2 DEF Below, FilterInv, TypeOK
  <2> QED
    BY <1>2, <2>1, <2>2 DEF Load, FilterInv
<1>3. CASE pc[i] = "up" /\ pc' = [pc EXCEPT ![i] = "call"] /\ Store(i, loaded[i] + 1)
  <2>1. /\ loaded' = loaded /\ pendingkey' = (loaded[i] + 1) % Modulus
        /\ ~lost' => ~lost /\ pendingkey = loaded[i]
    BY <1>3 DEF Store, FilterInv, TypeOK
  <2>2. loaded[i] \in Nat /\ loaded[i] + 1 \in Nat
    BY ModulusAssumption DEF FilterInv, TypeOK
  <2>3. TypeOK'
    BY <1>1, <1>3, <2>1, <2>2, Division DEF Store, FilterInv, TypeOK
  <2>4. \A k \in Irp : ReadInv(k)'
    BY <1>1, <1>3 DEF FilterInv, TypeOK, ReadInv
  <2>5. i \notin Below /\ Below' = Below \cup {i}
    BY <1>1, <1>3 DEF Below, FilterInv, TypeOK, ReadInv
  <2>6. Cardinality(Below') = Cardinality(Below) + 1
    BY <2>5, BelowIsFinite, FS_AddElement
  <2>7. ~lost' => Counts(pendingkey', Cardinality(Below'))
    BY <2>1, <2>2, <2>6, BelowIsFinite, CountsUp DEF FilterInv
  <2> QED
    BY <2>3, <2>4, <2>7 DEF FilterInv
<1> QED
  BY <1>2, <1>3 DEF CountUp

\* A step that touches no count leaves the reads below as they are.
LEMMA CallDriverStep ==
  ASSUME FilterInv, NEW i \in Irp, CallDriver(i)
  PROVE  FilterInv'
<1>1. PICK mark \in BOOLEAN : pending' = [pending EXCEPT ![i] = mark]
  BY DEF CallDriver
<1>2. TypeOK' /\ \A k \in Irp : ReadInv(k)'
  BY <1>1 DEF CallDriver, FilterInv, TypeOK, ReadInv
<1>3. Below' = Below
  BY DEF CallDriver, Below, FilterInv, TypeOK, ReadInv
<1> QED
  BY <1>2, <1>3 DEF CallDriver, FilterInv

LEMMA ReturnStep ==
  ASSUME FilterInv, NEW i \in Irp, Return(i)
  PROVE  FilterInv'
<1>1. TypeOK' /\ \A k \in Irp : ReadInv(k)'
  BY DEF Return, FilterInv, TypeOK, ReadInv
<1>2. Below' = Below
  BY DEF Return, Below, FilterInv, TypeOK
<1> QED
  BY <1>1, <1>2 DEF Return, FilterInv

LEMMA ReadCompleteStep ==
  ASSUME FilterInv, NEW i \in Irp, ReadComplete(i)
  PROVE  FilterInv'
<1>1. TypeOK' /\ \A k \in Irp : ReadInv(k)'
  BY DEF ReadComplete, FilterInv, TypeOK, ReadInv
<1>2. Below' = Below
  BY DEF ReadComplete, Below, FilterInv, TypeOK
<1> QED
  BY <1>1, <1>2 DEF ReadComplete, FilterInv

LEMMA CountDownStep ==
  ASSUME FilterInv, NEW i \in Irp, CountDown(i)
  PROVE  FilterInv'
<1>1. UNCHANGED <<pc, pending, returned, marked>>
  BY DEF CountDown
<1>2. CASE complete[i] = "marked" /\ Load(i) /\ complete' = [complete EXCEPT ![i] = "down"]
  <2>1. TypeOK' /\ \A k \in Irp : ReadInv(k)'
    BY <1>1, <1>2 DEF Load, FilterInv, TypeOK, ReadInv
  <2>2. Below' = Below
    BY <1>1, <1>2 DEF Below, FilterInv, TypeOK
  <2> QED
    BY <1>2, <2>1, <2>2 DEF Load, FilterInv
<1>3. CASE /\ complete[i] = "down" /\ Store(i, loaded[i] + Modulus - 1)
           /\ complete' = [complete EXCEPT ![i] = "done"]
  <2>1. /\ loaded' = loaded /\ pendingkey' = (loaded[i] + Modulus - 1) % Modulus
        /\ ~lost' => ~lost /\ pendingkey = loaded[i]
    BY <1>3 DEF Store, FilterInv, TypeOK
  <2>2. loaded[i] \in Nat /\ loaded[i] + Modulus - 1 \in Nat
    BY ModulusAssumption DEF FilterInv, TypeOK
  <2>3. TypeOK'
    BY <1>1, <1>3, <2>1, <2>2, Division DEF Store, FilterInv, TypeOK
  <2>4. \A k \in Irp : ReadInv(k)'
    BY <1>1, <1>3 DEF FilterInv, TypeOK, ReadInv
  <2>5. i \in Below /\ Below' = Below \ {i}
    BY <1>1, <1>3 DEF Below, FilterInv, TypeOK, ReadInv
  <2>6. Cardinality(Below') = Cardinality(Below) - 1
    BY <2>5, BelowIsFinite, FS_RemoveElement
  <2>7. ~lost' => Counts(pendingkey', Cardinality(Below'))
    BY <2>1, <2>2, <2>6, BelowIsFinite, CountsDown DEF FilterInv
  <2> QED
    BY <2>3, <2>4, <2>7 DEF FilterInv
<1> QED
  BY <1>2, <1>3 DEF CountDown

LEMMA Invariance == Spec => []FilterInv
<1>1. FilterInv /\ UNCHANGED vars => FilterInv'
  BY DEF vars, FilterInv, TypeOK, ReadInv, Below
<1>2. FilterInv /\ [Next]_vars => FilterInv'
  BY <1>1, CountUpStep, CallDriverStep, ReturnStep, ReadCompleteStep, CountDownStep
  DEF Next, Step
<1> QED
  BY InitFilterInv, <1>2, PTL DEF Spec

(***************************************************************************)
(* The theorems.                                                           *)
(***************************************************************************)

\* Type correctness of the filter's read (DispatchRoutine.cpp:73-119).
THEOREM TypeCorrect == Spec => []TypeOK
<1>1. FilterInv => TypeOK
  BY DEF FilterInv
<1> QED
  BY <1>1, Invariance, PTL

\* pendingkey counts the reads below unless two of its changes overlapped
\* (DispatchRoutine.cpp:89 and 114), also after it wrapped around.
THEOREM CountIsKept == Spec => []CountsReads
<1>1. FilterInv => CountsReads
  <2> SUFFICES ASSUME FilterInv, ~lost
               PROVE  pendingkey = Cardinality(Below) % Modulus
    BY DEF CountsReads
  <2>1. PICK q \in Int : Cardinality(Below) = Modulus * q + pendingkey
    BY DEF FilterInv, Counts
  <2> QED
    BY <2>1, BelowIsFinite, Remainder DEF FilterInv, TypeOK
<1> QED
  BY <1>1, Invariance, PTL

\* The status Reader returned agrees with the mark of the completed read,
\* whichever of the two came first (DispatchRoutine.cpp:86 and 115).
THEOREM PendingIsAgreed == Spec => []PendingAgrees
<1>1. FilterInv => PendingAgrees
  <2> SUFFICES ASSUME FilterInv, NEW i \in Irp, returned[i] # "nothing",
                      complete[i] = "done"
               PROVE  marked[i] <=> returned[i] = "PENDING"
    BY DEF PendingAgrees
  <2>1. ReadInv(i)
    BY DEF FilterInv
  <2> QED
    BY <2>1 DEF ReadInv
<1> QED
  BY <1>1, Invariance, PTL
=============================================================================
