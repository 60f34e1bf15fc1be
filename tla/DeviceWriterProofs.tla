------------------------- MODULE DeviceWriterProofs -------------------------
(***************************************************************************)
(* Proofs about concurrent writes, for any IRPs, buffer size and modulus.  *)
(***************************************************************************)
EXTENDS DeviceWriter, TLAPS

LEMMA ModulusFacts ==
  /\ Modulus \in Nat \ {0}
  /\ \A n \in Nat : ULong(n) \in 0..(Modulus - 1)
  /\ \A n \in Nat : n < Modulus => ULong(n) = n
BY SizeAssumption DEF ULong

(***************************************************************************)
(* The inductive invariant.                                                *)
(***************************************************************************)

Accepted(i) == pc[i] \in {"copy", "wild", "test", "raise", "complete", "done"}
Copied(i) == pc[i] \in {"test", "raise", "complete", "done"}
Past(i) == pc[i] \in {"complete", "done"}

\* The test of the sum was passed; a copy that stayed in the buffer did so
\* without a wrapped sum.
InBuffer ==
  \A i \in Irp :
    /\ Accepted(i) => End(i) <= Capacity
    /\ Copied(i) => offset[i] + length[i] <= Capacity
    /\ Wild(i) => offset[i] + length[i] > Capacity
    /\ pc[i] = "done" => information[i] = length[i]

\* A write that met no other one is covered, and each write that is about to
\* raise file_length goes beyond it.
Covered ==
  \A i \in Irp \ raced :
    Past(i) =>
      /\ End(i) <= file_length
      /\ \A k \in Irp : pc[k] = "raise" => End(k) > End(i)

\* Unless it is zero, file_length is the end of a write.
Source == file_length = 0 \/ \E k \in Irp : Past(k) /\ End(k) = file_length

Inv == TypeOK /\ InBuffer /\ Covered /\ Source

LEMMA EndType ==
  ASSUME TypeOK, NEW i \in Irp
  PROVE  /\ offset[i] \in Nat /\ length[i] \in Nat /\ End(i) \in 0..(Modulus - 1)
         /\ offset[i] + length[i] < Modulus => End(i) = offset[i] + length[i]
<1>1. offset[i] \in Nat /\ length[i] \in Nat
  BY ModulusFacts DEF TypeOK
<1> QED
  BY <1>1, ModulusFacts DEF End

LEMMA InitInv == Init => Inv
<1> SUFFICES ASSUME Init PROVE Inv
  OBVIOUS
<1>1. 0 \in 0..(Modulus - 1) /\ 0 \in 0..Capacity
  BY SizeAssumption, ModulusFacts
<1>2. TypeOK
  BY <1>1 DEF Init, TypeOK
<1> QED
  BY <1>2 DEF Init, Inv, InBuffer, Covered, Source, Accepted, Copied, Past, Wild

(***************************************************************************)
(* One lemma for each action.                                              *)
(***************************************************************************)

LEMMA EnterInv == ASSUME Inv, NEW i \in Irp, Enter(i) PROVE Inv'
<1>a. TypeOK /\ InBuffer /\ Covered /\ Source /\ pc[i] = "idle"
  BY DEF Inv, Enter
<1>1. PICK quad \in 0..MaxOffset, l \in 0..(Modulus - 1) :
        /\ offset' = [offset EXCEPT ![i] = ULong(quad)]
        /\ length' = [length EXCEPT ![i] = l]
        /\ IF ULong(ULong(quad) + l) > Capacity
             THEN GoTo(i, "failed") ELSE GoTo(i, "copy")
  BY DEF Enter
<1>2. UNCHANGED <<file_length, information, raced>>
  BY DEF Enter
<1>3. ULong(quad) \in 0..(Modulus - 1)
  BY ModulusFacts, SizeAssumption
<1>4. \/ pc' = [pc EXCEPT ![i] = "failed"]
      \/ pc' = [pc EXCEPT ![i] = "copy"] /\ ULong(ULong(quad) + l) <= Capacity
  <2>1. ULong(ULong(quad) + l) \in 0..(Modulus - 1)
    BY <1>3, ModulusFacts
  <2> QED
    BY <1>1, <2>1, SizeAssumption DEF GoTo
<1>5. TypeOK'
  BY <1>a, <1>1, <1>2, <1>3, <1>4 DEF TypeOK
<1>6. End(i)' = ULong(ULong(quad) + l)
  BY <1>a, <1>1 DEF TypeOK, End, ULong
<1>7. ASSUME NEW k \in Irp, k # i
      PROVE  /\ pc'[k] = pc[k] /\ offset'[k] = offset[k] /\ length'[k] = length[k]
             /\ End(k)' = End(k)
  BY <1>a, <1>1, <1>4, <1>7 DEF TypeOK, End, ULong
<1>8. pc'[i] = "failed" \/ (pc'[i] = "copy" /\ End(i)' <= Capacity)
  BY <1>a, <1>4, <1>6 DEF TypeOK
<1>9. InBuffer'
  BY <1>a, <1>2, <1>7, <1>8 DEF InBuffer, Accepted, Copied, Wild
<1>10. Covered'
  BY <1>a, <1>2, <1>7, <1>8 DEF Covered, Past
<1>11. Source'
  BY <1>a, <1>2, <1>7 DEF Source, Past
<1> QED
  BY <1>5, <1>9, <1>10, <1>11 DEF Inv

\* What the steps after Enter leave alone.
LEMMA Frame ==
  ASSUME TypeOK, UNCHANGED request
  PROVE  \A k \in Irp : End(k)' = End(k) /\ offset'[k] = offset[k] /\ length'[k] = length[k]
BY DEF request, End, ULong

LEMMA CopyInv == ASSUME Inv, NEW i \in Irp, Copy(i) PROVE Inv'
<1>a. /\ TypeOK /\ InBuffer /\ Covered /\ Source
      /\ pc[i] = "copy"
      /\ UNCHANGED <<request, file_length, information, raced>>
  BY DEF Inv, Copy
<1>1. \/ pc' = [pc EXCEPT ![i] = "wild"] /\ offset[i] + length[i] > Capacity
      \/ pc' = [pc EXCEPT ![i] = "test"] /\ offset[i] + length[i] <= Capacity
  <2>1. offset[i] + length[i] > Capacity \/ offset[i] + length[i] <= Capacity
    BY <1>a, EndType, SizeAssumption
  <2>2. offset[i] + length[i] <= Capacity => ~(offset[i] + length[i] > Capacity)
    BY <1>a, EndType, SizeAssumption
  <2>3. pc' = [pc EXCEPT ![i] = IF offset[i] + length[i] > Capacity
                                  THEN "wild" ELSE "test"]
    BY DEF Copy, GoTo
  <2> QED
    BY <2>1, <2>2, <2>3
<1>2. TypeOK'
  BY <1>a, <1>1 DEF TypeOK, request
<1>3. InBuffer'
  BY <1>a, <1>1, Frame DEF TypeOK, InBuffer, Accepted, Copied, Wild
<1>4. Covered'
  BY <1>a, <1>1, Frame DEF TypeOK, Covered, Past
<1>5. Source'
  BY <1>a, <1>1, Frame DEF TypeOK, Source, Past
<1> QED
  BY <1>2, <1>3, <1>4, <1>5 DEF Inv

LEMMA Meets ==
  ASSUME NEW i \in Irp, MeetOthers(i), TypeOK
  PROVE  /\ raced \subseteq raced' /\ raced' \subseteq raced \cup {i}
         /\ raced' \in SUBSET Irp
         /\ i \notin raced' => \A k \in Irp \ {i} : pc[k] # "raise"
BY DEF MeetOthers, Between, TypeOK

LEMMA TestInv == ASSUME Inv, NEW i \in Irp, Test(i) PROVE Inv'
<1>a. /\ TypeOK /\ InBuffer /\ Covered /\ Source
      /\ pc[i] = "test" /\ MeetOthers(i)
      /\ UNCHANGED <<request, file_length, information>>
  BY DEF Inv, Test
<1>1. \/ pc' = [pc EXCEPT ![i] = "raise"] /\ End(i) > file_length
      \/ pc' = [pc EXCEPT ![i] = "complete"] /\ End(i) <= file_length
  <2>1. End(i) \in Nat /\ file_length \in Nat
    BY <1>a, EndType, ModulusFacts, SizeAssumption DEF TypeOK
  <2>2. End(i) > file_length \/ End(i) <= file_length
    BY <2>1
  <2>3. End(i) <= file_length => ~(End(i) > file_length)
    BY <2>1
  <2>4. pc' = [pc EXCEPT ![i] = IF End(i) > file_length THEN "raise" ELSE "complete"]
    BY DEF Test, GoTo
  <2> QED
    BY <2>2, <2>3, <2>4
<1>2. TypeOK'
  BY <1>a, <1>1, Meets DEF TypeOK, request
<1>3. InBuffer'
  BY <1>a, <1>1, Frame DEF TypeOK, InBuffer, Accepted, Copied, Wild
<1>4. Covered'
  <2> SUFFICES ASSUME NEW j \in Irp, j \notin raced', Past(j)'
               PROVE  /\ End(j) <= file_length
                      /\ \A k \in Irp : pc'[k] = "raise" => End(k) > End(j)
    BY <1>a, Frame DEF Covered
  <2>1. CASE j = i
    <3>1. pc' = [pc EXCEPT ![i] = "complete"] /\ End(i) <= file_length
      BY <1>a, <1>1, <2>1 DEF Past, TypeOK
    <3> QED
      BY <1>a, <2>1, <3>1, Meets DEF TypeOK
  <2>2. CASE j # i
    <3>1. Past(j) /\ j \notin raced
      BY <1>a, <1>1, <2>2, Meets DEF Past, TypeOK
    <3>2. /\ End(j) <= file_length
          /\ \A k \in Irp : pc[k] = "raise" => End(k) > End(j)
      BY <1>a, <3>1 DEF Covered
    <3>3. pc'[i] = "raise" => End(i) > End(j)
      <4>1. End(i) \in Nat /\ End(j) \in Nat /\ file_length \in Nat
        BY <1>a, EndType, SizeAssumption, ModulusFacts DEF TypeOK
      <4> QED
        BY <1>a, <1>1, <3>2, <4>1 DEF TypeOK
    <3> QED
      BY <1>a, <1>1, <3>2, <3>3 DEF TypeOK
  <2> QED
    BY <2>1, <2>2
<1>5. Source'
  BY <1>a, <1>1, Frame DEF TypeOK, Source, Past
<1> QED
  BY <1>2, <1>3, <1>4, <1>5 DEF Inv

LEMMA RaiseInv == ASSUME Inv, NEW i \in Irp, Raise(i) PROVE Inv'
<1>a. /\ TypeOK /\ InBuffer /\ Covered /\ Source
      /\ pc[i] = "raise" /\ MeetOthers(i)
      /\ file_length' = End(i)
      /\ pc' = [pc EXCEPT ![i] = "complete"]
      /\ UNCHANGED <<request, information>>
  BY DEF Inv, Raise, GoTo
<1>b. End(i) \in 0..Capacity
  <2>1. End(i) <= Capacity /\ End(i) \in 0..(Modulus - 1)
    BY <1>a, EndType DEF InBuffer, Accepted
  <2> QED
    BY <2>1, SizeAssumption
<1>2. TypeOK'
  BY <1>a, <1>b, Meets DEF TypeOK, request
<1>3. InBuffer'
  BY <1>a, Frame DEF TypeOK, InBuffer, Accepted, Copied, Wild
<1>4. Covered'
  <2> SUFFICES ASSUME NEW j \in Irp, j \notin raced', Past(j)'
               PROVE  /\ End(j) <= End(i)
                      /\ \A k \in Irp : pc'[k] = "raise" => End(k) > End(j)
    BY <1>a, Frame DEF Covered
  <2>0. End(i) \in Nat /\ End(j) \in Nat
    BY <1>a, EndType, ModulusFacts
  <2>1. CASE j = i
    BY <1>a, <2>0, <2>1, Meets DEF TypeOK
  <2>2. CASE j # i
    <3>1. Past(j) /\ j \notin raced
      BY <1>a, <2>2, Meets DEF Past, TypeOK
    <3>2. \A k \in Irp : pc[k] = "raise" => End(k) > End(j)
      BY <1>a, <3>1 DEF Covered
    <3> QED
      BY <1>a, <2>0, <3>2 DEF TypeOK
  <2> QED
    BY <2>1, <2>2
<1>5. Source'
  BY <1>a, Frame DEF TypeOK, Source, Past
<1> QED
  BY <1>2, <1>3, <1>4, <1>5 DEF Inv

LEMMA CompleteInv == ASSUME Inv, NEW i \in Irp, Complete(i) PROVE Inv'
<1>a. /\ TypeOK /\ InBuffer /\ Covered /\ Source
      /\ UNCHANGED <<request, file_length, raced>>
  BY DEF Inv, Complete
<1>1. \/ /\ pc[i] = "complete" /\ pc' = [pc EXCEPT ![i] = "done"]
         /\ information' = [information EXCEPT ![i] = length[i]]
      \/ /\ pc[i] = "failed" /\ pc' = [pc EXCEPT ![i] = "rejected"]
         /\ information' = [information EXCEPT ![i] = 0]
  BY DEF Complete, GoTo
<1>2. TypeOK'
  <2>1. 0 \in 0..(Modulus - 1) /\ length[i] \in 0..(Modulus - 1)
    BY <1>a, ModulusFacts DEF TypeOK
  <2> QED
    BY <1>a, <1>1, <2>1 DEF TypeOK, request
<1>3. InBuffer'
  BY <1>a, <1>1, Frame DEF TypeOK, InBuffer, Accepted, Copied, Wild
<1>4. Covered'
  BY <1>a, <1>1, Frame DEF TypeOK, Covered, Past
<1>5. Source'
  BY <1>a, <1>1, Frame DEF TypeOK, Source, Past
<1> QED
  BY <1>2, <1>3, <1>4, <1>5 DEF Inv

LEMMA NextInv == Inv /\ [Next]_vars => Inv'
<1> SUFFICES ASSUME Inv, [Next]_vars PROVE Inv'
  OBVIOUS
<1>1. CASE UNCHANGED vars
  BY <1>1, Frame DEF vars, request, Inv, TypeOK, InBuffer, Covered, Source,
     Accepted, Copied, Past, Wild
<1>2. CASE Next
  BY <1>2, EnterInv, CopyInv, TestInv, RaiseInv, CompleteInv DEF Next, Step
<1> QED
  BY <1>1, <1>2

\* The invariant holds of every reachable state.
THEOREM Invariance == Spec => []Inv
<1> QED
  BY InitInv, NextInv, PTL DEF Spec

\* Every variable of Writer stays in its type; file_length never exceeds the
\* buffer.
THEOREM TypeCorrect == Spec => []TypeOK
<1>1. Inv => TypeOK
  BY DEF Inv
<1> QED
  BY Invariance, <1>1, PTL

\* The test of DispatchRoutine.cpp:134 is enough for every request whose
\* offset and length do not add up to the modulus.
THEOREM WildWraps == Spec => []WildOnlyIfWrapped
<1>1. Inv => WildOnlyIfWrapped
  <2> SUFFICES ASSUME Inv, NEW i \in Irp, Wild(i)
               PROVE  offset[i] + length[i] >= Modulus
    BY DEF WildOnlyIfWrapped
  <2>1. End(i) <= Capacity /\ offset[i] + length[i] > Capacity /\ TypeOK
    BY DEF Inv, InBuffer, Accepted, Wild
  <2> QED
    BY <2>1, EndType, SizeAssumption, ModulusFacts
<1> QED
  BY Invariance, <1>1, PTL

\* A write that met no other one between its test and its assignment stays
\* covered by file_length for ever (DispatchRoutine.cpp:150-153).
THEOREM UnracedIsCovered == Spec => []FinishedCovered
<1>1. Inv => FinishedCovered
  <2> SUFFICES ASSUME Inv, NEW i \in Irp, i \notin raced, pc[i] = "done"
               PROVE  offset[i] + information[i] <= file_length
    BY DEF FinishedCovered
  <2>1. /\ information[i] = length[i] /\ offset[i] + length[i] <= Capacity
        /\ End(i) <= file_length /\ TypeOK
    BY DEF Inv, InBuffer, Covered, Copied, Past
  <2> QED
    BY <2>1, EndType, SizeAssumption
<1> QED
  BY Invariance, <1>1, PTL

(***************************************************************************)
(* How file_length goes down.                                              *)
(***************************************************************************)

LEMMA Shrinks ==
  ASSUME Inv, [Next]_vars, file_length' < file_length
  PROVE  \E k \in raced : pc[k] \in {"complete", "done"} /\ End(k) = file_length
<1>a. TypeOK /\ Covered /\ Source /\ file_length \in Nat
  BY SizeAssumption DEF Inv, TypeOK
<1>1. PICK i \in Irp : Raise(i)
  <2>1. ~(UNCHANGED file_length)
    BY <1>a
  <2> QED
    BY <2>1 DEF Next, Step, Enter, Copy, Test, Complete, vars
<1>2. file_length' = End(i) /\ pc[i] = "raise" /\ End(i) \in Nat
  BY <1>a, <1>1, EndType, ModulusFacts DEF Raise
<1>3. PICK k \in Irp : Past(k) /\ End(k) = file_length
  BY <1>a, <1>2 DEF Source
<1>4. ~(End(i) > End(k))
  BY <1>a, <1>2, <1>3
<1>5. k \in raced
  BY <1>a, <1>2, <1>3, <1>4 DEF Covered
<1> QED
  BY <1>3, <1>5 DEF Past

\* Only a race takes file_length back: the end that is lost is that of a
\* write which raced, too (DispatchRoutine.cpp:152).
THEOREM OnlyRaceShrinks == Spec => ShrinksOnlyByRace
<1>1. Inv /\ [Next]_vars =>
        [file_length' < file_length =>
           \E k \in raced :
             pc[k] \in {"complete", "done"} /\ End(k) = file_length]_vars
  BY Shrinks
<1> QED
  BY Invariance, <1>1, PTL DEF Spec, ShrinksOnlyByRace
=============================================================================
