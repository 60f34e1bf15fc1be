--------------------------- MODULE ReadPathProofs ---------------------------
(***************************************************************************)
(* Proofs about the read path, for any set of IRPs and any choice of those *)
(* that may be cancelled.  First the queued read alone (module ReadQueue), *)
(* then Reader as a whole (module ReadPath), for any reads of any          *)
(* processes: the shared handle does no harm to a call that meets no other *)
(* one, and what holds of the queued read holds in the composition.        *)
(***************************************************************************)
EXTENDS ReadPath, SequenceTheorems, TLAPS

(***************************************************************************)
(* The device queue as a sequence.                                         *)
(***************************************************************************)

NoDuplicates(s) == \A j, k \in 1..Len(s) : s[j] = s[k] => j = k

\* Removing an IRP from a queue in which none waits twice: those behind it
\* move up.
LEMMA RemoveFirstShape ==
  ASSUME NEW S, NEW s \in Seq(S), NEW e, NoDuplicates(s), NEW i \in 1..Len(s), s[i] = e
  PROVE  /\ RemoveFirst(s, e) \in Seq(S)
         /\ Len(RemoveFirst(s, e)) = Len(s) - 1
         /\ \A k \in 1..(Len(s) - 1) :
              RemoveFirst(s, e)[k] = IF k < i THEN s[k] ELSE s[k + 1]
<1>0. Len(s) \in Nat
  BY LenProperties
<1>2. {j \in 1..Len(s) : s[j] = e} = {i}
  BY DEF NoDuplicates
<1>3. Min({i}) = i
  BY <1>0 DEF Min
<1>4. SelectInSeq(s, LAMBDA v : v = e) = i
  BY <1>2, <1>3 DEF SelectInSeq
<1>5. RemoveFirst(s, e) = SubSeq(s, 1, i-1) \o SubSeq(s, i+1, Len(s))
  BY <1>4 DEF RemoveFirst, RemoveAt
<1> DEFINE a == SubSeq(s, 1, i-1)
           b == SubSeq(s, i+1, Len(s))
<1>6. /\ a \in Seq(S) /\ Len(a) = i - 1
      /\ \A k \in 1..(i-1) : a[k] = s[k]
  <2>1. \A k \in 1..(i-1) : s[k] \in S
    BY <1>0, ElementOfSeq
  <2> QED
    BY <1>0, <2>1, SubSeqProperties
<1>7. /\ b \in Seq(S) /\ Len(b) = Len(s) - i
      /\ \A k \in 1..(Len(s) - i) : b[k] = s[i + k]
  <2>1. \A k \in (i+1)..Len(s) : s[k] \in S
    BY <1>0, ElementOfSeq
  <2> QED
    BY <1>0, <2>1, SubSeqProperties
<1> DEFINE r == a \o b
<1>8. /\ r \in Seq(S) /\ Len(r) = Len(s) - 1
      /\ \A k \in 1..(Len(s) - 1) : r[k] = IF k < i THEN s[k] ELSE s[k + 1]
  <2>1. /\ r \in Seq(S) /\ Len(r) = Len(a) + Len(b)
        /\ \A k \in 1..(Len(a) + Len(b)) :
             r[k] = IF k <= Len(a) THEN a[k] ELSE b[k - Len(a)]
    BY <1>6, <1>7, ConcatProperties
  <2> HIDE DEF a, b, r
  <2>2. i \in Int /\ Len(a) + Len(b) = Len(s) - 1
    BY <1>0, <1>6, <1>7
  <2>3. ASSUME NEW k \in 1..(Len(s) - 1)
        PROVE  r[k] = IF k < i THEN s[k] ELSE s[k + 1]
    <3>1. CASE k < i
      BY <1>0, <1>6, <2>1, <2>2, <3>1
    <3>2. CASE ~(k < i)
      <4>1. k - (i - 1) \in 1..(Len(s) - i) /\ i + (k - (i - 1)) = k + 1
        BY <1>0, <2>2, <3>2
      <4>2. r[k] = b[k - Len(a)]
        BY <1>0, <1>6, <2>1, <2>2, <3>2
      <4>3. r[k] = b[k - (i - 1)]
        BY <1>6, <4>2
      <4>4. b[k - (i - 1)] = s[i + (k - (i - 1))]
        BY <1>7, <4>1
      <4> QED
        BY <3>2, <4>1, <4>3, <4>4
    <3> QED
      BY <3>1, <3>2
  <2> QED
    BY <2>1, <2>2, <2>3
<1>9. RemoveFirst(s, e) = r
  BY <1>5
<1> QED
  BY <1>8, <1>9

\* It is gone afterwards, and the others have stayed.
LEMMA RemoveFirstProperties ==
  ASSUME NEW S, NEW s \in Seq(S), NEW e, NoDuplicates(s)
  PROVE  /\ RemoveFirst(s, e) \in Seq(S)
         /\ \A k \in 1..Len(RemoveFirst(s, e)) :
              /\ RemoveFirst(s, e)[k] # e
              /\ \E j \in 1..Len(s) : RemoveFirst(s, e)[k] = s[j]
         /\ NoDuplicates(RemoveFirst(s, e))
         /\ s = <<>> => RemoveFirst(s, e) = <<>>
<1>0. Len(s) \in Nat
  BY LenProperties
<1>1. ASSUME NEW i \in 1..Len(s), s[i] = e
      PROVE  /\ RemoveFirst(s, e) \in Seq(S)
             /\ \A k \in 1..Len(RemoveFirst(s, e)) :
                  /\ RemoveFirst(s, e)[k] # e
                  /\ \E j \in 1..Len(s) : RemoveFirst(s, e)[k] = s[j]
             /\ NoDuplicates(RemoveFirst(s, e))
             /\ s = <<>> => RemoveFirst(s, e) = <<>>
  <2> DEFINE r == RemoveFirst(s, e)
  <2>1. /\ r \in Seq(S) /\ Len(r) = Len(s) - 1
        /\ \A k \in 1..(Len(s) - 1) : r[k] = IF k < i THEN s[k] ELSE s[k + 1]
    BY <1>1, RemoveFirstShape
  <2>2. s # <<>>
    BY <1>1
  <2> HIDE DEF r
  <2>3. /\ r \in Seq(S)
        /\ \A k \in 1..Len(r) : r[k] # e /\ \E j \in 1..Len(s) : r[k] = s[j]
        /\ NoDuplicates(r)
    <3>1. \A k \in 1..Len(r) : r[k] # e /\ \E j \in 1..Len(s) : r[k] = s[j]
      <4>1. \A j \in 1..Len(s) : s[j] = e => j = i
        BY <1>1 DEF NoDuplicates
      <4> QED
        BY <1>0, <1>1, <2>1, <4>1
    <3>2. NoDuplicates(r)
      BY <1>0, <1>1, <2>1 DEF NoDuplicates
    <3> QED
      BY <2>1, <3>1, <3>2
  <2> QED
    BY <2>2, <2>3 DEF r
<1>2. CASE ~ \E i \in 1..Len(s) : s[i] = e
  BY <1>2 DEF RemoveFirst
<1> QED
  BY <1>1, <1>2

LEMMA RemoveFirstKeeps ==
  ASSUME NEW S, NEW s \in Seq(S), NEW e, NoDuplicates(s),
         NEW j \in 1..Len(s), s[j] # e
  PROVE  \E k \in 1..Len(RemoveFirst(s, e)) : RemoveFirst(s, e)[k] = s[j]
<1>0. Len(s) \in Nat
  BY LenProperties
<1> DEFINE r == RemoveFirst(s, e)
<1>1. ASSUME NEW i \in 1..Len(s), s[i] = e
      PROVE  \E k \in 1..Len(r) : r[k] = s[j]
  <2>1. /\ Len(r) = Len(s) - 1
        /\ \A k \in 1..(Len(s) - 1) : r[k] = IF k < i THEN s[k] ELSE s[k + 1]
    BY <1>1, RemoveFirstShape
  <2> HIDE DEF r
  <2>2. CASE j < i
    <3>1. j \in 1..(Len(s) - 1) /\ r[j] = s[j]
      BY <1>0, <1>1, <2>1, <2>2
    <3> QED
      BY <2>1, <3>1
  <2>3. CASE j > i
    <3>1. j - 1 \in 1..(Len(s) - 1) /\ ~(j - 1 < i) /\ (j - 1) + 1 = j
      BY <1>0, <1>1, <2>3
    <3>2. r[j - 1] = s[j]
      BY <2>1, <3>1
    <3> QED
      BY <2>1, <3>1, <3>2
  <2> QED
    BY <1>1, <2>2, <2>3
<1>2. CASE ~ \E i \in 1..Len(s) : s[i] = e
  BY <1>2 DEF RemoveFirst
<1> QED
  BY <1>1, <1>2

LEMMA AppendQueue ==
  ASSUME NEW S, NEW s \in Seq(S), NEW e \in S
  PROVE  /\ Append(s, e) \in Seq(S)
         /\ Len(Append(s, e)) = Len(s) + 1
         /\ \A k \in 1..Len(s) : Append(s, e)[k] = s[k]
         /\ Append(s, e)[Len(s) + 1] = e
         /\ Len(s) \in Nat
  OBVIOUS

LEMMA TakeHead ==
  ASSUME NEW S, NEW s \in Seq(S), s # <<>>
  PROVE  /\ Head(s) \in S
         /\ Head(s) = s[1]
         /\ Tail(s) \in Seq(S)
         /\ Len(s) \in Nat \ {0}
         /\ Len(Tail(s)) = Len(s) - 1
         /\ \A k \in 1..Len(Tail(s)) : Tail(s)[k] = s[k + 1]
  BY HeadTailProperties, EmptySeq

\* The two threads of an IRP.
LEMMA ThreadFacts ==
  /\ \A i \in Irp : Issuer(i) \in Thread /\ Canceller(i) \in Thread
  /\ \A i, k \in Irp : Issuer(i) # Canceller(k)
  /\ \A i, k \in Irp : Issuer(i) = Issuer(k) => i = k
  /\ \A i, k \in Irp : Canceller(i) = Canceller(k) => i = k
  /\ \A t \in Thread : t[1] \in Irp /\ (t = Issuer(t[1]) \/ t = Canceller(t[1]))
  /\ \A t \in Thread : AfterQueue(t) \in {"done", "complete"}
  /\ \A i \in Irp : AfterQueue(Issuer(i)) = "done"
  /\ \A i \in Irp : AfterQueue(Canceller(i)) = "complete"
BY DEF Thread, Role, Issuer, Canceller, AfterQueue

(***************************************************************************)
(* Type correctness, together with the fact it rests on: no IRP waits      *)
(* twice, for an IRP that is appended was not in the queue.                *)
(***************************************************************************)

\* StartIo is running for i on some thread.
Running(i) == \E t \in Thread : InStartIo(t) /\ cur[t] = i

\* Where an IRP is: not yet or no longer in the queue before IoStartPacket or
\* after it rejected the IRP, never in two places at a time.
PlaceInv ==
  /\ NoDuplicates(queue)
  /\ \A i \in Irp :
       /\ pc[Issuer(i)] \in {"idle", "called", "marked", "complete"} =>
            ~Queued(i) /\ ~Running(i) /\ i # CurrentIrp
       /\ Queued(i) => ~Running(i) /\ i # CurrentIrp
  /\ \A t \in Thread : InStartIo(t) => cur[t] \in Irp
  /\ \A t, u \in Thread : InStartIo(t) /\ InStartIo(u) /\ cur[t] = cur[u] => t = u

\* An IRP nobody cancelled is pending until StartIo completes it.
UncancelledInv ==
  \A i \in Irp : ~cancel[i] =>
    /\ pc[Canceller(i)] = "idle"
    /\ pc[Issuer(i)] # "complete"
    /\ i \notin twice
    /\ status[i] # "PENDING" =>
         /\ pc[Issuer(i)] \notin {"idle", "called", "marked"}
         /\ ~Queued(i)
         /\ ~Running(i)

\* A pending IRP whose cancel routine StartIo removed is being worked on,
\* and no cancel routine will touch it.
ClaimedInv ==
  \A i \in claimed : status[i] = "PENDING" =>
    /\ routine[i] = "none"
    /\ pc[Canceller(i)] \in {"idle", "done"}
    /\ \E t \in Thread : pc[t] = "work" /\ cur[t] = i

\* A pending IRP that has been through IoStartPacket can be cancelled, unless
\* it was or StartIo claimed it.
RoutineInv ==
  \A i \in Irp :
    pc[Issuer(i)] \notin {"idle", "called", "marked"} /\ ~cancel[i]
      /\ status[i] = "PENDING" => routine[i] # "none" \/ i \in claimed

\* A pending IRP that waits can be cancelled where it waits.
WaitingInv ==
  \A i \in Irp : Queued(i) /\ status[i] = "PENDING" =>
    routine[i] = "onCancelIrp" /\ ~cancel[i]

IInv ==
  TypeOK /\ PlaceInv /\ UncancelledInv /\ ClaimedInv /\ RoutineInv /\ WaitingInv /\ NoStranded

\* Of an IRP that is still pending the driver reads the true Cancel flag.
LEMMA PendingCancelSeen ==
  ASSUME TypeOK, NEW i \in Irp, status[i] = "PENDING"
  PROVE  /\ FALSE \in CancelSeen(i) => ~cancel[i]
         /\ TRUE \in CancelSeen(i) => cancel[i]
<1>1. CancelSeen(i) = {cancel[i]}
  BY DEF CancelSeen
<1>2. cancel[i] \in BOOLEAN
  BY DEF TypeOK
<1>3. cancel[i] = TRUE \/ cancel[i] = FALSE
  BY <1>2, Zenon
<1> QED
  BY <1>1, <1>3, Zenon

LEMMA InitIInv == Init => IInv
<1> SUFFICES ASSUME Init PROVE IInv
  OBVIOUS
<1>1. TypeOK
  BY EmptySeq DEF Init, TypeOK, Label
<1>2. \A i \in Irp : ~Queued(i) /\ ~Running(i)
  BY DEF Init, Queued, Running, InStartIo
<1> QED
  BY <1>1, <1>2, ThreadFacts, IrpAssumption
  DEF Init, IInv, PlaceInv, NoDuplicates, UncancelledInv, ClaimedInv, RoutineInv,
      WaitingInv, NoStranded, InStartIo

LEMMA EnterStep ==
  ASSUME IInv, NEW i \in Irp, Enter(i)
  PROVE  IInv'
<1> DEFINE t == Issuer(i)
<1>1. t \in Thread /\ pc[t] = "idle"
  BY ThreadFacts DEF Enter
<1>2. \A u \in Thread : pc'[u] = IF u = t THEN "called" ELSE pc[u]
  BY <1>1 DEF IInv, TypeOK, Enter, GoTo
<1>3. \A k \in Irp : /\ Queued(k)' <=> Queued(k)
                     /\ Running(k)' <=> Running(k)
  BY <1>1, <1>2 DEF Enter, device, Queued, Running, InStartIo
<1>4. TypeOK'
  BY <1>1 DEF IInv, TypeOK, Label, Enter, GoTo, device, irps
<1>5. PlaceInv'
  BY <1>1, <1>2, <1>3, ThreadFacts DEF IInv, PlaceInv, Enter, device, InStartIo, NoDuplicates
<1>6. UncancelledInv'
  BY <1>1, <1>2, <1>3, ThreadFacts DEF IInv, UncancelledInv, Enter, irps
<1>7. ClaimedInv'
  BY <1>1, <1>2, ThreadFacts DEF IInv, TypeOK, ClaimedInv, Enter, irps
<1>8. RoutineInv'
  BY <1>1, <1>2, ThreadFacts DEF IInv, RoutineInv, Enter, irps
<1>9. WaitingInv'
  BY <1>3 DEF IInv, WaitingInv, Enter, irps
<1>10. NoStranded'
  BY <1>1, <1>2 DEF IInv, NoStranded, Serving, Enter, device
<1> QED
  BY <1>4, <1>5, <1>6, <1>7, <1>8, <1>9, <1>10 DEF IInv

LEMMA SetCancelRoutineStep ==
  ASSUME IInv, NEW i \in Irp, SetCancelRoutine(i)
  PROVE  IInv'
<1> DEFINE t == Issuer(i)
<1>1. t \in Thread /\ pc[t] = "called" /\ ~Queued(i) /\ ~Running(i)
  BY ThreadFacts DEF IInv, PlaceInv, SetCancelRoutine
<1>2. \A u \in Thread : pc'[u] = IF u = t THEN "marked" ELSE pc[u]
  BY <1>1 DEF IInv, TypeOK, SetCancelRoutine, GoTo
<1>3. \A k \in Irp : /\ Queued(k)' <=> Queued(k)
                     /\ Running(k)' <=> Running(k)
  BY <1>1, <1>2 DEF SetCancelRoutine, device, Queued, Running, InStartIo
<1>4. TypeOK'
  BY <1>1, ThreadFacts DEF IInv, TypeOK, Label, SetCancelRoutine, GoTo, device
<1>5. PlaceInv'
  BY <1>1, <1>2, <1>3, ThreadFacts DEF IInv, PlaceInv, SetCancelRoutine, device, InStartIo, NoDuplicates
<1>6. UncancelledInv'
  BY <1>1, <1>2, <1>3, ThreadFacts DEF IInv, UncancelledInv, SetCancelRoutine
<1>7. ClaimedInv'
  BY <1>1, <1>2, <1>3, ThreadFacts DEF IInv, TypeOK, ClaimedInv, Running, InStartIo, SetCancelRoutine
<1>8. WaitingInv'
  BY <1>1, <1>2, <1>3, ThreadFacts DEF IInv, TypeOK, WaitingInv, SetCancelRoutine
<1>9. NoStranded'
  BY <1>1, <1>2, ThreadFacts DEF IInv, NoStranded, Serving, SetCancelRoutine, device
<1>10. RoutineInv'
  BY <1>1, <1>2, ThreadFacts DEF IInv, TypeOK, RoutineInv, SetCancelRoutine
<1> QED
  BY <1>4, <1>5, <1>6, <1>7, <1>8, <1>9, <1>10 DEF IInv

LEMMA ClaimStep ==
  ASSUME IInv, NEW t \in Thread, Claim(t)
  PROVE  IInv'
<1> DEFINE i == cur[t]
<1>1. i \in Irp /\ pc[t] = "startio" /\ Running(i) /\ ~Queued(i)
      /\ pc[Issuer(i)] \notin {"idle", "called", "marked", "complete"}
  BY DEF IInv, PlaceInv, Claim, Running, InStartIo
<1>2. \A u \in Thread : pc'[u] = IF u = t THEN "work" ELSE pc[u]
  BY DEF IInv, TypeOK, Claim, GoTo
<1>3. \A u \in Thread : InStartIo(u)' <=> InStartIo(u)
  BY <1>1, <1>2 DEF InStartIo
<1>4. \A k \in Irp : /\ Queued(k)' <=> Queued(k)
                     /\ Running(k)' <=> Running(k)
  BY <1>3 DEF Claim, device, Queued, Running
<1>5. \A k \in Irp : k # i => routine'[k] = routine[k]
  BY DEF IInv, TypeOK, Claim
<1>6. TypeOK'
  BY <1>1 DEF IInv, TypeOK, Label, Claim, GoTo, device
<1>7. PlaceInv'
  BY <1>1, <1>2, <1>3, <1>4, ThreadFacts DEF IInv, PlaceInv, Claim, device, NoDuplicates
<1>8. UncancelledInv'
  BY <1>1, <1>2, <1>4, ThreadFacts DEF IInv, UncancelledInv, Claim
<1>9. ClaimedInv'
  <2> SUFFICES ASSUME NEW k \in claimed', status[k] = "PENDING"
               PROVE  /\ routine'[k] = "none"
                      /\ pc'[Canceller(k)] \in {"idle", "done"}
                      /\ \E u \in Thread : pc'[u] = "work" /\ cur[u] = k
    BY DEF ClaimedInv, Claim
  <2>1. k \in Irp
    BY <1>6 DEF TypeOK
  <2>2. CASE k \in claimed
    <3>1. PICK u \in Thread : pc[u] = "work" /\ cur[u] = k
      BY <2>2 DEF IInv, ClaimedInv
    <3>2. k # i /\ u # t
      BY <1>1, <3>1 DEF IInv, PlaceInv, InStartIo
    <3> QED
      BY <1>1, <1>2, <1>5, <2>1, <2>2, <3>1, <3>2, ThreadFacts DEF IInv, ClaimedInv
  <2>3. CASE k \notin claimed
    <3>1. k = i /\ ~cancel[k] /\ routine'[k] = "none"
      <4>1. FALSE \in CancelSeen(i) /\ claimed' = claimed \cup {i}
            /\ routine' = [routine EXCEPT ![i] = "none"]
        BY <2>3 DEF Claim
      <4> QED
        BY <1>1, <2>3, <4>1, PendingCancelSeen DEF IInv, TypeOK
    <3>2. pc[Canceller(k)] = "idle"
      BY <2>1, <3>1 DEF IInv, UncancelledInv
    <3> QED
      BY <1>1, <1>2, <2>1, <3>1, <3>2, ThreadFacts
  <2> QED
    BY <2>2, <2>3
<1>10. WaitingInv'
  BY <1>1, <1>4, <1>5 DEF IInv, TypeOK, WaitingInv, Claim
<1>11. NoStranded'
  BY <1>2 DEF IInv, NoStranded, Serving, Claim, device
<1>12. RoutineInv'
  BY <1>1, <1>2, <1>5, ThreadFacts DEF IInv, RoutineInv, Claim
<1> QED
  BY <1>6, <1>7, <1>8, <1>9, <1>10, <1>11, <1>12 DEF IInv

LEMMA FinishStep ==
  ASSUME IInv, NEW t \in Thread, Finish(t)
  PROVE  IInv'
<1> DEFINE i == cur[t]
<1>1. i \in Irp /\ pc[t] = "work" /\ Running(i) /\ ~Queued(i)
      /\ pc[Issuer(i)] \notin {"idle", "called", "marked", "complete"}
  BY DEF IInv, PlaceInv, Finish, Running, InStartIo
<1>2. \A u \in Thread : pc'[u] = IF u = t THEN "next" ELSE pc[u]
  BY DEF IInv, TypeOK, Finish, GoTo
<1>3. \A u \in Thread : InStartIo(u)' <=> InStartIo(u) /\ u # t
  BY <1>1, <1>2 DEF InStartIo
<1>4. \A k \in Irp : /\ Queued(k)' <=> Queued(k)
                     /\ Running(k)' <=> Running(k) /\ k # i
  BY <1>1, <1>3 DEF IInv, PlaceInv, Finish, device, Queued, Running, InStartIo
<1>5. \A k \in Irp : status'[k] = IF k = i THEN "SUCCESS" ELSE status[k]
  BY DEF IInv, TypeOK, Finish, Complete
<1>6. TypeOK'
  BY <1>1 DEF IInv, TypeOK, Label, Finish, Complete, GoTo, device
<1>7. PlaceInv'
  BY <1>1, <1>2, <1>3, <1>4, ThreadFacts DEF IInv, PlaceInv, Finish, device, NoDuplicates
<1>8. UncancelledInv'
  <2> SUFFICES ASSUME NEW k \in Irp, ~cancel[k]
               PROVE  /\ pc'[Canceller(k)] = "idle"
                      /\ pc'[Issuer(k)] # "complete"
                      /\ k \notin twice'
                      /\ status'[k] # "PENDING" =>
                           /\ pc'[Issuer(k)] \notin {"idle", "called", "marked"}
                           /\ ~Queued(k)'
                           /\ ~Running(k)'
    BY DEF UncancelledInv, Finish
  <2>1. pc'[Canceller(k)] = "idle" /\ pc'[Issuer(k)] # "complete"
    BY <1>1, <1>2, ThreadFacts DEF IInv, UncancelledInv
  <2>2. k \notin twice'
    BY <1>1 DEF IInv, UncancelledInv, Finish, Complete
  <2> QED
    BY <1>1, <1>2, <1>4, <1>5, <2>1, <2>2, ThreadFacts DEF IInv, UncancelledInv
<1>9. ClaimedInv'
  BY <1>1, <1>2, <1>5, ThreadFacts DEF IInv, TypeOK, ClaimedInv, Finish
<1>10. WaitingInv'
  BY <1>1, <1>4, <1>5 DEF IInv, WaitingInv, Finish
<1>11. NoStranded'
  BY <1>2 DEF IInv, NoStranded, Serving, Finish, device
<1>12. RoutineInv'
  BY <1>1, <1>2, <1>5, ThreadFacts DEF IInv, RoutineInv, Finish
<1> QED
  BY <1>6, <1>7, <1>8, <1>9, <1>10, <1>11, <1>12 DEF IInv

LEMMA CompleteCancelledStep ==
  ASSUME IInv, NEW t \in Thread, CompleteCancelled(t)
  PROVE  IInv'
<1> DEFINE i == t[1]
<1>1. i \in Irp /\ pc[t] = "complete" /\ cancel[i]
  BY ThreadFacts DEF IInv, UncancelledInv, CompleteCancelled
<1>2. \A u \in Thread : pc'[u] = IF u = t THEN "done" ELSE pc[u]
  BY DEF IInv, TypeOK, CompleteCancelled, GoTo
<1>3. \A u \in Thread : InStartIo(u)' <=> InStartIo(u)
  BY <1>1, <1>2 DEF InStartIo
<1>4. \A k \in Irp : /\ Queued(k)' <=> Queued(k)
                     /\ Running(k)' <=> Running(k)
  BY <1>3 DEF CompleteCancelled, device, Queued, Running
<1>5. \A k \in Irp : status'[k] = IF k = i THEN "CANCELLED" ELSE status[k]
  BY DEF IInv, TypeOK, CompleteCancelled, Complete
<1>6. TypeOK'
  BY <1>1 DEF IInv, TypeOK, Label, CompleteCancelled, Complete, GoTo, device
<1>7. PlaceInv'
  BY <1>1, <1>2, <1>3, <1>4, ThreadFacts DEF IInv, PlaceInv, CompleteCancelled, device, NoDuplicates
<1>8. UncancelledInv'
  BY <1>1, <1>2, <1>4, <1>5, ThreadFacts DEF IInv, UncancelledInv, CompleteCancelled, Complete
<1>9. ClaimedInv'
  BY <1>1, <1>2, <1>5, ThreadFacts DEF IInv, TypeOK, ClaimedInv, CompleteCancelled
<1>10. WaitingInv'
  BY <1>1, <1>4, <1>5 DEF IInv, WaitingInv, CompleteCancelled
<1>11. NoStranded'
  BY <1>1, <1>2 DEF IInv, NoStranded, Serving, CompleteCancelled, device
<1>12. RoutineInv'
  BY <1>1, <1>2, <1>5, ThreadFacts DEF IInv, RoutineInv, CompleteCancelled
<1> QED
  BY <1>6, <1>7, <1>8, <1>9, <1>10, <1>11, <1>12 DEF IInv

\* IoStartPacket finds the device queue idle: StartIo runs for a new IRP.
LEMMA StartPacketIdleStep ==
  ASSUME IInv, NEW i \in Irp, StartPacket(i), ~busy
  PROVE  IInv'
<1> DEFINE t == Issuer(i)
<1>1. t \in Thread /\ pc[t] = "marked" /\ ~Queued(i) /\ ~Running(i) /\ queue = <<>>
  BY ThreadFacts DEF IInv, PlaceInv, NoStranded, StartPacket
<1>2. /\ busy' = TRUE /\ queue' = queue
      /\ CurrentIrp' = i /\ cur' = [cur EXCEPT ![t] = i]
      /\ pc' = [pc EXCEPT ![t] = "startio"]
      /\ routine' = [routine EXCEPT ![i] = "onCancelIrp"]
      /\ UNCHANGED <<cancel, status, twice, claimed>>
  BY DEF StartPacket, CallStartIo, GoTo
<1>3. \A u \in Thread : /\ pc'[u] = IF u = t THEN "startio" ELSE pc[u]
                        /\ cur'[u] = IF u = t THEN i ELSE cur[u]
  BY <1>1, <1>2 DEF IInv, TypeOK
<1>4. \A u \in Thread : InStartIo(u)' <=> InStartIo(u) \/ u = t
  BY <1>1, <1>3 DEF InStartIo
<1>5. \A k \in Irp : ~Queued(k) /\ ~Queued(k)'
  BY <1>1, <1>2 DEF Queued
<1>6. \A k \in Irp : Running(k)' <=> Running(k) \/ k = i
  <2>1. ~InStartIo(t)
    BY <1>1 DEF InStartIo
  <2> QED
    BY <1>1, <1>3, <1>4, <2>1 DEF Running
<1>7. TypeOK'
  BY <1>1, <1>2 DEF IInv, TypeOK, Label
<1>8. PlaceInv'
  <2>1. \A u \in Thread : InStartIo(u) => cur[u] # i
    BY <1>1 DEF Running
  <2>2. \A u \in Thread : InStartIo(u)' => cur'[u] \in Irp
    BY <1>3, <1>4 DEF IInv, PlaceInv
  <2>3. \A u, v \in Thread : InStartIo(u)' /\ InStartIo(v)' /\ cur'[u] = cur'[v] => u = v
    BY <1>3, <1>4, <2>1 DEF IInv, PlaceInv
  <2>4. NoDuplicates(queue')
    BY <1>2 DEF IInv, PlaceInv
  <2>5. \A k \in Irp : pc'[Issuer(k)] \in {"idle", "called", "marked", "complete"} =>
                         ~Running(k)' /\ k # CurrentIrp'
    BY <1>1, <1>2, <1>3, <1>6, ThreadFacts DEF IInv, PlaceInv
  <2> QED
    BY <1>5, <2>2, <2>3, <2>4, <2>5 DEF PlaceInv
<1>9. UncancelledInv'
  BY <1>1, <1>2, <1>3, <1>5, <1>6, ThreadFacts DEF IInv, UncancelledInv
<1>10. ClaimedInv'
  <2>1. \A u \in Thread : InStartIo(u) => cur[u] # i
    BY <1>1 DEF Running
  <2> QED
    BY <1>1, <1>2, <1>3, <2>1, ThreadFacts DEF IInv, TypeOK, ClaimedInv, InStartIo
<1>11. WaitingInv'
  BY <1>5 DEF WaitingInv
<1>12. NoStranded'
  BY <1>1, <1>2, <1>3 DEF NoStranded, Serving
<1>13. RoutineInv'
  BY <1>1, <1>2, <1>3, ThreadFacts DEF IInv, TypeOK, RoutineInv
<1> QED
  BY <1>7, <1>8, <1>9, <1>10, <1>11, <1>12, <1>13 DEF IInv

\* IoStartPacket finds it busy and the IRP not cancelled: the IRP waits.
LEMMA StartPacketQueuedStep ==
  ASSUME IInv, NEW i \in Irp, pc[Issuer(i)] = "marked", busy,
         FALSE \in CancelSeen(i),
         queue' = Append(queue, i),
         routine' = [routine EXCEPT ![i] = "onCancelIrp"],
         GoTo(Issuer(i), "done"),
         UNCHANGED <<cur, CurrentIrp, busy, cancel, status, twice, claimed>>
  PROVE  IInv'
<1> DEFINE t == Issuer(i)
<1>1. t \in Thread /\ pc[t] = "marked" /\ ~Queued(i) /\ ~Running(i) /\ i # CurrentIrp
  BY ThreadFacts DEF IInv, PlaceInv
<1>2. \A u \in Thread : pc'[u] = IF u = t THEN "done" ELSE pc[u]
  BY DEF IInv, TypeOK, GoTo
<1>3. \A u \in Thread : InStartIo(u)' <=> InStartIo(u)
  BY <1>1, <1>2 DEF InStartIo
<1>4. /\ queue' \in Seq(Irp) /\ Len(queue') = Len(queue) + 1
      /\ \A k \in 1..Len(queue) : queue'[k] = queue[k]
      /\ queue'[Len(queue) + 1] = i
      /\ Len(queue) \in Nat
  BY AppendQueue DEF IInv, TypeOK
<1>5. \A k \in Irp : /\ Queued(k)' <=> Queued(k) \/ k = i
                     /\ Running(k)' <=> Running(k)
  BY <1>3, <1>4 DEF Queued, Running
<1>6. TypeOK'
  BY <1>1, <1>4 DEF IInv, TypeOK, Label, GoTo
<1>7. PlaceInv'
  <2>1. NoDuplicates(queue')
    BY <1>1, <1>4 DEF IInv, PlaceInv, NoDuplicates, Queued
  <2> QED
    BY <1>1, <1>2, <1>3, <1>5, <2>1, ThreadFacts DEF IInv, PlaceInv
<1>8. UncancelledInv'
  BY <1>1, <1>2, <1>5, ThreadFacts DEF IInv, UncancelledInv
<1>9. ClaimedInv'
  <2>1. \A u \in Thread : InStartIo(u) => cur[u] # i
    BY <1>1 DEF Running
  <2> QED
    BY <1>1, <1>2, <2>1, ThreadFacts DEF IInv, TypeOK, ClaimedInv, InStartIo
<1>10. WaitingInv'
  BY <1>5, PendingCancelSeen DEF IInv, TypeOK, WaitingInv
<1>11. NoStranded'
  BY <1>1, <1>2 DEF IInv, NoStranded, Serving
<1>12. RoutineInv'
  BY <1>1, <1>2, ThreadFacts DEF IInv, TypeOK, RoutineInv
<1> QED
  BY <1>6, <1>7, <1>8, <1>9, <1>10, <1>11, <1>12 DEF IInv

\* IoStartPacket finds it busy and the IRP cancelled: onCancelIrp follows.
LEMMA StartPacketCancelledStep ==
  ASSUME IInv, NEW i \in Irp, pc[Issuer(i)] = "marked",
         TRUE \in CancelSeen(i),
         routine' = [routine EXCEPT ![i] = "none"],
         GoTo(Issuer(i), "complete"),
         UNCHANGED <<cur, device, cancel, status, twice, claimed>>
  PROVE  IInv'
<1> DEFINE t == Issuer(i)
<1>1. t \in Thread /\ pc[t] = "marked" /\ ~Queued(i) /\ ~Running(i) /\ i # CurrentIrp
  BY ThreadFacts DEF IInv, PlaceInv
<1>2. \A u \in Thread : pc'[u] = IF u = t THEN "complete" ELSE pc[u]
  BY DEF IInv, TypeOK, GoTo
<1>3. \A u \in Thread : InStartIo(u)' <=> InStartIo(u)
  BY <1>1, <1>2 DEF InStartIo
<1>4. \A k \in Irp : /\ Queued(k)' <=> Queued(k)
                     /\ Running(k)' <=> Running(k)
  BY <1>3 DEF device, Queued, Running
<1>5. cancel[i]
  BY <1>1, PendingCancelSeen DEF IInv, UncancelledInv
<1>6. TypeOK'
  BY <1>1 DEF IInv, TypeOK, Label, GoTo, device
<1>7. PlaceInv'
  BY <1>1, <1>2, <1>3, <1>4, ThreadFacts DEF IInv, PlaceInv, device
<1>8. UncancelledInv'
  BY <1>1, <1>2, <1>4, <1>5, ThreadFacts DEF IInv, UncancelledInv
<1>9. ClaimedInv'
  <2>1. \A u \in Thread : InStartIo(u) => cur[u] # i
    BY <1>1 DEF Running
  <2> QED
    BY <1>1, <1>2, <2>1, ThreadFacts DEF IInv, TypeOK, ClaimedInv, InStartIo
<1>10. WaitingInv'
  BY <1>1, <1>4 DEF IInv, TypeOK, WaitingInv
<1>11. NoStranded'
  BY <1>1, <1>2 DEF IInv, NoStranded, Serving, device
<1>12. RoutineInv'
  BY <1>1, <1>2, <1>5, ThreadFacts DEF IInv, TypeOK, RoutineInv
<1> QED
  BY <1>6, <1>7, <1>8, <1>9, <1>10, <1>11, <1>12 DEF IInv

LEMMA StartPacketStep ==
  ASSUME IInv, NEW i \in Irp, StartPacket(i)
  PROVE  IInv'
<1>1. CASE ~busy
  BY <1>1, StartPacketIdleStep
<1>2. CASE busy
  <2>1. pc[Issuer(i)] = "marked" /\ UNCHANGED <<cancel, status, twice, claimed>>
    BY DEF StartPacket
  <2>2. CASE /\ FALSE \in CancelSeen(i)
             /\ queue' = Append(queue, i)
             /\ routine' = [routine EXCEPT ![i] = "onCancelIrp"]
             /\ GoTo(Issuer(i), "done")
             /\ UNCHANGED <<cur, CurrentIrp, busy>>
    BY <1>2, <2>1, <2>2, StartPacketQueuedStep
  <2>3. CASE /\ TRUE \in CancelSeen(i)
             /\ routine' = [routine EXCEPT ![i] = "none"]
             /\ GoTo(Issuer(i), "complete")
             /\ UNCHANGED <<cur, device>>
    BY <2>1, <2>3, StartPacketCancelledStep
  <2> QED
    BY <1>2, <2>2, <2>3 DEF StartPacket
<1> QED
  BY <1>1, <1>2

\* IoStartNextPacket takes the oldest IRP out of the queue.
LEMMA StartNextPacketBusyStep ==
  ASSUME IInv, NEW t \in Thread, StartNextPacket(t), queue # <<>>
  PROVE  IInv'
<1> DEFINE i == Head(queue)
<1>1. /\ pc[t] = "next" /\ queue' = Tail(queue) /\ CurrentIrp' = i
      /\ cur' = [cur EXCEPT ![t] = i] /\ pc' = [pc EXCEPT ![t] = "startio"]
      /\ UNCHANGED <<busy, routine, cancel, status, twice, claimed>>
  BY DEF StartNextPacket, CallStartIo, GoTo, irps
<1>2. /\ i \in Irp /\ i = queue[1] /\ queue' \in Seq(Irp)
      /\ Len(queue) \in Nat \ {0} /\ Len(queue') = Len(queue) - 1
      /\ \A k \in 1..Len(queue') : queue'[k] = queue[k + 1]
  BY <1>1, TakeHead DEF IInv, TypeOK
<1> HIDE DEF i
<1>3. \A u \in Thread : /\ pc'[u] = IF u = t THEN "startio" ELSE pc[u]
                        /\ cur'[u] = IF u = t THEN i ELSE cur[u]
  BY <1>1 DEF IInv, TypeOK
<1>4. \A u \in Thread : InStartIo(u)' <=> InStartIo(u) \/ u = t
  BY <1>1, <1>3 DEF InStartIo
<1>5. Queued(i) /\ ~Running(i) /\ i # CurrentIrp
      /\ pc[Issuer(i)] \notin {"idle", "called", "marked", "complete"}
  <2>1. Queued(i)
    BY <1>2 DEF Queued
  <2> QED
    BY <1>2, <2>1 DEF IInv, PlaceInv
<1>6. \A k \in Irp : Queued(k)' <=> Queued(k) /\ k # i
  <2>1. \A k \in Irp : Queued(k)' => Queued(k) /\ k # i
    BY <1>2 DEF IInv, PlaceInv, NoDuplicates, Queued
  <2>2. ASSUME NEW k \in Irp, Queued(k), k # i PROVE Queued(k)'
    <3>1. PICK j \in 1..Len(queue) : queue[j] = k
      BY <2>2 DEF Queued
    <3>2. j - 1 \in 1..Len(queue') /\ (j - 1) + 1 = j
      BY <1>2, <2>2, <3>1
    <3>3. queue'[j - 1] = k
      BY <1>2, <3>1, <3>2
    <3> QED
      BY <3>2, <3>3 DEF Queued
  <2> QED
    BY <2>1, <2>2
<1>7. \A k \in Irp : Running(k)' <=> Running(k) \/ k = i
  <2>1. ~InStartIo(t)
    BY <1>1 DEF InStartIo
  <2> QED
    BY <1>3, <1>4, <2>1 DEF Running
<1>8. TypeOK'
  BY <1>1, <1>2 DEF IInv, TypeOK, Label
<1>9. PlaceInv'
  <2>1. \A u \in Thread : InStartIo(u) => cur[u] # i
    BY <1>5 DEF Running
  <2>2. \A u \in Thread : InStartIo(u)' => cur'[u] \in Irp
    BY <1>2, <1>3, <1>4 DEF IInv, PlaceInv
  <2>3. \A u, v \in Thread : InStartIo(u)' /\ InStartIo(v)' /\ cur'[u] = cur'[v] => u = v
    BY <1>3, <1>4, <2>1 DEF IInv, PlaceInv
  <2>4. NoDuplicates(queue')
    BY <1>2 DEF IInv, PlaceInv, NoDuplicates
  <2>5. \A k \in Irp : pc'[Issuer(k)] \in {"idle", "called", "marked", "complete"} =>
                         ~Queued(k)' /\ ~Running(k)' /\ k # CurrentIrp'
    BY <1>1, <1>3, <1>5, <1>6, <1>7, ThreadFacts DEF IInv, PlaceInv
  <2>6. \A k \in Irp : Queued(k)' => ~Running(k)' /\ k # CurrentIrp'
    BY <1>1, <1>6, <1>7 DEF IInv, PlaceInv
  <2> QED
    BY <2>2, <2>3, <2>4, <2>5, <2>6 DEF PlaceInv
<1>10. UncancelledInv'
  BY <1>1, <1>3, <1>5, <1>6, <1>7, ThreadFacts DEF IInv, UncancelledInv
<1>11. ClaimedInv'
  BY <1>1, <1>3, ThreadFacts DEF IInv, TypeOK, ClaimedInv
<1>12. WaitingInv'
  BY <1>1, <1>6 DEF IInv, WaitingInv
<1>13. NoStranded'
  <2>1. busy
    BY DEF IInv, NoStranded
  <2> QED
    BY <1>1, <1>3, <2>1 DEF NoStranded, Serving
<1>14. RoutineInv'
  BY <1>1, <1>3, ThreadFacts DEF IInv, RoutineInv
<1> QED
  BY <1>8, <1>9, <1>10, <1>11, <1>12, <1>13, <1>14 DEF IInv

\* IoStartNextPacket finds the queue empty: it becomes idle.
LEMMA StartNextPacketEmptyStep ==
  ASSUME IInv, NEW t \in Thread, StartNextPacket(t), queue = <<>>
  PROVE  IInv'
<1>1. /\ pc[t] = "next" /\ queue' = queue /\ CurrentIrp' = NoIrp /\ busy' = FALSE
      /\ cur' = [cur EXCEPT ![t] = NoIrp] /\ pc' = [pc EXCEPT ![t] = AfterQueue(t)]
      /\ UNCHANGED <<routine, cancel, status, twice, claimed>>
  BY DEF StartNextPacket, GoTo, irps
<1>2. AfterQueue(t) \in {"done", "complete"}
  BY ThreadFacts
<1>3. \A u \in Thread : /\ pc'[u] = IF u = t THEN AfterQueue(t) ELSE pc[u]
                        /\ cur'[u] = IF u = t THEN NoIrp ELSE cur[u]
  BY <1>1 DEF IInv, TypeOK
<1>4. \A u \in Thread : InStartIo(u)' <=> InStartIo(u)
  BY <1>1, <1>2, <1>3 DEF InStartIo
<1>5. \A u \in Thread : InStartIo(u) => cur'[u] = cur[u]
  BY <1>1, <1>3 DEF InStartIo
<1>6. \A k \in Irp : /\ Queued(k)' <=> Queued(k)
                     /\ Running(k)' <=> Running(k)
  BY <1>1, <1>4, <1>5 DEF Queued, Running
<1>7. TypeOK'
  BY <1>1, <1>2 DEF IInv, TypeOK, Label
<1>8. PlaceInv'
  <2>1. \A k \in Irp : NoIrp # k
    BY IrpAssumption
  <2>2. \A k \in Irp : Issuer(k) = t => pc'[t] = "done"
    BY <1>3, ThreadFacts
  <2> QED
    BY <1>1, <1>3, <1>4, <1>5, <1>6, <2>1, <2>2, ThreadFacts DEF IInv, PlaceInv
<1>9. UncancelledInv'
  BY <1>1, <1>3, <1>6, ThreadFacts DEF IInv, UncancelledInv
<1>10. ClaimedInv'
  BY <1>1, <1>3, ThreadFacts DEF IInv, TypeOK, ClaimedInv
<1>11. WaitingInv'
  BY <1>1, <1>6 DEF IInv, WaitingInv
<1>12. NoStranded'
  BY <1>1 DEF NoStranded
<1>13. RoutineInv'
  BY <1>1, <1>3, ThreadFacts DEF IInv, RoutineInv
<1> QED
  BY <1>7, <1>8, <1>9, <1>10, <1>11, <1>12, <1>13 DEF IInv

LEMMA CancelIrpStep ==
  ASSUME IInv, NEW i \in Irp, CancelIrp(i)
  PROVE  IInv'
<1> DEFINE t == Canceller(i)
<1>1. /\ t \in Thread /\ pc[t] = "idle" /\ pc[Issuer(i)] # "idle" /\ status[i] = "PENDING"
      /\ cancel' = [cancel EXCEPT ![i] = TRUE]
      /\ routine' = [routine EXCEPT ![i] = "none"]
      /\ UNCHANGED <<cur, CurrentIrp, busy, claimed>>
  BY ThreadFacts DEF CancelIrp
<1>2. PICK label \in {"done", "next", "complete"} : pc' = [pc EXCEPT ![t] = label]
  BY DEF CancelIrp, CancelReadIrp, onCancelIrp, GoTo
<1>3. \/ /\ status' = status /\ twice' = twice
      \/ /\ status' = [status EXCEPT ![i] = "CANCELLED"] /\ twice' = twice
         /\ routine[i] = "CancelReadIrp"
  BY <1>1 DEF CancelIrp, CancelReadIrp, onCancelIrp, Complete
<1>4. \/ /\ queue' = queue
         /\ routine[i] = "onCancelIrp" => i = CurrentIrp
      \/ queue' = RemoveFirst(queue, i)
  BY DEF CancelIrp, CancelReadIrp, onCancelIrp
<1>5. \A u \in Thread : pc'[u] = IF u = t THEN label ELSE pc[u]
  BY <1>2 DEF IInv, TypeOK
<1>6. \A u \in Thread : InStartIo(u)' <=> InStartIo(u)
  BY <1>1, <1>5 DEF InStartIo
<1>7. \A k \in Irp : Running(k)' <=> Running(k)
  BY <1>1, <1>6 DEF Running
<1>8. /\ queue' \in Seq(Irp) /\ NoDuplicates(queue')
      /\ \A k \in Irp : Queued(k)' => Queued(k)
      /\ Queued(i)' => queue' = queue
      /\ queue = <<>> => queue' = <<>>
  BY <1>4, RemoveFirstProperties DEF IInv, TypeOK, PlaceInv, Queued
<1>9. \A k \in Irp : k # i => /\ cancel'[k] = cancel[k] /\ routine'[k] = routine[k]
                              /\ status'[k] = status[k]
  BY <1>1, <1>3 DEF IInv, TypeOK
<1>10. cancel'[i] = TRUE /\ routine'[i] = "none"
  BY <1>1 DEF IInv, TypeOK
<1>11. TypeOK'
  BY <1>1, <1>2, <1>3, <1>8 DEF IInv, TypeOK, Label
<1>12. PlaceInv'
  BY <1>1, <1>5, <1>6, <1>7, <1>8, ThreadFacts DEF IInv, PlaceInv
<1>13. UncancelledInv'
  <2> SUFFICES ASSUME NEW k \in Irp, ~cancel'[k]
               PROVE  /\ pc'[Canceller(k)] = "idle"
                      /\ pc'[Issuer(k)] # "complete"
                      /\ k \notin twice'
                      /\ status'[k] # "PENDING" =>
                           /\ pc'[Issuer(k)] \notin {"idle", "called", "marked"}
                           /\ ~Queued(k)'
                           /\ ~Running(k)'
    BY DEF UncancelledInv
  <2>1. k # i
    BY <1>10
  <2> QED
    BY <1>1, <1>3, <1>5, <1>7, <1>8, <1>9, <2>1, ThreadFacts DEF IInv, UncancelledInv
<1>14. ClaimedInv'
  <2> SUFFICES ASSUME NEW k \in claimed, status'[k] = "PENDING"
               PROVE  /\ routine'[k] = "none"
                      /\ pc'[Canceller(k)] \in {"idle", "done"}
                      /\ \E u \in Thread : pc'[u] = "work" /\ cur'[u] = k
    BY <1>1 DEF ClaimedInv
  <2>1. k \in Irp /\ status[k] = "PENDING"
    BY <1>1, <1>3 DEF IInv, TypeOK
  <2>2. routine[k] = "none" /\ \E u \in Thread : pc[u] = "work" /\ cur[u] = k
    BY <2>1 DEF IInv, ClaimedInv
  <2>3. k = i => label = "done"
    BY <1>1, <1>2, <2>2, <1>5 DEF CancelIrp, GoTo
  <2> QED
    BY <1>1, <1>5, <1>9, <1>10, <2>1, <2>2, <2>3, ThreadFacts DEF IInv, ClaimedInv
<1>15. WaitingInv'
  <2>1. ~(Queued(i)' /\ status'[i] = "PENDING")
    <3> SUFFICES ASSUME Queued(i)' PROVE FALSE
      OBVIOUS
    <3>1. Queued(i) /\ queue' = queue
      BY <1>8
    <3>2. routine[i] = "onCancelIrp" /\ i # CurrentIrp
      BY <1>1, <3>1 DEF IInv, WaitingInv, PlaceInv
    <3>3. queue' = RemoveFirst(queue, i)
      BY <1>4, <3>2
    <3> QED
      BY <3>3, RemoveFirstProperties DEF IInv, TypeOK, PlaceInv, Queued
  <2> QED
    BY <1>8, <1>9, <2>1 DEF IInv, WaitingInv
<1>16. NoStranded'
  BY <1>1, <1>5, <1>8 DEF IInv, NoStranded, Serving
<1>17. RoutineInv'
  BY <1>1, <1>3, <1>5, <1>9, <1>10, ThreadFacts DEF IInv, RoutineInv
<1> QED
  BY <1>11, <1>12, <1>13, <1>14, <1>15, <1>16, <1>17 DEF IInv

LEMMA NextIInv == IInv /\ [Next]_vars => IInv'
<1> SUFFICES ASSUME IInv, [Next]_vars PROVE IInv'
  OBVIOUS
<1>1. CASE Next
  <2>1. ASSUME NEW i \in Irp, IrpStep(i) PROVE IInv'
    BY <2>1, EnterStep, SetCancelRoutineStep, StartPacketStep, CancelIrpStep DEF IrpStep
  <2>2. ASSUME NEW t \in Thread, ThreadStep(t) PROVE IInv'
    BY <2>2, ClaimStep, FinishStep, StartNextPacketBusyStep, StartNextPacketEmptyStep,
       CompleteCancelledStep DEF ThreadStep
  <2> QED
    BY <1>1, <2>1, <2>2 DEF Next
<1>2. CASE UNCHANGED vars
  BY <1>2 DEF vars, device, irps, IInv, TypeOK, PlaceInv, NoDuplicates, UncancelledInv,
     ClaimedInv, RoutineInv, WaitingInv, NoStranded, Queued, Running, InStartIo, Serving
<1> QED
  BY <1>1, <1>2

(***************************************************************************)
(* The theorems, with any cancellation.                                    *)
(***************************************************************************)

\* IInv is an invariant of the read path.
THEOREM Invariance == Spec => []IInv
  BY InitIInv, NextIInv, PTL DEF Spec

\* The variables of the read path stay in their types.
THEOREM TypeCorrect == Spec => []TypeOK
<1>1. IInv => TypeOK
  BY DEF IInv
<1> QED
  BY <1>1, Invariance, PTL

\* The device queue never goes unserved (IoStartNextPacket in StartIo and in
\* onCancelIrp, DeviceStartIO.cpp:26 and 88).
THEOREM NeverStranded == Spec => []NoStranded
<1>1. IInv => NoStranded
  BY DEF IInv
<1> QED
  BY <1>1, Invariance, PTL

\* Only cancelled reads are completed twice, however many reads and
\* cancellations there are.
THEOREM UncancelledCompletedOnce == Spec => []OnlyCancelledTwice
<1>1. IInv => OnlyCancelledTwice
  BY DEF IInv, TypeOK, UncancelledInv, OnlyCancelledTwice
<1> QED
  BY <1>1, Invariance, PTL

\* An IRP in the device queue waits there once, is not being served, and can
\* be cancelled there as long as it is pending.
THEOREM QueuedReadsAreFree == Spec => []QueuedIsFree
<1>1. IInv => QueuedIsFree
  <2> SUFFICES ASSUME IInv PROVE QueuedIsFree
    OBVIOUS
  <2>1. \A i \in Irp : Queued(i) => \A t \in Thread : Serving(t) /\ pc[t] # "next" => cur[t] # i
    BY DEF IInv, PlaceInv, Running, InStartIo, Serving
  <2> QED
    BY <2>1 DEF IInv, PlaceInv, NoDuplicates, WaitingInv, QueuedIsFree
<1> QED
  BY <1>1, Invariance, PTL

\* The cancellation of a pending read that comes after ReadFile has returned
\* meets a cancel routine, unless StartIo claimed the read
\* (DeviceStartIO.cpp:65).
THEOREM PendingReadsCanBeCancelled == Spec => []PendingCanBeCancelled
<1>1. IInv => PendingCanBeCancelled
  BY DEF IInv, RoutineInv, PendingCanBeCancelled
<1> QED
  BY <1>1, Invariance, PTL

\* StartIo's claim holds: an IRP whose cancel routine it removed while the
\* IRP was pending ends as a success (DeviceStartIO.cpp:63-65).
THEOREM ClaimHolds == Spec => ClaimedRunsToSuccess
<1>1. IInv /\ [Next]_vars =>
        [\A i \in claimed : status[i] = "PENDING" => status'[i] # "CANCELLED"]_vars
  <2> SUFFICES ASSUME IInv, Next, NEW i \in claimed, status[i] = "PENDING"
               PROVE  status'[i] # "CANCELLED"
    OBVIOUS
  <2>1. /\ i \in Irp /\ routine[i] = "none"
        /\ pc[Canceller(i)] \in {"idle", "done"}
        /\ Running(i)
    BY DEF IInv, TypeOK, ClaimedInv, Running, InStartIo
  <2>2. pc[Issuer(i)] # "complete"
    BY <2>1 DEF IInv, PlaceInv
  <2>3. ASSUME NEW k \in Irp, IrpStep(k) PROVE status'[i] # "CANCELLED"
    <3>1. CASE Enter(k) \/ SetCancelRoutine(k) \/ StartPacket(k)
      BY <3>1 DEF Enter, SetCancelRoutine, StartPacket, irps
    <3>2. CASE CancelIrp(k)
      BY <2>1, <3>2 DEF IInv, TypeOK, CancelIrp, CancelReadIrp, onCancelIrp, Complete
    <3> QED
      BY <2>3, <3>1, <3>2 DEF IrpStep
  <2>4. ASSUME NEW t \in Thread, ThreadStep(t) PROVE status'[i] # "CANCELLED"
    <3>1. CASE Claim(t) \/ StartNextPacket(t)
      BY <3>1 DEF Claim, StartNextPacket, irps
    <3>2. CASE Finish(t)
      BY <2>1, <3>2 DEF IInv, TypeOK, Finish, Complete
    <3>3. CASE CompleteCancelled(t)
      <4>1. t[1] # i
        BY <2>1, <2>2, <3>3, ThreadFacts DEF CompleteCancelled
      <4> QED
        BY <2>1, <3>3, <4>1 DEF IInv, TypeOK, CompleteCancelled, Complete
    <3> QED
      BY <2>4, <3>1, <3>2, <3>3 DEF ThreadStep
  <2> QED
    BY <2>3, <2>4 DEF Next
<1> QED
  BY <1>1, Invariance, PTL DEF Spec, ClaimedRunsToSuccess

(***************************************************************************)
(* No read is forgotten: the safety half of ReadsCompleted.                *)
(***************************************************************************)

\* The thread is in the middle of work that others may wait for.
AtWork(t) == pc[t] \in {"startio", "work", "next", "complete"}

\* A read that has been through IoStartPacket and is pending waits in the
\* queue, is in StartIo, or has a thread that will complete it as cancelled.
HeldInv ==
  \A i \in Irp :
    status[i] = "PENDING" /\ pc[Issuer(i)] \notin {"idle", "called", "marked"} =>
      \/ Queued(i)
      \/ Running(i)
      \/ pc[Issuer(i)] = "complete"
      \/ AtWork(Canceller(i))

\* When no thread is at work for the queue, every read whose Reader has
\* returned is completed, be it served or cancelled.
NoneForgotten ==
  (\A t \in Thread : ~AtWork(t)) =>
    \A i \in Irp : pc[Issuer(i)] = "done" => status[i] # "PENDING"

LEMMA HeldInThreadStep ==
  ASSUME IInv, HeldInv, NEW t \in Thread, ThreadStep(t)
  PROVE  HeldInv'
<1>1. CASE Claim(t)
  <2>1. \A u \in Thread : pc'[u] = IF u = t THEN "work" ELSE pc[u]
    BY <1>1 DEF IInv, TypeOK, Claim, GoTo
  <2>2. pc[t] = "startio" /\ UNCHANGED <<cur, queue, status>>
    BY <1>1 DEF Claim, device
  <2>3. \A k \in Irp : (Queued(k)' <=> Queued(k)) /\ (Running(k)' <=> Running(k))
    BY <2>1, <2>2 DEF Queued, Running, InStartIo
  <2> QED
    BY <2>1, <2>2, <2>3, ThreadFacts DEF HeldInv, AtWork
<1>2. CASE Finish(t)
  <2>1. /\ pc[t] = "work" /\ cur[t] \in Irp
        /\ \A u \in Thread : pc'[u] = IF u = t THEN "next" ELSE pc[u]
        /\ \A k \in Irp : status'[k] = IF k = cur[t] THEN "SUCCESS" ELSE status[k]
        /\ UNCHANGED <<cur, queue>>
    BY <1>2 DEF IInv, TypeOK, PlaceInv, Finish, Complete, GoTo, device, InStartIo
  <2>2. \A k \in Irp : (Queued(k)' <=> Queued(k)) /\ (Running(k) /\ k # cur[t] => Running(k)')
    BY <2>1 DEF Queued, Running, InStartIo
  <2> QED
    BY <2>1, <2>2, ThreadFacts DEF HeldInv, AtWork
<1>3. CASE StartNextPacket(t) /\ queue # <<>>
  <2> DEFINE i == Head(queue)
  <2>0. /\ pc[t] = "next" /\ queue' = Tail(queue) /\ status' = status
        /\ cur' = [cur EXCEPT ![t] = i] /\ pc' = [pc EXCEPT ![t] = "startio"]
    BY <1>3 DEF StartNextPacket, CallStartIo, GoTo, irps
  <2>2. /\ i = queue[1] /\ Len(queue) \in Nat \ {0} /\ Len(queue') = Len(queue) - 1
        /\ \A k \in 1..Len(queue') : queue'[k] = queue[k + 1]
    BY <1>3, <2>0, TakeHead DEF IInv, TypeOK
  <2> HIDE DEF i
  <2>1. /\ pc[t] = "next" /\ status' = status
        /\ \A u \in Thread : /\ pc'[u] = IF u = t THEN "startio" ELSE pc[u]
                             /\ cur'[u] = IF u = t THEN i ELSE cur[u]
    BY <2>0 DEF IInv, TypeOK
  <2>3. \A k \in Irp : Running(k) => Running(k)'
    BY <2>1 DEF Running, InStartIo
  <2>4. ASSUME NEW k \in Irp, Queued(k) PROVE Queued(k)' \/ Running(k)'
    <3>1. PICK j \in 1..Len(queue) : queue[j] = k
      BY <2>4 DEF Queued
    <3>2. CASE j = 1
      BY <2>1, <2>2, <3>1, <3>2 DEF Running, InStartIo
    <3>3. CASE j # 1
      <4>1. j - 1 \in 1..Len(queue') /\ (j - 1) + 1 = j
        BY <2>2, <3>1, <3>3
      <4> QED
        BY <2>2, <3>1, <4>1 DEF Queued
    <3> QED
      BY <3>2, <3>3
  <2> QED
    BY <2>1, <2>3, <2>4, ThreadFacts DEF HeldInv, AtWork
<1>4. CASE StartNextPacket(t) /\ queue = <<>>
  <2>0. /\ pc[t] = "next" /\ status' = status /\ queue' = queue
        /\ pc' = [pc EXCEPT ![t] = AfterQueue(t)] /\ cur' = [cur EXCEPT ![t] = NoIrp]
    BY <1>4 DEF StartNextPacket, GoTo, irps
  <2>1. /\ pc[t] = "next" /\ status' = status /\ queue' = queue
        /\ \A u \in Thread : /\ pc'[u] = IF u = t THEN AfterQueue(t) ELSE pc[u]
                             /\ u # t => cur'[u] = cur[u]
    BY <2>0 DEF IInv, TypeOK
  <2>2. \A k \in Irp : (Queued(k)' <=> Queued(k)) /\ (Running(k) => Running(k)')
    BY <2>1 DEF Queued, Running, InStartIo
  <2> QED
    BY <2>1, <2>2, ThreadFacts DEF HeldInv, AtWork
<1>5. CASE CompleteCancelled(t)
  <2>1. /\ pc[t] = "complete" /\ t[1] \in Irp
        /\ \A u \in Thread : pc'[u] = IF u = t THEN "done" ELSE pc[u]
        /\ \A k \in Irp : status'[k] = IF k = t[1] THEN "CANCELLED" ELSE status[k]
        /\ UNCHANGED <<cur, queue>>
    BY <1>5, ThreadFacts DEF IInv, TypeOK, CompleteCancelled, Complete, GoTo, device
  <2>2. \A k \in Irp : (Queued(k)' <=> Queued(k)) /\ (Running(k)' <=> Running(k))
    BY <2>1 DEF Queued, Running, InStartIo
  <2> QED
    BY <2>1, <2>2, ThreadFacts DEF HeldInv, AtWork
<1> QED
  BY <1>1, <1>2, <1>3, <1>4, <1>5 DEF ThreadStep

LEMMA HeldInIrpStep ==
  ASSUME IInv, HeldInv, NEW i \in Irp, IrpStep(i)
  PROVE  HeldInv'
<1>1. CASE Enter(i) \/ SetCancelRoutine(i)
  <2>1. PICK label \in {"called", "marked"} :
          /\ pc[Issuer(i)] \in {"idle", "called"}
          /\ \A u \in Thread : pc'[u] = IF u = Issuer(i) THEN label ELSE pc[u]
          /\ UNCHANGED <<cur, queue, status>>
    BY <1>1 DEF IInv, TypeOK, Enter, SetCancelRoutine, GoTo, device, irps
  <2>2. \A k \in Irp : (Queued(k)' <=> Queued(k)) /\ (Running(k)' <=> Running(k))
    BY <2>1 DEF Queued, Running, InStartIo
  <2> QED
    BY <2>1, <2>2, ThreadFacts DEF HeldInv, AtWork
<1>2. CASE StartPacket(i)
  <2> DEFINE t == Issuer(i)
  <2>1. t \in Thread /\ pc[t] = "marked" /\ status' = status
    BY <1>2, ThreadFacts DEF StartPacket
  <2>2. PICK label \in Label : \A u \in Thread : pc'[u] = IF u = t THEN label ELSE pc[u]
    BY <1>2 DEF IInv, TypeOK, StartPacket, CallStartIo, GoTo, Label
  <2>3. \A u \in Thread : u # t => cur'[u] = cur[u]
    BY <1>2 DEF IInv, TypeOK, StartPacket, CallStartIo, device
  <2>4. \A k \in Irp : Running(k) => Running(k)'
    BY <2>1, <2>2, <2>3 DEF Running, InStartIo
  <2>5. queue' = queue \/ queue' = Append(queue, i)
    BY <1>2 DEF StartPacket, device
  <2>6. \A k \in Irp : Queued(k) => Queued(k)'
    <3>1. /\ Len(queue) \in Nat /\ queue' = Append(queue, i) =>
               /\ Len(queue') = Len(queue) + 1
               /\ \A k \in 1..Len(queue) : queue'[k] = queue[k]
      BY AppendQueue DEF IInv, TypeOK
    <3> QED
      BY <2>5, <3>1 DEF Queued
  <2>7. Queued(i)' \/ Running(i)' \/ pc'[t] = "complete"
    <3>1. CASE ~busy
      <4>1. pc'[t] = "startio" /\ cur'[t] = i
        BY <1>2, <2>1, <3>1 DEF IInv, TypeOK, StartPacket, CallStartIo, GoTo
      <4> QED
        BY <2>1, <4>1 DEF Running, InStartIo
    <3>2. CASE queue' = Append(queue, i)
      BY <3>2, AppendQueue DEF IInv, TypeOK, Queued
    <3>3. CASE pc' = [pc EXCEPT ![t] = "complete"]
      BY <2>1, <3>3 DEF IInv, TypeOK
    <3> QED
      BY <1>2, <3>1, <3>2, <3>3 DEF StartPacket, GoTo
  <2> QED
    BY <2>1, <2>2, <2>4, <2>6, <2>7, ThreadFacts DEF HeldInv, AtWork
<1>3. CASE CancelIrp(i)
  <2> DEFINE t == Canceller(i)
  <2>1. /\ t \in Thread /\ pc[t] = "idle" /\ cur' = cur
        /\ \A k \in Irp : k # i => status'[k] = status[k]
    BY <1>3, ThreadFacts DEF IInv, TypeOK, CancelIrp, CancelReadIrp, onCancelIrp, Complete
  <2>2. PICK label \in {"done", "next", "complete"} :
          /\ \A u \in Thread : pc'[u] = IF u = t THEN label ELSE pc[u]
          /\ label = "done" => queue' = queue /\ (status' = status \/ status'[i] = "CANCELLED")
    <3>1. CASE routine[i] = "none"
      BY <1>3, <2>1, <3>1 DEF IInv, TypeOK, CancelIrp, GoTo
    <3>2. CASE routine[i] = "CancelReadIrp"
      BY <1>3, <2>1, <3>2 DEF IInv, TypeOK, CancelIrp, CancelReadIrp, Complete, GoTo
    <3>3. CASE routine[i] = "onCancelIrp" /\ i = CurrentIrp
      BY <1>3, <2>1, <3>3 DEF IInv, TypeOK, CancelIrp, onCancelIrp, GoTo
    <3>4. CASE routine[i] = "onCancelIrp" /\ i # CurrentIrp
      BY <1>3, <2>1, <3>4 DEF IInv, TypeOK, CancelIrp, onCancelIrp, GoTo
    <3> QED
      BY <1>3, <3>1, <3>2, <3>3, <3>4 DEF CancelIrp
  <2>3. queue' = queue \/ queue' = RemoveFirst(queue, i)
    BY <1>3 DEF CancelIrp, CancelReadIrp, onCancelIrp
  <2>4. \A k \in Irp : k # i /\ Queued(k) => Queued(k)'
    BY <2>3, RemoveFirstKeeps DEF IInv, TypeOK, PlaceInv, Queued
  <2>5. \A k \in Irp : Running(k)' <=> Running(k)
    BY <2>1, <2>2 DEF Running, InStartIo
  <2>6. label = "done" => (Queued(i)' <=> Queued(i))
    BY <2>2 DEF Queued
  <2> QED
    BY <2>1, <2>2, <2>4, <2>5, <2>6, ThreadFacts DEF HeldInv, AtWork
<1> QED
  BY <1>1, <1>2, <1>3 DEF IrpStep

\* Whatever is cancelled and in whatever order, no read is left pending with
\* nobody to complete it (DeviceStartIO.cpp:26 and 88, DeviceCancelIrp.cpp:21).
THEOREM NoReadForgotten == Spec => []NoneForgotten
<1>1. Init => HeldInv
  BY ThreadFacts DEF Init, HeldInv
<1>2. IInv /\ HeldInv /\ [Next]_vars => HeldInv'
  <2>1. UNCHANGED vars /\ HeldInv => HeldInv'
    BY DEF vars, device, irps, HeldInv, AtWork, Queued, Running, InStartIo
  <2> QED
    BY <2>1, HeldInThreadStep, HeldInIrpStep DEF Next
<1>3. IInv /\ HeldInv => NoneForgotten
  <2> SUFFICES ASSUME IInv, HeldInv, \A t \in Thread : ~AtWork(t),
                      NEW i \in Irp, pc[Issuer(i)] = "done", status[i] = "PENDING"
               PROVE  FALSE
    BY DEF NoneForgotten
  <2>1. ~Queued(i)
    BY DEF IInv, NoStranded, Serving, AtWork, Queued
  <2>2. ~Running(i)
    BY DEF Running, InStartIo, AtWork
  <2> QED
    BY <2>1, <2>2, ThreadFacts DEF HeldInv
<1> QED
  BY <1>1, <1>2, <1>3, Invariance, PTL DEF Spec

(***************************************************************************)
(* The theorems when nobody cancels.                                       *)
(***************************************************************************)

\* One thread at most serves the queue, the queue is busy while it does, and
\* the IRP in StartIo is the device's current one.
SerialInv ==
  /\ \A i \in Irp : ~cancel[i]
  /\ \A t, u \in Thread : Serving(t) /\ Serving(u) => t = u
  /\ \A t \in Thread : Serving(t) => busy
  /\ \A t \in Thread : InStartIo(t) => cur[t] = CurrentIrp

LEMMA NextSerialInv ==
  ASSUME Cancellable = {}
  PROVE  IInv /\ SerialInv /\ [Next]_vars => SerialInv'
<1> SUFFICES ASSUME IInv, SerialInv, [Next]_vars PROVE SerialInv'
  OBVIOUS
<1>1. \A i \in Irp : pc[Canceller(i)] = "idle" /\ pc[Issuer(i)] # "complete"
  BY DEF IInv, UncancelledInv, SerialInv
<1>2. ASSUME NEW i \in Irp, SetCancelRoutine(i) PROVE SerialInv'
  <2>1. \A u \in Thread : pc'[u] = IF u = Issuer(i) THEN "marked" ELSE pc[u]
    BY <1>2 DEF IInv, TypeOK, SetCancelRoutine, GoTo
  <2> QED
    BY <1>2, <2>1, ThreadFacts DEF SerialInv, SetCancelRoutine, device, Serving, InStartIo
<1>3. ASSUME NEW i \in Irp, StartPacket(i) PROVE SerialInv'
  <2> DEFINE t == Issuer(i)
  <2>1. t \in Thread /\ pc[t] = "marked"
    BY <1>3, ThreadFacts DEF StartPacket
  <2>2. CASE ~busy
    <3>1. \A u \in Thread : ~Serving(u)
      BY <2>2 DEF SerialInv
    <3>2. \A u \in Thread : /\ pc'[u] = IF u = t THEN "startio" ELSE pc[u]
                            /\ cur'[u] = IF u = t THEN i ELSE cur[u]
      BY <1>3, <2>2 DEF IInv, TypeOK, StartPacket, CallStartIo, GoTo
    <3> QED
      BY <1>3, <2>1, <2>2, <3>1, <3>2
      DEF SerialInv, StartPacket, CallStartIo, Serving, InStartIo
  <2>3. CASE busy
    <3>1. PICK label \in {"done", "complete"} :
            \A u \in Thread : pc'[u] = IF u = t THEN label ELSE pc[u]
      BY <1>3, <2>3 DEF IInv, TypeOK, StartPacket, GoTo
    <3>2. UNCHANGED <<cur, CurrentIrp, busy, cancel>>
      BY <1>3, <2>3 DEF StartPacket, device
    <3> QED
      BY <2>1, <3>1, <3>2 DEF SerialInv, Serving, InStartIo
  <2> QED
    BY <2>2, <2>3
<1>4. ASSUME NEW t \in Thread, Claim(t) PROVE SerialInv'
  <2>1. \A u \in Thread : pc'[u] = IF u = t THEN "work" ELSE pc[u]
    BY <1>4 DEF IInv, TypeOK, Claim, GoTo
  <2> QED
    BY <1>4, <2>1 DEF SerialInv, Claim, device, Serving, InStartIo
<1>5. ASSUME NEW t \in Thread, Finish(t) PROVE SerialInv'
  <2>1. \A u \in Thread : pc'[u] = IF u = t THEN "next" ELSE pc[u]
    BY <1>5 DEF IInv, TypeOK, Finish, GoTo
  <2> QED
    BY <1>5, <2>1 DEF SerialInv, Finish, device, Serving, InStartIo
<1>6. ASSUME NEW t \in Thread, StartNextPacket(t) PROVE SerialInv'
  <2>1. Serving(t) /\ \A u \in Thread : u # t => ~Serving(u)
    BY <1>6 DEF SerialInv, StartNextPacket, Serving
  <2>2. CASE queue # <<>>
    <3>1. \A u \in Thread : /\ pc'[u] = IF u = t THEN "startio" ELSE pc[u]
                            /\ cur'[u] = IF u = t THEN Head(queue) ELSE cur[u]
      BY <1>6, <2>2 DEF IInv, TypeOK, StartNextPacket, CallStartIo, GoTo
    <3> QED
      BY <1>6, <2>1, <2>2, <3>1
      DEF SerialInv, StartNextPacket, CallStartIo, irps, Serving, InStartIo
  <2>3. CASE queue = <<>>
    <3>1. \A u \in Thread : pc'[u] = IF u = t THEN AfterQueue(t) ELSE pc[u]
      BY <1>6, <2>3 DEF IInv, TypeOK, StartNextPacket, GoTo
    <3>2. \A u \in Thread : ~Serving(u)'
      BY <2>1, <3>1, ThreadFacts DEF Serving
    <3> QED
      BY <1>6, <2>3, <3>2 DEF SerialInv, StartNextPacket, irps, Serving, InStartIo
  <2> QED
    BY <2>2, <2>3
<1>7. ASSUME NEW t \in Thread, CompleteCancelled(t) PROVE SerialInv'
  BY <1>1, <1>7, ThreadFacts DEF CompleteCancelled
<1>8. ASSUME NEW i \in Irp, Enter(i) PROVE SerialInv'
  <2>1. \A u \in Thread : pc'[u] = IF u = Issuer(i) THEN "called" ELSE pc[u]
    BY <1>8 DEF IInv, TypeOK, Enter, GoTo
  <2> QED
    BY <1>8, <2>1, ThreadFacts DEF SerialInv, Enter, device, irps, Serving, InStartIo
<1>9. CASE UNCHANGED vars
  BY <1>9 DEF vars, device, irps, SerialInv, Serving, InStartIo
<1> QED
  BY <1>2, <1>3, <1>4, <1>5, <1>6, <1>7, <1>8, <1>9 DEF Next, IrpStep, ThreadStep, CancelIrp

LEMMA SerialInvariance ==
  ASSUME Cancellable = {}
  PROVE  Spec => [](IInv /\ SerialInv)
<1>1. Init => SerialInv
  BY DEF Init, SerialInv, Serving, InStartIo
<1> QED
  BY <1>1, InitIInv, NextIInv, NextSerialInv, PTL DEF Spec

\* Without cancellation no read is completed twice.
THEOREM NoCancellationHandledOnce ==
  ASSUME Cancellable = {}
  PROVE  Spec => []HandledOnce
<1>1. IInv /\ SerialInv => HandledOnce
  BY DEF IInv, TypeOK, UncancelledInv, SerialInv, HandledOnce
<1> QED
  BY <1>1, SerialInvariance, PTL

\* Without cancellation StartIo serves one IRP at a time (DeviceRead.cpp:120).
THEOREM NoCancellationSerial ==
  ASSUME Cancellable = {}
  PROVE  Spec => []Serial
<1>1. SerialInv => Serial
  BY DEF SerialInv, Serial, Serving
<1> QED
  BY <1>1, SerialInvariance, PTL

(***************************************************************************)
(* Without cancellation every step of the read path is a step of the       *)
(* serial reader or leaves it alone.                                       *)
(***************************************************************************)

InService == \E t \in Thread : InStartIo(t)
Fresh == {i \in Irp : pc[Issuer(i)] \in {"idle", "called", "marked"}}
InServing == IF InService THEN CurrentIrp ELSE NoIrp
Finished == {i \in Irp : status[i] = "SUCCESS"}

LEMMA AbstractVars ==
  /\ Abstract!Init <=> Fresh = Irp /\ queue = <<>> /\ InServing = NoIrp /\ Finished = {}
  /\ Fresh' = Fresh /\ queue' = queue /\ InServing' = InServing /\ Finished' = Finished
       => Abstract!vars' = Abstract!vars
  /\ \A i \in Irp :
       Abstract!Arrive(i) <=>
         /\ i \in Fresh
         /\ Fresh' = Fresh \ {i}
         /\ queue' = Append(queue, i)
         /\ InServing' = InServing /\ Finished' = Finished
  /\ \A i \in Irp :
       Abstract!ArriveIdle(i) <=>
         /\ i \in Fresh
         /\ queue = <<>> /\ InServing = NoIrp
         /\ Fresh' = Fresh \ {i}
         /\ InServing' = i
         /\ queue' = queue /\ Finished' = Finished
  /\ Abstract!Serve <=>
       /\ InServing = NoIrp
       /\ queue # <<>>
       /\ InServing' = Head(queue)
       /\ queue' = Tail(queue)
       /\ Fresh' = Fresh /\ Finished' = Finished
  /\ Abstract!Finish <=>
       /\ InServing # NoIrp
       /\ Finished' = Finished \cup {InServing}
       /\ InServing' = NoIrp
       /\ Fresh' = Fresh /\ queue' = queue
BY DEF Abstract!Init, Abstract!vars, Abstract!Arrive, Abstract!ArriveIdle,
       Abstract!Serve, Abstract!Finish, Fresh, InServing, InService, Finished

LEMMA SerialStep ==
  ASSUME Cancellable = {}, IInv, SerialInv, Next
  PROVE  [Abstract!Next]_(Abstract!vars)
<1>1. \A i \in Irp : pc[Canceller(i)] = "idle" /\ pc[Issuer(i)] # "complete"
  BY DEF IInv, UncancelledInv, SerialInv
<1>2. ASSUME NEW i \in Irp, Enter(i) \/ SetCancelRoutine(i)
      PROVE  Abstract!vars' = Abstract!vars
  <2>1. PICK label \in {"called", "marked"} :
          /\ pc[Issuer(i)] \in {"idle", "called"}
          /\ \A u \in Thread : pc'[u] = IF u = Issuer(i) THEN label ELSE pc[u]
          /\ UNCHANGED <<queue, CurrentIrp, status>>
    BY <1>2 DEF IInv, TypeOK, Enter, SetCancelRoutine, GoTo, device, irps
  <2>2. Fresh' = Fresh /\ (InService' <=> InService)
    BY <2>1, ThreadFacts DEF Fresh, InService, InStartIo
  <2> QED
    BY <2>1, <2>2, AbstractVars DEF InServing, Finished
<1>3. ASSUME NEW i \in Irp, StartPacket(i)
      PROVE  Abstract!Arrive(i) \/ Abstract!ArriveIdle(i)
  <2> DEFINE t == Issuer(i)
  <2>1. /\ t \in Thread /\ pc[t] = "marked" /\ i \in Fresh
        /\ Finished' = Finished /\ status[i] = "PENDING" /\ ~cancel[i]
    BY <1>3, ThreadFacts DEF IInv, TypeOK, UncancelledInv, SerialInv, StartPacket, Fresh, Finished
  <2>2. CASE ~busy
    <3>1. queue = <<>> /\ \A u \in Thread : ~Serving(u)
      BY <2>2 DEF IInv, NoStranded, SerialInv
    <3>2. /\ \A u \in Thread : pc'[u] = IF u = t THEN "startio" ELSE pc[u]
          /\ CurrentIrp' = i /\ queue' = queue
      BY <1>3, <2>2 DEF IInv, TypeOK, StartPacket, CallStartIo, GoTo
    <3>3. ~InService /\ InService'
      BY <2>1, <3>1, <3>2 DEF InService, InStartIo, Serving
    <3>4. Fresh' = Fresh \ {i}
      BY <2>1, <3>2, ThreadFacts DEF Fresh
    <3> QED
      BY <2>1, <3>1, <3>2, <3>3, <3>4, AbstractVars DEF InServing
  <2>3. CASE busy
    <3>1. TRUE \notin CancelSeen(i)
      BY <2>1, PendingCancelSeen DEF IInv
    <3>2. /\ \A u \in Thread : pc'[u] = IF u = t THEN "done" ELSE pc[u]
          /\ CurrentIrp' = CurrentIrp /\ queue' = Append(queue, i)
      BY <1>3, <2>3, <3>1 DEF IInv, TypeOK, StartPacket, GoTo
    <3>3. InService' <=> InService
      BY <2>1, <3>2 DEF InService, InStartIo
    <3>4. Fresh' = Fresh \ {i}
      BY <2>1, <3>2, ThreadFacts DEF Fresh
    <3> QED
      BY <2>1, <3>2, <3>3, <3>4, AbstractVars DEF InServing
  <2> QED
    BY <2>2, <2>3
<1>4. ASSUME NEW t \in Thread, Claim(t)
      PROVE  Abstract!vars' = Abstract!vars
  <2>1. /\ pc[t] = "startio"
        /\ \A u \in Thread : pc'[u] = IF u = t THEN "work" ELSE pc[u]
        /\ UNCHANGED <<queue, CurrentIrp, status>>
    BY <1>4 DEF IInv, TypeOK, Claim, GoTo, device
  <2>2. Fresh' = Fresh /\ (InService' <=> InService)
    BY <2>1, ThreadFacts DEF Fresh, InService, InStartIo
  <2> QED
    BY <2>1, <2>2, AbstractVars DEF InServing, Finished
<1>5. ASSUME NEW t \in Thread, Finish(t) PROVE Abstract!Finish
  <2> DEFINE i == cur[t]
  <2>1. /\ pc[t] = "work" /\ i \in Irp /\ i = CurrentIrp /\ i # NoIrp
        /\ \A u \in Thread : u # t => ~InStartIo(u)
    BY <1>5, IrpAssumption DEF IInv, PlaceInv, SerialInv, Finish, InStartIo, Serving
  <2>2. /\ \A u \in Thread : pc'[u] = IF u = t THEN "next" ELSE pc[u]
        /\ \A k \in Irp : status'[k] = IF k = i THEN "SUCCESS" ELSE status[k]
        /\ UNCHANGED <<queue, CurrentIrp>>
    BY <1>5 DEF IInv, TypeOK, Finish, Complete, GoTo, device
  <2>3. InService /\ ~InService'
    BY <2>1, <2>2 DEF InService, InStartIo
  <2>4. Fresh' = Fresh /\ Finished' = Finished \cup {i}
    BY <2>1, <2>2, ThreadFacts DEF Fresh, Finished
  <2> QED
    BY <2>1, <2>2, <2>3, <2>4, AbstractVars DEF InServing
<1>6. ASSUME NEW t \in Thread, StartNextPacket(t)
      PROVE  Abstract!Serve \/ Abstract!vars' = Abstract!vars
  <2>1. pc[t] = "next" /\ \A u \in Thread : ~InStartIo(u)
    BY <1>6 DEF SerialInv, StartNextPacket, Serving, InStartIo
  <2>2. ~InService /\ Finished' = Finished
    BY <1>6, <2>1 DEF InService, StartNextPacket, irps, Finished
  <2>3. CASE queue # <<>>
    <3>1. /\ \A u \in Thread : pc'[u] = IF u = t THEN "startio" ELSE pc[u]
          /\ CurrentIrp' = Head(queue) /\ queue' = Tail(queue)
      BY <1>6, <2>3 DEF IInv, TypeOK, StartNextPacket, CallStartIo, GoTo
    <3>2. InService' /\ Fresh' = Fresh
      BY <2>1, <3>1, ThreadFacts DEF InService, InStartIo, Fresh
    <3> QED
      BY <2>2, <2>3, <3>1, <3>2, AbstractVars DEF InServing
  <2>4. CASE queue = <<>>
    <3>1. /\ \A u \in Thread : pc'[u] = IF u = t THEN AfterQueue(t) ELSE pc[u]
          /\ queue' = queue
      BY <1>6, <2>4 DEF IInv, TypeOK, StartNextPacket, GoTo
    <3>2. ~InService' /\ Fresh' = Fresh
      BY <2>1, <3>1, ThreadFacts DEF InService, InStartIo, Fresh
    <3> QED
      BY <2>2, <3>1, <3>2, AbstractVars DEF InServing
  <2> QED
    BY <2>3, <2>4
<1>7. ASSUME NEW t \in Thread, CompleteCancelled(t) PROVE FALSE
  BY <1>1, <1>7, ThreadFacts DEF CompleteCancelled
<1>8. ASSUME NEW i \in Irp, CancelIrp(i) PROVE FALSE
  BY <1>8 DEF CancelIrp
<1> QED
  BY <1>2, <1>3, <1>4, <1>5, <1>6, <1>7, <1>8
  DEF Next, IrpStep, ThreadStep, Abstract!Next

\* Without cancellation the read path implements the serial reader: reads
\* wait in the order of IoStartPacket and are served and finished one by one
\* (DeviceRead.cpp:120).  That they are finished at last is left to TLC.
THEOREM NoCancellationServesSerially ==
  ASSUME Cancellable = {}
  PROVE  Spec => Abstract!Service
<1>1. Init => Abstract!Init
  <2> SUFFICES ASSUME Init PROVE Abstract!Init
    OBVIOUS
  <2>1. Fresh = Irp
    BY ThreadFacts DEF Init, Fresh
  <2>2. ~InService
    BY DEF Init, InService, InStartIo
  <2>3. queue = <<>> /\ Finished = {}
    BY DEF Init, Finished
  <2> QED
    BY <2>1, <2>2, <2>3, AbstractVars DEF InServing
<1>2. IInv /\ SerialInv /\ [Next]_vars => [Abstract!Next]_(Abstract!vars)
  <2>1. UNCHANGED vars => Abstract!vars' = Abstract!vars
    BY AbstractVars DEF vars, device, irps, Fresh, InServing, InService, InStartIo, Finished
  <2> QED
    BY <2>1, SerialStep
<1> QED
  BY <1>1, <1>2, SerialInvariance, PTL DEF Spec, Abstract!Service

(***************************************************************************)
(* DriverCallDriver.                                                       *)
(***************************************************************************)

\* A call under way that met no other one is alone and hDevice is its handle;
\* once it is over, or before it began, nothing is open for it.
AloneInv ==
  \A c \in Irp \ crossed :
    /\ Call!Open(c) => /\ \A k \in Irp : Call!Open(k) => k = c
                  /\ <<c, hDevice>> \in file
    /\ \A h \in Handle : <<c, h>> \in file => Call!Open(c) /\ h = hDevice

CallInv == Call!TypeOK /\ Call!StraysOnlyIfCrossed /\ AloneInv

LEMMA InitCallInv == Call!Init => CallInv
BY DEF Call!Init, CallInv, Call!TypeOK, Call!StraysOnlyIfCrossed, AloneInv, Call!Open

\* A step of an open call that leaves handles and files alone.
LEMMA StatementStep ==
  ASSUME CallInv, NEW c \in Irp, Call!Open(c), Call!Use(c),
         NEW label \in {"pending", "waiting", "close"}, Call!GoTo(c, label),
         UNCHANGED <<hDevice, file, event, crossed>>
  PROVE  CallInv'
<1>1. \A k \in Irp : Call!Open(k)' <=> Call!Open(k)
  BY DEF CallInv, Call!TypeOK, Call!Open, Call!GoTo
<1>2. Call!TypeOK'
  BY DEF CallInv, Call!TypeOK, Call!GoTo, Call!Use
<1>3. Call!StraysOnlyIfCrossed'
  BY DEF CallInv, Call!StraysOnlyIfCrossed, AloneInv, Call!Use
<1>4. AloneInv'
  BY <1>1 DEF CallInv, AloneInv
<1> QED
  BY <1>2, <1>3, <1>4 DEF CallInv

LEMMA CreateFileStep ==
  ASSUME CallInv, NEW c \in Irp, Call!CreateFile(c)
  PROVE  CallInv'
<1>1. call[c] = "idle" /\ ~Call!Open(c) /\ UNCHANGED <<event, strayed>>
  BY DEF Call!CreateFile, Call!Open
<1>2. CASE /\ Call!GoTo(c, "returned")
           /\ UNCHANGED <<hDevice, file, crossed>>
  <2>1. \A k \in Irp : Call!Open(k)' <=> Call!Open(k)
    BY <1>1, <1>2 DEF CallInv, Call!TypeOK, Call!Open, Call!GoTo
  <2>2. Call!TypeOK'
    BY <1>1, <1>2 DEF CallInv, Call!TypeOK, Call!GoTo
  <2> QED
    BY <1>1, <1>2, <2>1, <2>2 DEF CallInv, Call!StraysOnlyIfCrossed, AloneInv
<1>3. ASSUME NEW h \in Handle, file' = file \cup {<<c, h>>}, hDevice' = h,
             Call!GoTo(c, "opened"),
             crossed' = IF {k \in Irp : Call!Open(k)} = {} THEN crossed
                        ELSE crossed \cup {k \in Irp : Call!Open(k)} \cup {c}
      PROVE  CallInv'
  <2>1. \A k \in Irp : Call!Open(k)' <=> Call!Open(k) \/ k = c
    BY <1>3 DEF CallInv, Call!TypeOK, Call!Open, Call!GoTo
  <2>2. Call!TypeOK'
    BY <1>1, <1>3 DEF CallInv, Call!TypeOK, Call!GoTo
  <2>3. crossed \subseteq crossed' /\ Call!StraysOnlyIfCrossed'
    BY <1>1, <1>3 DEF CallInv, Call!StraysOnlyIfCrossed
  <2>4. AloneInv'
    <3> SUFFICES ASSUME NEW k \in Irp \ crossed'
                 PROVE  /\ Call!Open(k)' => /\ \A j \in Irp : Call!Open(j)' => j = k
                                       /\ <<k, h>> \in file'
                        /\ \A g \in Handle : <<k, g>> \in file' => Call!Open(k)' /\ g = h
      BY <1>3 DEF AloneInv
    <3>1. k \notin crossed /\ ~Call!Open(k)
      BY <1>3, <2>3
    <3>2. \A g \in Handle : <<k, g>> \notin file
      BY <3>1 DEF CallInv, AloneInv
    <3>3. CASE k = c
      BY <1>3, <2>1, <3>2, <3>3
    <3>4. CASE k # c
      BY <1>3, <2>1, <3>1, <3>2, <3>4
    <3> QED
      BY <3>3, <3>4
  <2> QED
    BY <2>2, <2>3, <2>4 DEF CallInv
<1> QED
  BY <1>2, <1>3 DEF Call!CreateFile

LEMMA CloseStep ==
  ASSUME CallInv, NEW c \in Irp, Call!Close(c)
  PROVE  CallInv'
<1> DEFINE gone == Call!Owners(ProcessOf[c], hDevice) \X {hDevice}
<1>1. /\ Call!Open(c) /\ Call!Use(c) /\ file' = file \ gone /\ event' \subseteq event
      /\ Call!GoTo(c, "returned") /\ UNCHANGED <<hDevice, crossed>>
  BY DEF Call!Close, Call!Open
<1>2. \A k \in Irp : Call!Open(k)' <=> Call!Open(k) /\ k # c
  BY <1>1 DEF CallInv, Call!TypeOK, Call!Open, Call!GoTo
<1>3. Call!TypeOK'
  BY <1>1 DEF CallInv, Call!TypeOK, Call!GoTo, Call!Use
<1>4. Call!StraysOnlyIfCrossed'
  BY <1>1 DEF CallInv, Call!StraysOnlyIfCrossed, AloneInv, Call!Use
<1>5. AloneInv'
  <2> SUFFICES ASSUME NEW k \in Irp \ crossed
               PROVE  /\ ~Call!Open(k)'
                      /\ \A h \in Handle : <<k, h>> \notin file'
    BY <1>1 DEF AloneInv
  <2>1. Call!Open(k) => k = c
    BY <1>1 DEF CallInv, AloneInv
  <2>2. ASSUME NEW h \in Handle, <<k, h>> \in file PROVE <<k, h>> \in gone
    <3>1. Call!Open(k) /\ h = hDevice
      BY <2>2 DEF CallInv, AloneInv
    <3>2. k = c
      BY <2>1, <3>1
    <3> QED
      BY <2>2, <3>1, <3>2 DEF Call!Owners
  <2> QED
    BY <1>1, <1>2, <2>1, <2>2
<1> QED
  BY <1>3, <1>4, <1>5 DEF CallInv

LEMMA NextCallInv == CallInv /\ [Call!Next]_(Call!vars) => CallInv'
<1> SUFFICES ASSUME CallInv, [Call!Next]_(Call!vars) PROVE CallInv'
  OBVIOUS
<1>1. ASSUME NEW c \in Irp, Call!Run(c) PROVE CallInv'
  <2>1. CASE Call!CreateFile(c)
    BY <2>1, CreateFileStep
  <2>2. CASE Call!ReadFile(c)
    BY <2>2, StatementStep DEF Call!ReadFile, Call!Open
  <2>3. CASE Call!Reference(c)
    BY <2>3, StatementStep DEF Call!Reference, Call!Open
  <2>4. CASE Call!Close(c)
    BY <2>4, CloseStep
  <2> QED
    BY <1>1, <2>1, <2>2, <2>3, <2>4 DEF Call!Run
<1>2. ASSUME NEW c \in Irp, Call!WaitEnds(c) PROVE CallInv'
  <2>1. \A k \in Irp : Call!Open(k)' <=> Call!Open(k)
    BY <1>2 DEF CallInv, Call!TypeOK, Call!Open, Call!WaitEnds, Call!GoTo
  <2>2. Call!TypeOK'
    BY <1>2 DEF CallInv, Call!TypeOK, Call!WaitEnds, Call!GoTo
  <2> QED
    BY <1>2, <2>1, <2>2 DEF CallInv, Call!StraysOnlyIfCrossed, AloneInv, Call!WaitEnds
<1>3. ASSUME NEW p \in WithEvents, Call!OwnEvent(p) PROVE CallInv'
  BY <1>3 DEF Call!OwnEvent, CallInv, Call!TypeOK, Call!StraysOnlyIfCrossed, AloneInv, Call!Open
<1>4. CASE UNCHANGED Call!vars
  BY <1>4 DEF Call!vars, CallInv, Call!TypeOK, Call!StraysOnlyIfCrossed, AloneInv, Call!Open
<1> QED
  BY <1>1, <1>2, <1>3, <1>4 DEF Call!Next

(***************************************************************************)
(* The composition: a step of it is one of the queued read, one of the     *)
(* call, or both at their border.                                          *)
(***************************************************************************)

LEMMA PathStep ==
  PathNext => [Next]_vars /\ [Call!Next]_(Call!vars)
<1> SUFFICES ASSUME PathNext PROVE [Next]_vars /\ [Call!Next]_(Call!vars)
  OBVIOUS
<1>1. ASSUME NEW i \in Irp, InCall(i) PROVE [Next]_vars /\ [Call!Next]_(Call!vars)
  BY <1>1 DEF InCall, Call!Next
<1>2. ASSUME NEW i \in Irp, AfterCall(i) PROVE [Next]_vars /\ [Call!Next]_(Call!vars)
  BY <1>2 DEF AfterCall, PathNext, Next, IrpStep, callVars, Call!vars
<1>3. CASE Elsewhere /\ UNCHANGED callVars
  BY <1>3 DEF Elsewhere, PathNext, Next, IrpStep, callVars, Call!vars
<1>4. CASE (\E p \in WithEvents : Call!OwnEvent(p)) /\ UNCHANGED vars
  BY <1>4 DEF Call!Next
<1> QED
  BY <1>1, <1>2, <1>3, <1>4 DEF PathNext

\* In the composition the queued read behaves as module ReadQueue says.
THEOREM PathImplementsQueue == PathSpec => Spec
<1>1. PathInit => Init
  BY DEF PathInit
<1>2. [PathNext]_pathVars => [Next]_vars
  BY PathStep DEF pathVars
<1> QED
  BY <1>1, <1>2, PTL DEF PathSpec, Spec

LEMMA CallInvariance == PathSpec => []CallInv
<1>1. PathInit => CallInv
  BY InitCallInv DEF PathInit
<1>2. CallInv /\ [PathNext]_pathVars => CallInv'
  BY PathStep, NextCallInv DEF pathVars, callVars, Call!vars
<1> QED
  BY <1>1, <1>2, PTL DEF PathSpec

\* A handle goes astray only between calls that overlap (DeviceRead.cpp:63).
THEOREM StraysNeedOverlap == PathSpec => []StraysOnlyIfCrossed
<1>1. CallInv => StraysOnlyIfCrossed
  BY DEF CallInv, StraysOnlyIfCrossed
<1> QED
  BY <1>1, CallInvariance, PTL

\* A call that met no other one has a handle open exactly while it runs.
THEOREM LoneCallsClose == PathSpec => []NoHandleLost
<1>1. CallInv => NoHandleLost
  BY DEF CallInv, Call!TypeOK, AloneInv, NoHandleLost, Call!NoHandleLost, Call!Open
<1> QED
  BY <1>1, CallInvariance, PTL

\* The calls of the reads behave as module DriverCall says.
THEOREM PathImplementsCalls == PathSpec => Call!Spec
<1>1. PathInit => Call!Init
  BY DEF PathInit
<1>2. [PathNext]_pathVars => [Call!Next]_(Call!vars)
  BY PathStep DEF pathVars, callVars, Call!vars
<1> QED
  BY <1>1, <1>2, PTL DEF PathSpec, Call!Spec

\* What is proved of the queued read holds of Reader as a whole.
THEOREM PathSafety ==
  PathSpec => /\ []OnlyCancelledTwice /\ []NoStranded /\ []QueuedIsFree
              /\ []PendingCanBeCancelled /\ []NoneForgotten /\ ClaimedRunsToSuccess
  BY PathImplementsQueue, UncancelledCompletedOnce, NeverStranded, QueuedReadsAreFree,
     PendingReadsCanBeCancelled, NoReadForgotten, ClaimHolds

\* As long as nobody cancels, Reader as a whole is the serial reader, whatever
\* the second driver answers and whatever the calls do to each other through
\* hDevice (DeviceRead.cpp:63 and 120).
THEOREM PathServesSerially ==
  ASSUME Cancellable = {}
  PROVE  PathSpec => Abstract!Service /\ []HandledOnce /\ []Serial
  BY PathImplementsQueue, NoCancellationServesSerially, NoCancellationHandledOnce,
     NoCancellationSerial

\* The call runs inside Reader, before the IRP gets its cancel routine.
CallPlace ==
  \A i \in Irp :
    /\ pc[Issuer(i)] = "idle" => call[i] = "idle"
    /\ pc[Issuer(i)] \notin {"idle", "called"} => call[i] = "returned"

LEMMA CallLabel ==
  ASSUME Call!TypeOK, NEW i \in Irp, Call!Run(i) \/ Call!WaitEnds(i)
  PROVE  \A k \in Irp : k # i => call'[k] = call[k]
<1>1. PICK label : Call!GoTo(i, label)
  BY DEF Call!Run, Call!CreateFile, Call!ReadFile, Call!Reference, Call!Close, Call!WaitEnds
<1> QED
  BY <1>1 DEF Call!TypeOK, Call!GoTo

\* A read elsewhere in Reader is where it was, except that one may enter it.
LEMMA ElsewherePlaces ==
  ASSUME TypeOK, PlaceInv, Elsewhere, NEW k \in Irp
  PROVE  /\ pc'[Issuer(k)] = "idle" => pc[Issuer(k)] = "idle"
         /\ pc'[Issuer(k)] \notin {"idle", "called"} =>
              pc[Issuer(k)] \notin {"idle", "called"}
<1>1. ASSUME NEW i \in Irp, Enter(i)
      PROVE  \A u \in Thread : pc'[u] = IF u = Issuer(i) THEN "called" ELSE pc[u]
  BY <1>1 DEF TypeOK, Enter, GoTo
<1>2. ASSUME NEW i \in Irp, StartPacket(i)
      PROVE  /\ pc[Issuer(i)] = "marked"
             /\ \E l \in {"startio", "done", "complete"} :
                  \A u \in Thread : pc'[u] = IF u = Issuer(i) THEN l ELSE pc[u]
  BY <1>2 DEF TypeOK, StartPacket, CallStartIo, GoTo
<1>3. ASSUME NEW i \in Irp, CancelIrp(i)
      PROVE  \A u \in Thread : u # Canceller(i) => pc'[u] = pc[u]
  BY <1>3 DEF TypeOK, CancelIrp, CancelReadIrp, onCancelIrp, GoTo
<1>4. ASSUME NEW t \in Thread, ThreadStep(t)
      PROVE  /\ pc[t] \in {"startio", "work", "next", "complete"}
             /\ \E l \in Label \ {"idle", "called"} :
                  \A u \in Thread : pc'[u] = IF u = t THEN l ELSE pc[u]
  <2>1. PICK l \in Label \ {"idle", "called"} : pc' = [pc EXCEPT ![t] = l]
    <3>1. CASE Claim(t) \/ Finish(t) \/ CompleteCancelled(t)
      BY <3>1 DEF Claim, Finish, CompleteCancelled, GoTo, Label
    <3>2. CASE StartNextPacket(t)
      BY <3>2, ThreadFacts DEF StartNextPacket, CallStartIo, GoTo, Label
    <3> QED
      BY <1>4, <3>1, <3>2 DEF ThreadStep
  <2>2. pc[t] \in {"startio", "work", "next", "complete"}
    BY <1>4 DEF ThreadStep, Claim, Finish, StartNextPacket, CompleteCancelled
  <2> QED
    BY <2>1, <2>2 DEF TypeOK
<1> QED
  BY <1>1, <1>2, <1>3, <1>4, ThreadFacts DEF Elsewhere

LEMMA CallPlaceInvariance == PathSpec => []CallPlace
<1>1. PathInit => CallPlace
  BY ThreadFacts DEF PathInit, Init, Call!Init, CallPlace
<1>2. IInv /\ CallInv /\ CallPlace /\ [PathNext]_pathVars => CallPlace'
  <2> SUFFICES ASSUME IInv, CallInv, CallPlace, [PathNext]_pathVars PROVE CallPlace'
    OBVIOUS
  <2>1. ASSUME NEW i \in Irp, InCall(i) PROVE CallPlace'
    BY <2>1, CallLabel DEF InCall, CallInv, CallPlace, vars
  <2>2. ASSUME NEW i \in Irp, AfterCall(i) PROVE CallPlace'
    <3>1. \A u \in Thread : pc'[u] = IF u = Issuer(i) THEN "marked" ELSE pc[u]
      BY <2>2 DEF AfterCall, SetCancelRoutine, GoTo, IInv, TypeOK
    <3> QED
      BY <2>2, <3>1, ThreadFacts DEF AfterCall, callVars, CallPlace
  <2>3. CASE Elsewhere /\ UNCHANGED callVars
    BY <2>3, ElsewherePlaces DEF IInv, callVars, CallPlace
  <2>4. ASSUME NEW p \in WithEvents, Call!OwnEvent(p), UNCHANGED vars PROVE CallPlace'
    BY <2>4 DEF Call!OwnEvent, vars, CallPlace
  <2>5. CASE UNCHANGED pathVars
    BY <2>5 DEF pathVars, callVars, vars, CallPlace
  <2> QED
    BY <2>1, <2>2, <2>3, <2>4, <2>5 DEF PathNext
<1> QED
  BY <1>1, <1>2, CallInvariance, PathImplementsQueue, Invariance, PTL DEF PathSpec

\* A read that met no other one in its call has no file open any more when it
\* can be cancelled, waits in the device queue or is served.
QueuedHoldsNoHandle ==
  \A i \in Irp \ crossed :
    pc[Issuer(i)] \notin {"idle", "called"} => \A h \in Handle : <<i, h>> \notin file

\* DriverCallDriver has closed what it opened before IoSetCancelRoutine
\* (DeviceRead.cpp:101 and 116).
THEOREM QueuedReadsHoldNoHandle == PathSpec => []QueuedHoldsNoHandle
<1>1. CallInv /\ CallPlace => QueuedHoldsNoHandle
  BY DEF CallInv, AloneInv, CallPlace, QueuedHoldsNoHandle, Call!Open
<1> QED
  BY <1>1, CallInvariance, CallPlaceInvariance, PTL
=============================================================================
