------------------------ MODULE DeviceControlProofs ------------------------
(***************************************************************************)
(* Proofs about the requests of HelloWDMDeviceIoControl: IOCTL_TEST1 with  *)
(* its questions to ACPI, for any callers, children and pool, and the port *)
(* requests that read the PCI configuration space, for any callers, slots  *)
(* and registers.                                                          *)
(***************************************************************************)
EXTENDS AcpiRequests, PciAccess, TLAPS

(***************************************************************************)
(* IOCTL_TEST1.                                                            *)
(***************************************************************************)

\* The driver below holds an IRP only for a caller that waits, and has not
\* written to its buffer; the code of the request decides where it goes.
WaitInv ==
  \A c \in Caller :
    /\ below[c] = "holding" =>
         pc[c] \in {"sizing", "fetching", "evaluating"} /\ out[c] = Zeroed
    /\ pc[c] \in {"sizing", "fetching", "loop"} => option[c] = "enum"
    /\ pc[c] \in {"evaluating", "report"} => option[c] # "enum"
    /\ pc[c] = "sizing" => size[c] = StructSize

\* What an enumeration during which no child came or went has learnt: the
\* size, then a buffer of that size, then as many children as ACPI has.
EnumInv ==
  \A c \in Caller \ moved :
    /\ pc[c] = "sizing" /\ out[c].signed => out[c].number = Size(children)
    /\ pc[c] = "fetching" =>
         /\ size[c] = Size(children)
         /\ out[c].signed => out[c].number = children /\ out[c].held = children
    /\ pc[c] = "loop" => out[c].number = out[c].held /\ Size(out[c].held) <= size[c]

\* A loop that left its buffer was the last step, of an enumeration whose
\* children moved.
BeyondInv == beyond => \E c \in moved : option[c] = "enum" /\ pc[c] = "complete"

AcpiInv == TypeOK /\ WaitInv /\ EnumInv /\ BeyondInv

Answer ==
  [signed : BOOLEAN, number : 0..Size(MaxChildren), held : 0..MaxChildren,
   type : {"integer", "other"}]

\* A zeroed buffer and both sizes are in their types.
LEMMA SizeFacts ==
  /\ Zeroed \in Answer /\ ~Zeroed.signed
  /\ StructSize \in 0..Size(MaxChildren)
  /\ \A n \in 0..MaxChildren : Size(n) \in 0..Size(MaxChildren)
  /\ \A n \in 1..MaxChildren : Size(n) > StructSize
BY BoundAssumption DEF Zeroed, Answer, StructSize, Size

LEMMA InitAcpiInv == Init => AcpiInv
<1> SUFFICES ASSUME Init PROVE AcpiInv
  OBVIOUS
<1>1. TypeOK
  <2>1. out \in [Caller -> Answer] /\ size \in [Caller -> 0..Size(MaxChildren)]
    BY SizeFacts, BoundAssumption DEF Init, Size
  <2>2. pool \in 0..Pool /\ children \in 1..MaxChildren
    BY BoundAssumption DEF Init
  <2>3. beyond \in BOOLEAN
    BY DEF Init
  <2>4. /\ pc \in [Caller -> {"idle", "sizing", "fetching", "loop", "evaluating",
                             "report", "complete"}]
        /\ option \in [Caller -> Option] /\ below \in [Caller -> {"idle", "holding"}]
        /\ moved \in SUBSET Caller
    BY DEF Init, Option
  <2> QED
    BY <2>1, <2>2, <2>3, <2>4, Zenon DEF TypeOK, Answer
<1> QED
  BY <1>1 DEF Init, AcpiInv, WaitInv, EnumInv, BeyondInv

LEMMA AcpiAnswersStep ==
  ASSUME AcpiInv, ~beyond, NEW c \in Caller, AcpiAnswers(c)
  PROVE  AcpiInv'
<1>1. /\ pc[c] \in {"sizing", "fetching", "evaluating"} /\ out[c] = Zeroed
      /\ below' = [below EXCEPT ![c] = "idle"]
      /\ UNCHANGED <<pc, option, size, children, pool, moved, beyond>>
  BY DEF AcpiAnswers, AcpiInv, WaitInv
<1>2. PICK a : /\ out' = [out EXCEPT ![c] = a]
               /\ a \in Answer
               /\ \/ a = Zeroed
                  \/ option[c] = "enum" /\ a = Children(c)
                  \/ option[c] = "method"
  <2>1. CASE UNCHANGED out
    BY <1>1, <2>1, SizeFacts DEF AcpiInv, TypeOK
  <2>2. CASE option[c] = "enum" /\ out' = [out EXCEPT ![c] = Children(c)]
    <3>1. children \in 0..MaxChildren /\ Size(children) \in 0..Size(MaxChildren)
      BY SizeFacts, BoundAssumption DEF AcpiInv, TypeOK
    <3>2. Children(c) \in Answer
      <4>1. CASE Size(children) > size[c]
        <5>1. Children(c) = [Zeroed EXCEPT !.signed = TRUE, !.number = Size(children)]
          BY <4>1 DEF Children
        <5> QED
          BY <3>1, <5>1, SizeFacts DEF Answer
      <4>2. CASE ~(Size(children) > size[c])
        <5>1. children \in 0..Size(MaxChildren)
          BY <3>1, BoundAssumption DEF Size
        <5> QED
          BY <3>1, <4>2, <5>1 DEF Children, Zeroed, Answer
      <4> QED
        BY <4>1, <4>2
    <3> QED
      BY <2>2, <3>2
  <2>3. ASSUME option[c] = "method", NEW t \in {"integer", "other"},
               out' = [out EXCEPT ![c].signed = TRUE, ![c].type = t]
        PROVE  \E a \in Answer : out' = [out EXCEPT ![c] = a]
    <3>1. [Zeroed EXCEPT !.signed = TRUE, !.type = t] \in Answer
      BY SizeFacts DEF Answer
    <3> QED
      BY <1>1, <2>3, <3>1 DEF AcpiInv, TypeOK
  <2> QED
    BY <2>1, <2>2, <2>3 DEF AcpiAnswers
<1>3. \A k \in Caller : /\ out'[k] = IF k = c THEN a ELSE out[k]
                        /\ below'[k] = IF k = c THEN "idle" ELSE below[k]
  BY <1>1, <1>2 DEF AcpiInv, TypeOK
<1>4. TypeOK'
  BY <1>1, <1>2 DEF AcpiInv, TypeOK, Answer
<1>5. WaitInv'
  BY <1>1, <1>3 DEF AcpiInv, WaitInv
<1>6. EnumInv'
  <2>1. ASSUME c \notin moved, pc[c] = "sizing", a.signed PROVE a.number = Size(children)
    <3>1. a = Children(c) /\ Size(children) > size[c]
      BY <1>1, <1>2, <2>1, SizeFacts DEF AcpiInv, TypeOK, WaitInv
    <3> QED
      BY <3>1 DEF Children, Zeroed
  <2>2. ASSUME c \notin moved, pc[c] = "fetching", a.signed
        PROVE  a.number = children /\ a.held = children
    <3>1. a = Children(c) /\ size[c] = Size(children)
      BY <1>1, <1>2, <2>2, SizeFacts DEF AcpiInv, WaitInv, EnumInv
    <3>2. ~(Size(children) > size[c])
      BY <3>1 DEF AcpiInv, TypeOK, Size
    <3> QED
      BY <3>1, <3>2 DEF Children, Zeroed
  <2> QED
    BY <1>1, <1>3, <2>1, <2>2 DEF AcpiInv, EnumInv
<1>7. BeyondInv'
  BY <1>1 DEF AcpiInv, BeyondInv
<1> QED
  BY <1>4, <1>5, <1>6, <1>7 DEF AcpiInv

LEMMA ChildrenChangeStep ==
  ASSUME AcpiInv, ~beyond, ChildrenChange
  PROVE  AcpiInv'
<1>1. TypeOK'
  BY DEF AcpiInv, TypeOK, ChildrenChange
<1>2. WaitInv'
  BY DEF AcpiInv, WaitInv, ChildrenChange
<1>3. \A c \in Caller \ moved' : pc[c] \notin {"sizing", "fetching", "loop"}
  BY DEF AcpiInv, WaitInv, ChildrenChange
<1>4. EnumInv'
  BY <1>3 DEF EnumInv, ChildrenChange
<1>5. BeyondInv'
  BY DEF AcpiInv, BeyondInv, ChildrenChange
<1> QED
  BY <1>1, <1>2, <1>4, <1>5 DEF AcpiInv

LEMMA RequestStep ==
  ASSUME AcpiInv, ~beyond, NEW c \in Caller, Request(c)
  PROVE  AcpiInv'
<1>1. PICK o \in Option, sent \in {"holding", "idle"} :
        /\ option' = [option EXCEPT ![c] = o]
        /\ pc' = [pc EXCEPT ![c] = IF o = "enum" THEN "sizing" ELSE "evaluating"]
        /\ below' = [below EXCEPT ![c] = sent]
  BY DEF Request, GoTo, SendDownStreamIrp
<1>2. /\ out' = [out EXCEPT ![c] = Zeroed]
      /\ size' = [size EXCEPT ![c] = StructSize]
      /\ moved' = moved \ {c}
      /\ UNCHANGED <<children, pool, beyond>>
  BY DEF Request, SendDownStreamIrp
<1>3. TypeOK'
  BY <1>1, <1>2, SizeFacts DEF AcpiInv, TypeOK, Answer
<1>4. \A k \in Caller :
        /\ k = c => /\ pc'[k] = (IF o = "enum" THEN "sizing" ELSE "evaluating")
                    /\ option'[k] = o /\ out'[k] = Zeroed /\ size'[k] = StructSize
        /\ k # c => /\ pc'[k] = pc[k] /\ option'[k] = option[k]
                    /\ below'[k] = below[k] /\ out'[k] = out[k] /\ size'[k] = size[k]
  BY <1>1, <1>2 DEF AcpiInv, TypeOK
<1>5. WaitInv'
  BY <1>4 DEF AcpiInv, WaitInv
<1>6. EnumInv'
  BY <1>2, <1>4, SizeFacts DEF AcpiInv, EnumInv
<1>7. BeyondInv'
  BY <1>2 DEF BeyondInv
<1> QED
  BY <1>3, <1>5, <1>6, <1>7 DEF AcpiInv

LEMMA AllocateChildrenStep ==
  ASSUME AcpiInv, ~beyond, NEW c \in Caller, AllocateChildren(c)
  PROVE  AcpiInv'
<1> DEFINE wanted == out[c].number
<1>1. /\ pc[c] = "sizing" /\ below[c] = "idle" /\ option[c] = "enum"
      /\ UNCHANGED <<option, children, moved, beyond>>
  BY DEF AllocateChildren, Answered, AcpiInv, WaitInv
<1>2. CASE /\ out[c].signed /\ wanted >= StructSize /\ wanted <= pool
           /\ pool' = pool - wanted
           /\ SendDownStreamIrp(c, wanted)
           /\ GoTo(c, "fetching")
  <2>1. PICK sent \in {"holding", "idle"} : below' = [below EXCEPT ![c] = sent]
    BY <1>2 DEF SendDownStreamIrp
  <2>2. /\ out' = [out EXCEPT ![c] = Zeroed]
        /\ size' = [size EXCEPT ![c] = wanted]
        /\ pc' = [pc EXCEPT ![c] = "fetching"]
    BY <1>2 DEF SendDownStreamIrp, GoTo
  <2>3. wanted \in 0..Size(MaxChildren)
    BY DEF AcpiInv, TypeOK
  <2>4. pool' \in 0..Pool
    BY <1>2, <2>3, BoundAssumption DEF AcpiInv, TypeOK, Size
  <2>5. TypeOK'
    BY <1>1, <2>1, <2>2, <2>3, <2>4, SizeFacts DEF AcpiInv, TypeOK, Answer
  <2>6. \A k \in Caller :
          /\ k = c => /\ pc'[k] = "fetching" /\ out'[k] = Zeroed /\ size'[k] = wanted
          /\ k # c => /\ pc'[k] = pc[k] /\ below'[k] = below[k]
                      /\ out'[k] = out[k] /\ size'[k] = size[k]
    BY <2>1, <2>2 DEF AcpiInv, TypeOK
  <2>7. WaitInv'
    BY <1>1, <2>6 DEF AcpiInv, WaitInv
  <2>8. EnumInv'
    BY <1>1, <1>2, <2>6, SizeFacts DEF AcpiInv, EnumInv
  <2>9. BeyondInv'
    BY <1>1 DEF BeyondInv
  <2> QED
    BY <2>5, <2>7, <2>8, <2>9 DEF AcpiInv
<1>3. CASE GoTo(c, "complete") /\ UNCHANGED <<pool, out, size, below>>
  <2>1. \A k \in Caller : pc'[k] = IF k = c THEN "complete" ELSE pc[k]
    BY <1>3 DEF AcpiInv, TypeOK, GoTo
  <2>2. TypeOK'
    BY <1>1, <1>3 DEF AcpiInv, TypeOK, GoTo
  <2> QED
    BY <1>1, <1>3, <2>1, <2>2 DEF AcpiInv, WaitInv, EnumInv, BeyondInv
<1> QED
  BY <1>2, <1>3 DEF AllocateChildren

\* Steps that only send a caller on.
LEMMA GoOnStep ==
  ASSUME AcpiInv, ~beyond, NEW c \in Caller,
         NEW label \in {"loop", "report", "complete"}, GoTo(c, label),
         below[c] = "idle",
         label = "loop" => pc[c] = "fetching" /\ out[c].signed,
         label = "report" => pc[c] = "evaluating",
         UNCHANGED <<option, below, out, size, children, pool, moved>>,
         beyond' \in BOOLEAN,
         beyond' => c \in moved /\ option[c] = "enum" /\ label = "complete"
  PROVE  AcpiInv'
<1>1. \A k \in Caller : pc'[k] = IF k = c THEN label ELSE pc[k]
  BY DEF AcpiInv, TypeOK, GoTo
<1>2. TypeOK'
  BY DEF AcpiInv, TypeOK, GoTo
<1>3. WaitInv'
  BY <1>1 DEF AcpiInv, WaitInv
<1>4. EnumInv'
  <2>1. Size(children) <= Size(children)
    BY DEF AcpiInv, TypeOK, Size
  <2> QED
    BY <1>1, <2>1 DEF AcpiInv, EnumInv
<1>5. BeyondInv'
  BY <1>1 DEF BeyondInv
<1> QED
  BY <1>2, <1>3, <1>4, <1>5 DEF AcpiInv

LEMMA ContinueStep ==
  ASSUME AcpiInv, ~beyond, NEW c \in Caller, Continue(c)
  PROVE  AcpiInv'
<1>1. CASE AllocateChildren(c)
  BY <1>1, AllocateChildrenStep
<1>2. CASE VerifyChildren(c)
  BY <1>2, GoOnStep DEF VerifyChildren, Answered, AcpiInv, TypeOK
<1>3. CASE Loop(c)
  <2>1. pc[c] = "loop" /\ below[c] = "idle" /\ option[c] = "enum"
    BY <1>3 DEF Loop, AcpiInv, TypeOK, WaitInv
  <2>2. c \notin moved => out[c].number = out[c].held
    BY <2>1 DEF AcpiInv, EnumInv
  <2>3. beyond' <=> out[c].number > out[c].held
    BY <1>3 DEF Loop
  <2>4. beyond' => c \in moved
    BY <2>2, <2>3 DEF AcpiInv, TypeOK, Size
  <2>5. beyond' \in BOOLEAN
    BY <1>3, Zenon DEF Loop
  <2> QED
    BY <1>3, <2>1, <2>4, <2>5, GoOnStep DEF Loop
<1>4. CASE CrackResult(c)
  BY <1>4, GoOnStep DEF CrackResult, Answered, AcpiInv, TypeOK
<1>5. CASE Report(c)
  BY <1>5, GoOnStep DEF Report, AcpiInv, WaitInv, TypeOK
<1>6. CASE Complete(c)
  <2>1. \A k \in Caller : /\ pc'[k] = IF k = c THEN "idle" ELSE pc[k]
                          /\ out'[k] = IF k = c THEN Zeroed ELSE out[k]
                          /\ size'[k] = IF k = c THEN 0 ELSE size[k]
    BY <1>6 DEF AcpiInv, TypeOK, Complete, GoTo
  <2>2. TypeOK'
    BY <1>6, SizeFacts, BoundAssumption DEF AcpiInv, TypeOK, Complete, GoTo, Answer, Size
  <2> QED
    BY <1>6, <2>1, <2>2 DEF AcpiInv, WaitInv, EnumInv, BeyondInv, Complete
<1> QED
  BY <1>1, <1>2, <1>3, <1>4, <1>5, <1>6 DEF Continue

LEMMA NextAcpiInv == AcpiInv /\ [Next]_vars => AcpiInv'
<1> SUFFICES ASSUME AcpiInv, [Next]_vars PROVE AcpiInv'
  OBVIOUS
<1>1. CASE UNCHANGED vars
  BY <1>1 DEF vars, AcpiInv, TypeOK, WaitInv, EnumInv, BeyondInv
<1> QED
  BY <1>1, ChildrenChangeStep, RequestStep, AcpiAnswersStep, ContinueStep DEF Next

LEMMA AcpiInvariance == Spec => []AcpiInv
BY InitAcpiInv, NextAcpiInv, PTL DEF Spec

\* The variables of the ACPI requests stay in their types; in particular the
\* pool is never overdrawn.
THEOREM TypeCorrect == Spec => []TypeOK
<1>1. AcpiInv => TypeOK
  BY DEF AcpiInv
<1> QED
  BY <1>1, AcpiInvariance, PTL

\* The driver below never holds an IRP of a frame that was left
\* (DeviceIoControl.cpp:100).
THEOREM FramesOutliveRequests == Spec => []FrameOutlivesRequest
<1>1. AcpiInv => FrameOutlivesRequest
  BY DEF AcpiInv, WaitInv, FrameOutlivesRequest
<1> QED
  BY <1>1, AcpiInvariance, PTL

\* The loop over the children stays inside its buffer when no child came or
\* went during the enumeration (DeviceIoControl.cpp:428).
THEOREM LoopsStayInBounds == Spec => []LoopInBounds
<1>1. AcpiInv => LoopInBounds
  BY DEF AcpiInv, EnumInv, LoopInBounds
<1> QED
  BY <1>1, AcpiInvariance, PTL

BeyondOnlyIfMoved == beyond => \E c \in moved : option[c] = "enum"

\* A loop that did leave its buffer is that of an enumeration whose children
\* moved between its two requests (DeviceIoControl.cpp:384 and 428); nobody
\* else's answer can cause it.
THEOREM BeyondNeedsMove == Spec => []BeyondOnlyIfMoved
<1>1. AcpiInv => BeyondOnlyIfMoved
  BY DEF AcpiInv, BeyondInv, BeyondOnlyIfMoved
<1> QED
  BY <1>1, AcpiInvariance, PTL

(***************************************************************************)
(* The port pair of the PCI configuration space (module PciAccess).        *)
(***************************************************************************)

Location == [dev : Nat, fun : Nat] \X Register

PciTypeOK ==
  /\ place \in [Application -> {"idle", "in", "out", "shown", "readConfig", "configured",
                           "failed"}]
  /\ slot \in [Application -> Slot]
  /\ i \in [Application -> Register]
  /\ latch \in Location
  /\ shown \in [Application -> [Register -> Location]]
  /\ crossed \in SUBSET Application

\* An application nobody crossed finds its address where it wrote it, and what it
\* has read so far was read from there.
AddressedInv ==
  \A c \in Application \ crossed :
    place[c] = "in" => latch = Address(slot[c], i[c])

PciInv == PciTypeOK /\ AddressedInv /\ MixedOnlyIfCrossed

\* Whatever bits a slot has, an address is a location.
LEMMA AddressFacts ==
  ASSUME NEW s \in Slot, NEW r \in Register
  PROVE  Address(s, r) \in Location
<1>1. /\ DevBits \in Nat /\ FunBits \in Nat \ {0}
      /\ s.dev \in Nat /\ s.fun \in Nat
  BY BitsAssumption DEF Slot
<1>2. DevBits * s.fun \in Nat
  BY <1>1
<1>3. AsULONG(s) \in Nat
  BY <1>1, <1>2 DEF AsULONG
<1>4. \A n \in Nat : n \div FunBits \in Nat /\ n % FunBits \in Nat
  BY <1>1
<1> QED
  BY <1>3, <1>4 DEF Address, Decoded, Location

LEMMA InitPciInv ==
  ASSUME PciInit
  PROVE  PciInv
<1>1. 0 \in Register
  BY BitsAssumption DEF Register
<1>2. latch \in Location
  BY <1>1 DEF PciInit, Location
<1> QED
  BY <1>1, <1>2 DEF PciInit, PciInv, PciTypeOK, AddressedInv, MixedOnlyIfCrossed,
     Register

LEMMA OutAddressStep ==
  ASSUME PciInv, NEW c \in Application, OutAddress(c)
  PROVE  PciInv'
<1>1. /\ place[c] \in {"idle", "out"}
      /\ latch' = Address(slot[c], i[c])
      /\ UNCHANGED <<slot, i, shown, config>>
  BY DEF OutAddress, WritePort
<1>2. \A k \in Application : place'[k] = IF k = c THEN "in" ELSE place[k]
  BY DEF PciInv, PciTypeOK, OutAddress, MoveTo
<1>3. /\ crossed \subseteq crossed' /\ crossed' \subseteq Application
      /\ \A k \in Application \ crossed' :
           k # c /\ place[k] = "in" => latch' = Address(slot[k], i[k])
  BY DEF PciInv, PciTypeOK, OutAddress
<1>4. PciTypeOK'
  BY <1>1, <1>3, AddressFacts DEF PciInv, PciTypeOK, OutAddress, MoveTo
<1>5. AddressedInv'
  BY <1>1, <1>2, <1>3 DEF AddressedInv
<1>6. MixedOnlyIfCrossed'
  BY <1>1, <1>2, <1>3 DEF PciInv, MixedOnlyIfCrossed
<1> QED
  BY <1>4, <1>5, <1>6 DEF PciInv

LEMMA InDataStep ==
  ASSUME PciInv, NEW c \in Application, InData(c)
  PROVE  PciInv'
<1>1. /\ place[c] = "in" /\ i[c] \in Register
      /\ shown' = [shown EXCEPT ![c][i[c]] = latch]
      /\ UNCHANGED <<slot, latch, config, crossed>>
  BY DEF PciInv, PciTypeOK, InData, ReadPort
<1>2. PICK label \in {"shown", "out"} :
        /\ place' = [place EXCEPT ![c] = label]
        /\ label = "shown" => i[c] + 1 = Registers /\ i' = i
        /\ label = "out" => i[c] + 1 # Registers /\ i' = [i EXCEPT ![c] = i[c] + 1]
  BY DEF InData, MoveTo
<1>3. /\ Registers \in Nat /\ i[c] \in Nat /\ i[c] < Registers
      /\ label = "out" => i[c] + 1 \in Register
  BY <1>1, <1>2, BitsAssumption DEF Register
<1>4. \A k \in Application, r \in Register :
        shown'[k][r] = IF k = c /\ r = i[c] THEN latch ELSE shown[k][r]
  BY <1>1 DEF PciInv, PciTypeOK
<1>5. PciTypeOK'
  <2>1. i' \in [Application -> Register]
    BY <1>2, <1>3 DEF PciInv, PciTypeOK
  <2>2. shown' \in [Application -> [Register -> Location]]
    BY <1>1 DEF PciInv, PciTypeOK
  <2> QED
    BY <1>1, <1>2, <2>1, <2>2 DEF PciInv, PciTypeOK
<1>6. \A k \in Application : k # c => place'[k] = place[k] /\ i'[k] = i[k]
  BY <1>2 DEF PciInv, PciTypeOK
<1>7. place'[c] = label /\ (label = "out" => i'[c] = i[c] + 1)
  BY <1>2 DEF PciInv, PciTypeOK
<1>8. AddressedInv'
  BY <1>1, <1>6, <1>7 DEF PciInv, AddressedInv
<1>9. MixedOnlyIfCrossed'
  <2> SUFFICES ASSUME NEW k \in Application \ crossed, NEW r \in Register,
                      place'[k] = "shown" \/ r < i'[k]
               PROVE  shown'[k][r] = Address(slot[k], r)
    BY <1>1 DEF MixedOnlyIfCrossed
  <2>1. CASE k = c
    <3>1. latch = Address(slot[c], i[c])
      BY <1>1, <2>1 DEF PciInv, AddressedInv
    <3>2. r \in Nat /\ r <= i[c]
      BY <1>2, <1>3, <1>7, <2>1 DEF Register
    <3>3. r # i[c] => shown[c][r] = Address(slot[c], r)
      BY <1>3, <2>1, <3>2 DEF PciInv, MixedOnlyIfCrossed
    <3> QED
      BY <1>4, <2>1, <3>1, <3>3
  <2>2. CASE k # c
    BY <1>4, <1>6, <2>2 DEF PciInv, MixedOnlyIfCrossed
  <2> QED
    BY <2>1, <2>2
<1> QED
  BY <1>5, <1>8, <1>9 DEF PciInv

\* A PCI_CONFIG request never touches the ports.
LEMMA ConfigStep ==
  ASSUME PciInv, NEW c \in Application, ReadWriteConfigSpace(c) \/ WdmPnp(c)
  PROVE  PciInv'
<1>1. /\ place[c] \notin {"in", "shown"}
      /\ UNCHANGED <<slot, i, latch, shown, crossed>>
  BY DEF ReadWriteConfigSpace, WdmPnp
<1>2. PICK label \in {"readConfig", "failed", "configured"} :
        place' = [place EXCEPT ![c] = label]
  BY DEF ReadWriteConfigSpace, WdmPnp, MoveTo
<1>3. \A k \in Application : place'[k] = IF k = c THEN label ELSE place[k]
  BY <1>2 DEF PciInv, PciTypeOK
<1>4. PciTypeOK'
  BY <1>1, <1>2 DEF PciInv, PciTypeOK
<1> QED
  BY <1>1, <1>3, <1>4 DEF PciInv, AddressedInv, MixedOnlyIfCrossed

LEMMA NextPciInv == PciInv /\ [PciNext]_pciVars => PciInv'
<1> SUFFICES ASSUME PciInv, [PciNext]_pciVars PROVE PciInv'
  OBVIOUS
<1>1. CASE UNCHANGED pciVars
  BY <1>1 DEF pciVars, PciInv, PciTypeOK, AddressedInv, MixedOnlyIfCrossed
<1> QED
  BY <1>1, OutAddressStep, InDataStep, ConfigStep DEF PciNext

\* Every register an application shows was read from the slot and register it
\* addressed, unless another one wrote the address port between its two
\* requests (ConsoleApplication1.cpp:154-155).
THEOREM PortsReadWhatWasAddressed == PciSpec => []MixedOnlyIfCrossed
<1>1. PciInit => PciInv
  BY InitPciInv
<1>2. PciInv => MixedOnlyIfCrossed
  BY DEF PciInv
<1> QED
  BY <1>1, <1>2, NextPciInv, PTL DEF PciSpec
=============================================================================
