---------------------------- MODULE DeviceWriter ----------------------------
(***************************************************************************)
(* IRP_MJ_WRITE: Writer (DispatchRoutine.cpp) copies the data of the       *)
(* request into the buffer of the device extension and raises file_length  *)
(* to the end of the data.  Requests of several threads run Writer at the  *)
(* same time; nothing in it is locked, so that the test of file_length and *)
(* its assignment are two steps.                                           *)
(*                                                                         *)
(* Lengths and sums are ULONGs, and the low half of the 64-bit byte offset *)
(* is all that Writer takes of it.                                         *)
(***************************************************************************)
EXTENDS Naturals

CONSTANTS
  Irp,        \* the write IRPs
  Capacity,   \* MAXIMUM_FILENAME_LENGTH, the size of the buffer
  Modulus,    \* 2^32
  MaxOffset   \* the largest byte offset of a request

ASSUME SizeAssumption ==
  /\ Capacity \in Nat /\ Modulus \in Nat /\ MaxOffset \in Nat
  /\ Capacity < Modulus

VARIABLES
  pc,           \* where the thread of each IRP stands in Writer
  offset,       \* ulWriteOffset
  length,       \* ulWriteLength
  file_length,  \* pDevExt->file_length
  information,  \* Irp->IoStatus.Information
  raced         \* history: IRPs whose test or assignment met another one's

request == <<offset, length>>
vars == <<pc, request, file_length, information, raced>>

\* AddDevice: IoCreateDevice zeroes the extension.
Init ==
  /\ pc = [i \in Irp |-> "idle"]
  /\ offset = [i \in Irp |-> 0]
  /\ length = [i \in Irp |-> 0]
  /\ file_length = 0
  /\ information = [i \in Irp |-> 0]
  /\ raced = {}

ULong(n) == n % Modulus
End(i) == ULong(offset[i] + length[i])

\* A copy outside the buffer overwrites what follows it in the extension;
\* from there on nothing is known of the device.
Wild(i) == pc[i] = "wild"

GoTo(i, label) == pc' = [pc EXCEPT ![i] = label]

\* Another IRP is between its test of file_length and its assignment.
Between(i) == \E k \in Irp \ {i} : pc[k] = "raise"
MeetOthers(i) == raced' = IF Between(i) THEN raced \cup {i} ELSE raced

(***************************************************************************)
(* Writer.                                                                 *)
(***************************************************************************)

\* Mutant: the sum is not checked.
EnterUnchecked(i) ==
  /\ pc[i] = "idle"
  /\ \E quad \in 0..MaxOffset, l \in 0..(Modulus - 1) :
       /\ offset' = [offset EXCEPT ![i] = ULong(quad)]
       /\ length' = [length EXCEPT ![i] = l]
  /\ GoTo(i, "copy")
  /\ UNCHANGED <<file_length, information, raced>>

\* The parameters are read from the stack location; a sum that exceeds the
\* buffer fails the request.
Enter(i) ==
  /\ pc[i] = "idle"
  /\ \E quad \in 0..MaxOffset, l \in 0..(Modulus - 1) :
       /\ offset' = [offset EXCEPT ![i] = ULong(quad)]
       /\ length' = [length EXCEPT ![i] = l]
       /\ IF ULong(ULong(quad) + l) > Capacity
            THEN GoTo(i, "failed")
            ELSE GoTo(i, "copy")
  /\ UNCHANGED <<file_length, information, raced>>

\* memcpy(pDevExt->buffer + ulWriteOffset, ..., ulWriteLength).
Copy(i) ==
  /\ pc[i] = "copy"
  /\ GoTo(i, IF offset[i] + length[i] > Capacity THEN "wild" ELSE "test")
  /\ UNCHANGED <<request, file_length, information, raced>>

\* Mutant: file_length is assigned without the test.
TestSkipped(i) ==
  /\ pc[i] = "test"
  /\ GoTo(i, "raise")
  /\ MeetOthers(i)
  /\ UNCHANGED <<request, file_length, information>>

\* if(ulWriteLength + ulWriteOffset > pDevExt->file_length)
Test(i) ==
  /\ pc[i] = "test"
  /\ GoTo(i, IF End(i) > file_length THEN "raise" ELSE "complete")
  /\ MeetOthers(i)
  /\ UNCHANGED <<request, file_length, information>>

\* Mutant: the length without the offset is assigned.
RaiseToLength(i) ==
  /\ pc[i] = "raise"
  /\ file_length' = length[i]
  /\ GoTo(i, "complete")
  /\ MeetOthers(i)
  /\ UNCHANGED <<request, information>>

\* Mutant: the data is counted as if it were appended.
RaiseByLength(i) ==
  /\ pc[i] = "raise"
  /\ file_length' = file_length + length[i]
  /\ GoTo(i, "complete")
  /\ MeetOthers(i)
  /\ UNCHANGED <<request, information>>

\* pDevExt->file_length = ulWriteLength + ulWriteOffset;
Raise(i) ==
  /\ pc[i] = "raise"
  /\ file_length' = End(i)
  /\ GoTo(i, "complete")
  /\ MeetOthers(i)
  /\ UNCHANGED <<request, information>>

\* IoCompleteRequest, for a failed request with a length of zero.
Complete(i) ==
  /\ \/ /\ pc[i] = "complete"
        /\ GoTo(i, "done")
        /\ information' = [information EXCEPT ![i] = length[i]]
     \/ /\ pc[i] = "failed"
        /\ GoTo(i, "rejected")
        /\ information' = [information EXCEPT ![i] = 0]
  /\ UNCHANGED <<request, file_length, raced>>

Step(i) == Enter(i) \/ Copy(i) \/ Test(i) \/ Raise(i) \/ Complete(i)

Next == (\A i \in Irp : ~Wild(i)) /\ \E i \in Irp : Step(i)

Spec == Init /\ [][Next]_vars

(***************************************************************************)
(* Properties.                                                             *)
(***************************************************************************)

\* Every variable of Writer stays in its type.
TypeOK ==
  /\ pc \in [Irp -> {"idle", "failed", "copy", "wild", "test", "raise",
                     "complete", "done", "rejected"}]
  /\ offset \in [Irp -> 0..(Modulus - 1)]
  /\ length \in [Irp -> 0..(Modulus - 1)]
  /\ file_length \in 0..Capacity
  /\ information \in [Irp -> 0..(Modulus - 1)]
  /\ raced \in SUBSET Irp

\* The test of DispatchRoutine.cpp:134 keeps every copy inside the buffer,
\* except for a request whose offset and length add up to 2^32 or more.
WildOnlyIfWrapped ==
  \A i \in Irp : Wild(i) => offset[i] + length[i] >= Modulus

\* file_length covers every write that was completed with success, as long as
\* no other write stood between DispatchRoutine.cpp:150 and 152 when this one
\* tested or raised it; in particular no later write takes the length back.
FinishedCovered ==
  \A i \in Irp \ raced :
    pc[i] = "done" => offset[i] + information[i] <= file_length

\* file_length goes down only to the loss of a write that raced: when an
\* assignment takes the length back, the end it takes away is that of another
\* write, which was assigned between the test and the assignment of this one.
ShrinksOnlyByRace ==
  [][file_length' < file_length =>
       \E k \in raced :
         pc[k] \in {"complete", "done"} /\ End(k) = file_length]_vars
=============================================================================
