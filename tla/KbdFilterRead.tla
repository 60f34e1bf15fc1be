--------------------------- MODULE KbdFilterRead ---------------------------
(***************************************************************************)
(* IRP_MJ_READ in the build with KEYBAORD_FILTER 1 (the value of           *)
(* Feature_Flag.h): Reader (DispatchRoutine.cpp) counts pendingkey up and  *)
(* passes the read to the keyboard device below, and its completion        *)
(* routine ReadComplete counts pendingkey down.  The count is a global     *)
(* that reads of several threads, and completions on any processor, change *)
(* without a lock: each change loads the count and stores it.              *)
(*                                                                         *)
(* The filter's device is that of MyAttachDevice (DriverEntry.cpp), whose  *)
(* LowerDevice is the keyboard class device; the call of MyAttachDevice in *)
(* AddDevice is commented out at present.                                  *)
(***************************************************************************)
EXTENDS Naturals, FiniteSets

CONSTANTS
  Irp,      \* the read IRPs
  Modulus   \* 2^32, for the ULONG pendingkey

ASSUME ModulusAssumption == Modulus \in Nat \ {0}
ASSUME IrpAssumption == IsFiniteSet(Irp)

VARIABLES
  pc,          \* where the thread of Reader stands for each IRP
  complete,    \* where ReadComplete stands for each IRP
  loaded,      \* the count that the change under way has loaded
  pending,     \* the driver below marked the IRP pending
  returned,    \* what Reader returned
  marked,      \* ReadComplete passed the mark on to the filter's own location
  pendingkey,
  lost         \* history: a change stored over another one

vars == <<pc, complete, loaded, pending, returned, marked, pendingkey, lost>>

Init ==
  /\ pc = [i \in Irp |-> "idle"]
  /\ complete = [i \in Irp |-> "no"]
  /\ loaded = [i \in Irp |-> 0]
  /\ pending = [i \in Irp |-> FALSE]
  /\ returned = [i \in Irp |-> "nothing"]
  /\ marked = [i \in Irp |-> FALSE]
  /\ pendingkey = 0
  /\ lost = FALSE

\* The two halves of ++ and --.
Load(i) == loaded' = [loaded EXCEPT ![i] = pendingkey] /\ UNCHANGED <<pendingkey, lost>>

Store(i, n) ==
  /\ pendingkey' = n % Modulus
  /\ lost' = (lost \/ pendingkey # loaded[i])
  /\ UNCHANGED loaded

(***************************************************************************)
(* Reader.                                                                 *)
(***************************************************************************)

CountUp(i) ==
  /\ \/ pc[i] = "idle" /\ pc' = [pc EXCEPT ![i] = "up"] /\ Load(i)
     \/ pc[i] = "up" /\ pc' = [pc EXCEPT ![i] = "call"] /\ Store(i, loaded[i] + 1)
  /\ UNCHANGED <<complete, pending, returned, marked>>

\* IoCallDriver: the driver below marks the IRP pending, or completes it
\* before it returns.
CallDriver(i) ==
  /\ pc[i] = "call"
  /\ \E mark \in BOOLEAN : pending' = [pending EXCEPT ![i] = mark]
  /\ pc' = [pc EXCEPT ![i] = "below"]
  /\ complete' = [complete EXCEPT ![i] = "may"]
  /\ UNCHANGED <<loaded, returned, marked, pendingkey, lost>>

\* Reader returns the status of IoCallDriver.
Return(i) ==
  /\ pc[i] = "below"
  /\ pending[i] \/ complete[i] = "done"
  /\ returned' = [returned EXCEPT ![i] = IF pending[i] THEN "PENDING" ELSE "final"]
  /\ pc' = [pc EXCEPT ![i] = "done"]
  /\ UNCHANGED <<complete, loaded, pending, marked, pendingkey, lost>>

(***************************************************************************)
(* ReadComplete.                                                           *)
(***************************************************************************)

\* Mutant: the mark is not passed on.
ReadCompleteUnmarked(i) ==
  /\ complete[i] = "may"
  /\ complete' = [complete EXCEPT ![i] = "marked"]
  /\ UNCHANGED <<pc, loaded, pending, returned, marked, pendingkey, lost>>

\* if (pIrp->PendingReturned) IoMarkIrpPending(pIrp);
ReadComplete(i) ==
  /\ complete[i] = "may"
  /\ marked' = [marked EXCEPT ![i] = pending[i]]
  /\ complete' = [complete EXCEPT ![i] = "marked"]
  /\ UNCHANGED <<pc, loaded, pending, returned, pendingkey, lost>>

\* Mutant: only a read that was pending is counted down.
CountDownPending(i) ==
  /\ \/ complete[i] = "marked" /\ Load(i) /\ complete' = [complete EXCEPT ![i] = "down"]
     \/ /\ complete[i] = "down"
        /\ Store(i, IF pending[i] THEN loaded[i] + Modulus - 1 ELSE loaded[i])
        /\ complete' = [complete EXCEPT ![i] = "done"]
  /\ UNCHANGED <<pc, pending, returned, marked>>

CountDown(i) ==
  /\ \/ complete[i] = "marked" /\ Load(i) /\ complete' = [complete EXCEPT ![i] = "down"]
     \/ /\ complete[i] = "down"
        /\ Store(i, loaded[i] + Modulus - 1)
        /\ complete' = [complete EXCEPT ![i] = "done"]
  /\ UNCHANGED <<pc, pending, returned, marked>>

Step(i) ==
  CountUp(i) \/ CallDriver(i) \/ Return(i) \/ ReadComplete(i) \/ CountDown(i)

Next == \E i \in Irp : Step(i)

Spec == Init /\ [][Next]_vars

(***************************************************************************)
(* Properties.                                                             *)
(***************************************************************************)

\* Every variable of the filter's read stays in its type.
TypeOK ==
  /\ pc \in [Irp -> {"idle", "up", "call", "below", "done"}]
  /\ complete \in [Irp -> {"no", "may", "marked", "down", "done"}]
  /\ loaded \in [Irp -> 0..(Modulus - 1)]
  /\ pending \in [Irp -> BOOLEAN]
  /\ returned \in [Irp -> {"nothing", "PENDING", "final"}]
  /\ marked \in [Irp -> BOOLEAN]
  /\ pendingkey \in 0..(Modulus - 1)
  /\ lost \in BOOLEAN

\* pendingkey is the number of reads below, as long as no two of its changes
\* overlapped (DispatchRoutine.cpp:89 and 114 are not interlocked).
Below == {i \in Irp : pc[i] \notin {"idle", "up"} /\ complete[i] # "done"}
CountsReads == ~lost => pendingkey = Cardinality(Below) % Modulus

\* What Reader returned agrees with the mark its completion routine left in
\* the IRP, whichever of the two came first: a read returned as pending is
\* marked once completed, one that is marked was returned as pending.
PendingAgrees ==
  \A i \in Irp : returned[i] # "nothing" /\ complete[i] = "done" =>
    (marked[i] <=> returned[i] = "PENDING")
=============================================================================
