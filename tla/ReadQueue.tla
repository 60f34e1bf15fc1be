----------------------------- MODULE ReadQueue -----------------------------
(***************************************************************************)
(* The queued read path of the driver: what an IRP_MJ_READ goes through in *)
(* the build with KEYBAORD_FILTER 0, USE_IRP_PENDING 1, DRIVER_START_IO 1. *)
(* Reader (DeviceRead.cpp) pends the IRP and hands it to the device queue, *)
(* StartIo (DeviceStartIO.cpp) serves it for three seconds and starts the  *)
(* next packet, and CancelReadIrp (DeviceCancelIrp.cpp) and onCancelIrp    *)
(* (DeviceStartIO.cpp) are its cancel routines.                            *)
(*                                                                         *)
(* Every IRP has two threads: the one that issues the read, which runs     *)
(* Reader and, while the device queue has work, StartIo for any IRP of the *)
(* queue; and the one that cancels it.  A critical section under the       *)
(* system cancel spin lock is one step.                                    *)
(***************************************************************************)
EXTENDS Naturals, Sequences, SequencesExt, FiniteSets

CONSTANTS
  Irp,          \* the read IRPs an application sends
  NoIrp,        \* DeviceObject->CurrentIrp when it is NULL
  Cancellable   \* the IRPs the application may cancel

ASSUME IrpAssumption == NoIrp \notin Irp /\ Cancellable \subseteq Irp

Role == {"read", "cancel"}
Thread == Irp \X Role
Issuer(i) == <<i, "read">>
Canceller(i) == <<i, "cancel">>

VARIABLES
  pc,          \* where each thread stands
  cur,         \* the IRP whose StartIo a thread runs
  routine,     \* Irp->CancelRoutine
  cancel,      \* Irp->Cancel
  status,      \* Irp->IoStatus.Status once IoCompleteRequest was called
  CurrentIrp,  \* DeviceObject->CurrentIrp
  busy,        \* DeviceObject->DeviceQueue.Busy
  queue,       \* the IRPs in DeviceObject->DeviceQueue
  twice,       \* history: IRPs completed again after their completion
  claimed      \* history: IRPs whose cancel routine StartIo removed

device == <<CurrentIrp, busy, queue>>
irps == <<routine, cancel, status, twice, claimed>>
vars == <<pc, cur, device, irps>>

Init ==
  /\ pc = [t \in Thread |-> "idle"]
  /\ cur = [t \in Thread |-> NoIrp]
  /\ routine = [i \in Irp |-> "none"]
  /\ cancel = [i \in Irp |-> FALSE]
  /\ status = [i \in Irp |-> "PENDING"]
  /\ CurrentIrp = NoIrp
  /\ busy = FALSE
  /\ queue = <<>>
  /\ twice = {}
  /\ claimed = {}

(***************************************************************************)
(* Pieces the handlers share.                                              *)
(***************************************************************************)

\* The I/O manager stops the machine at the second completion of an IRP.
Bugcheck == twice # {}

GoTo(t, label) == pc' = [pc EXCEPT ![t] = label]

\* IoCompleteRequest(i), with the status the driver has put in the IRP.
Complete(i, s) ==
  /\ status' = [status EXCEPT ![i] = s]
  /\ twice' = IF status[i] = "PENDING" THEN twice ELSE twice \cup {i}

\* What a read of Irp->Cancel yields.  A completed IRP is no longer the
\* driver's: its memory may hold anything.
CancelSeen(i) == IF status[i] = "PENDING" THEN {cancel[i]} ELSE BOOLEAN

\* StartIo is called for i on thread t.
CallStartIo(t, i) ==
  /\ CurrentIrp' = i
  /\ cur' = [cur EXCEPT ![t] = i]
  /\ GoTo(t, "startio")

\* What a thread does once StartIo and the IoStartNextPacket calls nested in
\* it are over: Reader returns STATUS_PENDING, onCancelIrp completes its IRP.
AfterQueue(t) == IF t[2] = "read" THEN "done" ELSE "complete"

(***************************************************************************)
(* Reader.                                                                 *)
(***************************************************************************)

\* Reader is entered and calls DriverCallDriver.  The IRP has no cancel
\* routine yet, but it can be cancelled.
Enter(i) ==
  /\ pc[Issuer(i)] = "idle"
  /\ GoTo(Issuer(i), "called")
  /\ UNCHANGED <<cur, device, irps>>

\* DriverCallDriver is over (module DriverCall has what it does):
\* IoSetCancelRoutine(pIrp, CancelReadIrp); IoMarkIrpPending(pIrp).
SetCancelRoutine(i) ==
  /\ pc[Issuer(i)] = "called"
  /\ routine' = [routine EXCEPT ![i] = "CancelReadIrp"]
  /\ GoTo(Issuer(i), "marked")
  /\ UNCHANGED <<cur, device, cancel, status, twice, claimed>>

\* Mutant: IoStartPacket is called without a cancel function.
StartPacketKeepsRoutine(i) ==
  LET t == Issuer(i) IN
  /\ pc[t] = "marked"
  /\ \/ /\ ~busy
        /\ busy' = TRUE
        /\ CallStartIo(t, i)
        /\ UNCHANGED queue
     \/ /\ busy
        /\ queue' = Append(queue, i)
        /\ GoTo(t, "done")
        /\ UNCHANGED <<cur, CurrentIrp, busy>>
  /\ UNCHANGED <<routine, cancel, status, twice, claimed>>

\* IoStartPacket(pDevObj, pIrp, 0, onCancelIrp): an idle device queue starts
\* the IRP at once; a busy one keeps it, or has onCancelIrp, which can only
\* take its second branch here, take it out again when it was cancelled.
StartPacket(i) ==
  LET t == Issuer(i) IN
  /\ pc[t] = "marked"
  /\ \/ /\ ~busy
        /\ busy' = TRUE
        /\ CallStartIo(t, i)
        /\ routine' = [routine EXCEPT ![i] = "onCancelIrp"]
        /\ UNCHANGED queue
     \/ /\ busy
        /\ FALSE \in CancelSeen(i)
        /\ queue' = Append(queue, i)
        /\ routine' = [routine EXCEPT ![i] = "onCancelIrp"]
        /\ GoTo(t, "done")
        /\ UNCHANGED <<cur, CurrentIrp, busy>>
     \/ /\ busy
        /\ TRUE \in CancelSeen(i)
        /\ routine' = [routine EXCEPT ![i] = "none"]
        /\ GoTo(t, "complete")
        /\ UNCHANGED <<cur, device>>
  /\ UNCHANGED <<cancel, status, twice, claimed>>

(***************************************************************************)
(* StartIo.                                                                *)
(***************************************************************************)

\* Mutant: the cancel routine stays in the IRP that is served.
ClaimKeepsRoutine(t) ==
  LET i == cur[t] IN
  /\ pc[t] = "startio"
  /\ \/ /\ i # CurrentIrp \/ TRUE \in CancelSeen(i)
        /\ UNCHANGED claimed
     \/ /\ i = CurrentIrp /\ FALSE \in CancelSeen(i)
        /\ claimed' = claimed \cup {i}
  /\ GoTo(t, "work")
  /\ UNCHANGED <<cur, device, routine, cancel, status, twice>>

\* Mutant: the cancellation is forbidden before the test.
ClaimForbidsFirst(t) ==
  LET i == cur[t] IN
  /\ pc[t] = "startio"
  /\ \/ /\ i # CurrentIrp \/ TRUE \in CancelSeen(i)
        /\ UNCHANGED claimed
     \/ /\ i = CurrentIrp /\ FALSE \in CancelSeen(i)
        /\ claimed' = claimed \cup {i}
  /\ routine' = [routine EXCEPT ![i] = "none"]
  /\ GoTo(t, "work")
  /\ UNCHANGED <<cur, device, cancel, status, twice>>

\* The test under the cancel spin lock.  Neither branch returns: the first,
\* whose comment says "put in queue", queues nothing and goes on to serve
\* the IRP like the second, which forbids the cancellation first.
Claim(t) ==
  LET i == cur[t] IN
  /\ pc[t] = "startio"
  /\ \/ /\ i # CurrentIrp \/ TRUE \in CancelSeen(i)
        /\ UNCHANGED <<routine, claimed>>
     \/ /\ i = CurrentIrp /\ FALSE \in CancelSeen(i)
        /\ routine' = [routine EXCEPT ![i] = "none"]
        /\ claimed' = claimed \cup {i}
  /\ GoTo(t, "work")
  /\ UNCHANGED <<cur, device, cancel, status, twice>>

\* Mutant: StartIo returns without IoStartNextPacket.
FinishForgetsQueue(t) ==
  /\ pc[t] = "work"
  /\ Complete(cur[t], "SUCCESS")
  /\ GoTo(t, "done")
  /\ UNCHANGED <<cur, device, routine, cancel, claimed>>

\* Mutant: StartIo leaves the status it found in the IRP.
FinishWithoutStatus(t) ==
  /\ pc[t] = "work"
  /\ Complete(cur[t], "NOT_SUPPORTED")
  /\ GoTo(t, "next")
  /\ UNCHANGED <<cur, device, routine, cancel, claimed>>

\* The wait of three seconds is over: the data is copied, the IRP completed.
Finish(t) ==
  /\ pc[t] = "work"
  /\ Complete(cur[t], "SUCCESS")
  /\ GoTo(t, "next")
  /\ UNCHANGED <<cur, device, routine, cancel, claimed>>

\* Mutant: the packet that is started stays in the queue.
StartNextPacketKeepsHead(t) ==
  /\ pc[t] = "next"
  /\ queue # <<>>
  /\ CallStartIo(t, Head(queue))
  /\ UNCHANGED <<queue, busy, irps>>

\* Mutant: the packet that came last is started next.
StartNextPacketLast(t) ==
  /\ pc[t] = "next"
  /\ \/ /\ queue # <<>>
        /\ CallStartIo(t, Last(queue))
        /\ queue' = Front(queue)
        /\ UNCHANGED busy
     \/ /\ queue = <<>>
        /\ CurrentIrp' = NoIrp
        /\ busy' = FALSE
        /\ GoTo(t, AfterQueue(t))
        /\ cur' = [cur EXCEPT ![t] = NoIrp]
        /\ UNCHANGED queue
  /\ UNCHANGED irps

\* IoStartNextPacket(pDevObj, TRUE), called by StartIo and by onCancelIrp.
StartNextPacket(t) ==
  /\ pc[t] = "next"
  /\ \/ /\ queue # <<>>
        /\ CallStartIo(t, Head(queue))
        /\ queue' = Tail(queue)
        /\ UNCHANGED busy
     \/ /\ queue = <<>>
        /\ CurrentIrp' = NoIrp
        /\ busy' = FALSE
        /\ GoTo(t, AfterQueue(t))
        /\ cur' = [cur EXCEPT ![t] = NoIrp]
        /\ UNCHANGED queue
  /\ UNCHANGED irps

(***************************************************************************)
(* Cancellation.                                                           *)
(***************************************************************************)

\* CancelReadIrp: completes under the cancel spin lock.
CancelReadIrp(i) ==
  /\ Complete(i, "CANCELLED")
  /\ GoTo(Canceller(i), "done")
  /\ UNCHANGED queue

\* onCancelIrp up to the release of the cancel spin lock: the IRP being
\* served goes to IoStartNextPacket, another one leaves the device queue.
onCancelIrp(i) ==
  /\ \/ /\ i = CurrentIrp
        /\ GoTo(Canceller(i), "next")
        /\ UNCHANGED queue
     \/ /\ i # CurrentIrp
        /\ GoTo(Canceller(i), "complete")
        /\ queue' = RemoveFirst(queue, i)
  /\ UNCHANGED <<status, twice>>

\* IoCancelIrp for a read that is under way: Cancel is set and the cancel
\* routine, if there is one, is taken out of the IRP and called.
CancelIrp(i) ==
  /\ i \in Cancellable
  /\ pc[Issuer(i)] # "idle"
  /\ pc[Canceller(i)] = "idle"
  /\ status[i] = "PENDING"
  /\ cancel' = [cancel EXCEPT ![i] = TRUE]
  /\ routine' = [routine EXCEPT ![i] = "none"]
  /\ \/ /\ routine[i] = "none"
        /\ GoTo(Canceller(i), "done")
        /\ UNCHANGED <<queue, status, twice>>
     \/ routine[i] = "CancelReadIrp" /\ CancelReadIrp(i)
     \/ routine[i] = "onCancelIrp" /\ onCancelIrp(i)
  /\ UNCHANGED <<cur, CurrentIrp, busy, claimed>>

\* The end of onCancelIrp.
CompleteCancelled(t) ==
  /\ pc[t] = "complete"
  /\ Complete(t[1], "CANCELLED")
  /\ GoTo(t, "done")
  /\ UNCHANGED <<cur, device, routine, cancel, claimed>>

(***************************************************************************)
(* The specification.                                                      *)
(***************************************************************************)

IrpStep(i) == Enter(i) \/ SetCancelRoutine(i) \/ StartPacket(i) \/ CancelIrp(i)
ThreadStep(t) ==
  Claim(t) \/ Finish(t) \/ StartNextPacket(t) \/ CompleteCancelled(t)

Next ==
  /\ ~Bugcheck
  /\ (\E i \in Irp : IrpStep(i)) \/ (\E t \in Thread : ThreadStep(t))

\* A thread that entered the driver keeps running (the wait in StartIo has a
\* timeout) and DriverCallDriver returns, which ReadPath looks into; nothing
\* obliges an application to read or to cancel.
Fairness ==
  /\ \A i \in Irp : WF_vars(~Bugcheck /\ SetCancelRoutine(i))
  /\ \A i \in Irp : WF_vars(~Bugcheck /\ StartPacket(i))
  /\ \A t \in Thread : WF_vars(~Bugcheck /\ ThreadStep(t))

Spec == Init /\ [][Next]_vars
FairSpec == Spec /\ Fairness

(***************************************************************************)
(* Properties.                                                             *)
(***************************************************************************)

Label == {"idle", "called", "marked", "startio", "work", "next", "complete", "done"}

\* Every variable of the read path stays in its type.
TypeOK ==
  /\ pc \in [Thread -> Label]
  /\ cur \in [Thread -> Irp \cup {NoIrp}]
  /\ routine \in [Irp -> {"none", "CancelReadIrp", "onCancelIrp"}]
  /\ cancel \in [Irp -> BOOLEAN]
  /\ status \in [Irp -> {"PENDING", "SUCCESS", "CANCELLED"}]
  /\ CurrentIrp \in Irp \cup {NoIrp}
  /\ busy \in BOOLEAN
  /\ queue \in Seq(Irp)
  /\ twice \in SUBSET Irp
  /\ claimed \in SUBSET Irp

\* Threads inside StartIo or on their way into the next one.
Serving(t) == pc[t] \in {"startio", "work", "next"}
InStartIo(t) == pc[t] \in {"startio", "work"}
Queued(i) == \E k \in 1..Len(queue) : queue[k] = i

\* "an IRP cannot be handled twice, otherwise, BSOD code happen"
\* (DriverEntry.cpp:257): no read is completed a second time.
HandledOnce == twice = {}

\* "put it to queue for StartIo Serial handling" (DeviceRead.cpp:120): StartIo
\* never serves two IRPs at the same time.
Serial == \A t, u \in Thread : pc[t] = "work" /\ pc[u] = "work" => t = u

\* Only a read that was cancelled can be completed twice: the cancellation of
\* one IRP, which may leave two StartIo running and CurrentIrp NULL under one
\* of them, never makes the driver complete another application's read again.
OnlyCancelledTwice == \A i \in twice : cancel[i]

\* "this irp is on-going process, it cannot be cancelled" (DeviceStartIO.cpp:63):
\* from the moment StartIo took the cancel routine out of a read that is
\* still pending, only StartIo completes it, with success.
ClaimedRunsToSuccess ==
  [][\A i \in claimed : status[i] = "PENDING" => status'[i] # "CANCELLED"]_vars

\* The device queue never goes unserved: as long as it is busy some thread
\* is in StartIo or about to call IoStartNextPacket, and an IRP is in it only
\* while it is busy, whatever cancel routines ran in between.
NoStranded ==
  /\ busy => \E t \in Thread : Serving(t)
  /\ queue # <<>> => busy

\* A read waiting in the queue that is still pending can be cancelled there
\* and nobody serves it meanwhile; no read waits twice.
QueuedIsFree ==
  /\ \A j, k \in 1..Len(queue) : queue[j] = queue[k] => j = k
  /\ \A i \in Irp : Queued(i) =>
       /\ i # CurrentIrp
       /\ \A t \in Thread : Serving(t) /\ pc[t] # "next" => cur[t] # i
       /\ status[i] = "PENDING" => routine[i] = "onCancelIrp" /\ ~cancel[i]

\* Whoever got STATUS_PENDING can take his read back: the cancellation of a
\* pending read that comes after ReadFile has returned meets a cancel routine,
\* except where StartIo claimed the read before (DeviceStartIO.cpp:65).  An
\* application that cancels a read, as ReadEx does, counts on it.
PendingCanBeCancelled ==
  \A i \in Irp :
    pc[Issuer(i)] = "done" /\ ~cancel[i] /\ status[i] = "PENDING" =>
      routine[i] # "none" \/ i \in claimed

\* Every read that was dispatched is completed in the end, unless a second
\* completion stopped the machine first.
ReadsCompleted ==
  \A i \in Irp :
    pc[Issuer(i)] = "called" ~> (status[i] # "PENDING" \/ Bugcheck)

\* The driver as its reader sees it: the IRP in StartIo is being served.
Abstract == INSTANCE SerialReader WITH
  fresh <- {i \in Irp : pc[Issuer(i)] \in {"idle", "called", "marked"}},
  waiting <- queue,
  serving <- IF \E t \in Thread : InStartIo(t) THEN CurrentIrp ELSE NoIrp,
  finished <- {i \in Irp : status[i] = "SUCCESS"}

\* As long as nobody cancels, the read path is a serial server: reads wait
\* in the order in which IoStartPacket met them, one at a time is in StartIo,
\* and every one is finished (DeviceRead.cpp:120, DeviceStartIO.cpp:87).
ImplementsSerialReader == Abstract!Spec
=============================================================================
