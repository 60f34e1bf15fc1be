----------------------------- MODULE DriverCall -----------------------------
(***************************************************************************)
(* DriverCallDriver (DeviceRead.cpp), which Reader runs on the thread of   *)
(* each read before anything else: it opens the device of a second driver, *)
(* reads it and closes it.  ZwCreateFile puts the handle straight into     *)
(* hDevice of the device extension, which all calls share, and every later *)
(* statement takes it from there.                                          *)
(*                                                                         *)
(* The handle is not a kernel handle: it is an entry of the handle table   *)
(* of the process that reads, in which the same number may stand for       *)
(* nothing, or for an event of the application.                            *)
(***************************************************************************)
CONSTANTS
  Caller,      \* the calls: one for each read
  ProcessOf,   \* the process of each call, a function of Caller
  WithEvents,  \* the processes that make and close events of their own
  Handle,      \* the handle values
  NoHandle     \* hDevice before the first call: zero, which is no handle

VARIABLES
  call,      \* where each call stands
  hDevice,   \* pdx->hDevice
  file,      \* <<c, h>>: handle h, of c's process, of the file that c opened
  event,     \* <<p, h>>: handle h of an event of the application in process p
  crossed,   \* history: calls that were under way at the same time as another
  strayed    \* history: calls that used a handle other than their own

vars == <<call, hDevice, file, event, crossed, strayed>>

Init ==
  /\ call = [c \in Caller |-> "idle"]
  /\ hDevice = NoHandle
  /\ file = {}
  /\ event = {}
  /\ crossed = {}
  /\ strayed = {}

GoTo(c, label) == call' = [call EXCEPT ![c] = label]

Open(c) == call[c] \in {"opened", "pending", "waiting", "close"}

\* The calls whose file a handle of process p names.
Owners(p, h) == {c \in Caller : ProcessOf[c] = p /\ <<c, h>> \in file}

Used(p, h) == Owners(p, h) # {} \/ <<p, h>> \in event

\* A statement of call c uses hDevice.
Use(c) == strayed' = IF <<c, hDevice>> \in file THEN strayed ELSE strayed \cup {c}

(***************************************************************************)
(* The call.                                                               *)
(***************************************************************************)

\* Mutant: a handle that is there already is not replaced.
CreateFileOnce(c) ==
  /\ call[c] = "idle"
  /\ \/ /\ \E h \in Handle :
             /\ ~Used(ProcessOf[c], h)
             /\ file' = file \cup {<<c, h>>}
             /\ hDevice' = IF hDevice = NoHandle THEN h ELSE hDevice
        /\ GoTo(c, "opened")
        /\ LET others == {k \in Caller : Open(k)} IN
           crossed' = IF others = {} THEN crossed ELSE crossed \cup others \cup {c}
     \/ /\ GoTo(c, "returned")
        /\ UNCHANGED <<hDevice, file, crossed>>
  /\ UNCHANGED <<event, strayed>>

\* ZwCreateFile(&pdx->hDevice, ...): a new handle, or none and an error.
CreateFile(c) ==
  /\ call[c] = "idle"
  /\ \/ /\ \E h \in Handle :
             /\ ~Used(ProcessOf[c], h)
             /\ file' = file \cup {<<c, h>>}
             /\ hDevice' = h
        /\ GoTo(c, "opened")
        /\ LET others == {k \in Caller : Open(k)} IN
           crossed' = IF others = {} THEN crossed ELSE crossed \cup others \cup {c}
     \/ /\ GoTo(c, "returned")
        /\ UNCHANGED <<hDevice, file, crossed>>
  /\ UNCHANGED <<event, strayed>>

\* ZwReadFile(pdx->hDevice, ..., &statusBlock, ...): an answer, an error, or
\* STATUS_PENDING, which only a file can give.
ReadFile(c) ==
  /\ call[c] = "opened"
  /\ Use(c)
  /\ \/ GoTo(c, "close")
     \/ /\ Owners(ProcessOf[c], hDevice) # {}
        /\ GoTo(c, "pending")
  /\ UNCHANGED <<hDevice, file, event, crossed>>

\* Mutant: the handle is referenced as that of a file, and the wait happens.
ReferenceFile(c) ==
  /\ call[c] = "pending"
  /\ Use(c)
  /\ \/ /\ Owners(ProcessOf[c], hDevice) # {}
        /\ GoTo(c, "waiting")
     \/ /\ Owners(ProcessOf[c], hDevice) = {}
        /\ GoTo(c, "close")
  /\ UNCHANGED <<hDevice, file, event, crossed>>

\* Mutant: the failure of the reference ends the call.
ReferenceGivesUp(c) ==
  /\ call[c] = "pending"
  /\ Use(c)
  /\ \/ /\ <<ProcessOf[c], hDevice>> \in event
        /\ GoTo(c, "waiting")
     \/ /\ <<ProcessOf[c], hDevice>> \notin event
        /\ GoTo(c, "returned")
  /\ UNCHANGED <<hDevice, file, event, crossed>>

\* ObReferenceObjectByHandle asks for an event (*ExEventObjectType), which the
\* handle of a file is not: it fails and the wait is left out.  Only where
\* hDevice names an event of the application it succeeds.
Reference(c) ==
  /\ call[c] = "pending"
  /\ Use(c)
  /\ \/ /\ <<ProcessOf[c], hDevice>> \in event
        /\ GoTo(c, "waiting")
     \/ /\ <<ProcessOf[c], hDevice>> \notin event
        /\ GoTo(c, "close")
  /\ UNCHANGED <<hDevice, file, event, crossed>>

\* KeWaitForSingleObject waits for what is at the place of a file's event in
\* an object that is none: it may return, or never.
WaitEnds(c) ==
  /\ call[c] = "waiting"
  /\ GoTo(c, "close")
  /\ UNCHANGED <<hDevice, file, event, crossed, strayed>>

\* ZwClose(pdx->hDevice), whatever it names in this process, if anything.
Close(c) ==
  LET p == ProcessOf[c] IN
  /\ call[c] = "close"
  /\ Use(c)
  /\ file' = file \ (Owners(p, hDevice) \X {hDevice})
  /\ event' = event \ {<<p, hDevice>>}
  /\ GoTo(c, "returned")
  /\ UNCHANGED <<hDevice, crossed>>

(***************************************************************************)
(* Around it.                                                              *)
(***************************************************************************)

\* The application makes and closes events of its own.
OwnEvent(p) ==
  /\ \E h \in Handle :
       \/ ~Used(p, h) /\ event' = event \cup {<<p, h>>}
       \/ <<p, h>> \in event /\ event' = event \ {<<p, h>>}
  /\ UNCHANGED <<call, hDevice, file, crossed, strayed>>

\* The steps of DriverCallDriver that the thread does not fail to take.
Run(c) == CreateFile(c) \/ ReadFile(c) \/ Reference(c) \/ Close(c)

Next ==
  \/ \E c \in Caller : Run(c) \/ WaitEnds(c)
  \/ \E p \in WithEvents : OwnEvent(p)

Spec == Init /\ [][Next]_vars

(***************************************************************************)
(* Properties.                                                             *)
(***************************************************************************)

\* Every variable of the calls stays in its type.
TypeOK ==
  /\ call \in [Caller -> {"idle", "opened", "pending", "waiting", "close", "returned"}]
  /\ hDevice \in Handle \cup {NoHandle}
  /\ file \in SUBSET (Caller \X Handle)
  /\ event \in SUBSET (WithEvents \X Handle)
  /\ crossed \in SUBSET Caller
  /\ strayed \in SUBSET Caller

\* A call that met no other one uses its own handle in every statement: one
\* that reads or closes the file of another call, closes an event of the
\* application or waits for it, ran at the same time as another one
\* (hDevice of the device extension, DeviceRead.cpp:63-101).
StraysOnlyIfCrossed == strayed \subseteq crossed

\* A call that met no other one leaves no handle behind, whether the second
\* driver answers, fails or does not answer; it is not closed under it either.
NoHandleLost ==
  \A c \in Caller \ crossed :
    (\E h \in Handle : <<c, h>> \in file) <=> Open(c)
=============================================================================
