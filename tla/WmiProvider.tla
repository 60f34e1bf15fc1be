----------------------------- MODULE WmiProvider -----------------------------
(***************************************************************************)
(* IRP_MJ_SYSTEM_CONTROL: SystemControl (WmiSystemIoCode.cpp) hands the    *)
(* IRP to WMILIB, which may call one of the driver's callbacks             *)
(* (WmiSupport.cpp), and finishes it as the disposition says that comes    *)
(* back.  The one data block of the driver holds the one value TheAnswer   *)
(* of the device extension; requests of several WMI clients run at the     *)
(* same time.                                                              *)
(*                                                                         *)
(* WMILIB, which is not part of this code: a request for another device is *)
(* to be forwarded; one of another kind is not WMI's; a registration is    *)
(* answered by QueryRegInfo and left for the driver to complete, as are an *)
(* unknown block and a request to enable one while the driver has set      *)
(* WmiFunctionControl to NULL; the rest is left to the callbacks, which    *)
(* complete it.                                                            *)
(***************************************************************************)
EXTENDS Naturals

CONSTANTS
  Irp,       \* the IRP_MJ_SYSTEM_CONTROL requests
  Value,     \* the values clients set, among them zero
  Requests   \* what the requests may ask for, each a function from Irp to Kind

ASSUME ValueAssumption == 0 \in Value

Callback == {"QueryDataBlock", "SetDataBlock", "SetDataItem", "ExecuteMehtod"}
Kind == Callback \cup {"reginfo", "enable", "unknown", "otherDevice", "notWmi"}

ASSUME RequestsAssumption == Requests \subseteq [Irp -> Kind]

\* Buffers are empty, hold exactly a ULONG, or are of any other size.
BufferSize == {"empty", "ULONG", "other"}

VARIABLES
  pc,           \* where the thread of each IRP stands
  kind,         \* what the request asks for
  bufSize,      \* the size of its buffer
  buffer,       \* the value in its buffer
  disposition,  \* what WmiSystemControl returned
  status,       \* the status the IRP is completed with
  TheAnswer,    \* pDevExt->TheAnswer
  completed,    \* how often the IRP was completed by the driver
  forwarded,    \* how often it was sent to the driver below
  before        \* history: <<k, i>> where k was completed before i came

input == <<kind, bufSize>>
vars == <<pc, input, buffer, disposition, status, TheAnswer, completed,
          forwarded, before>>

\* Acpi_Wmi_Registration sets TheAnswer to 0.
Init ==
  /\ pc = [i \in Irp |-> "idle"]
  /\ kind \in Requests
  /\ bufSize = [i \in Irp |-> "ULONG"]
  /\ buffer = [i \in Irp |-> 0]
  /\ disposition = [i \in Irp |-> "IrpForward"]
  /\ status = [i \in Irp |-> "none"]
  /\ TheAnswer = 0
  /\ completed = [i \in Irp |-> 0]
  /\ forwarded = [i \in Irp |-> 0]
  /\ before = {}

GoTo(i, label) == pc' = [pc EXCEPT ![i] = label]

\* A callback has done its work and knows the status of the request.
Answer(i, s) ==
  /\ status' = [status EXCEPT ![i] = s]
  /\ GoTo(i, "answered")
  /\ UNCHANGED <<input, disposition, completed, forwarded, before>>

(***************************************************************************)
(* SystemControl and WMILIB.                                               *)
(***************************************************************************)

\* SystemControl calls WmiSystemControl, which looks at the request.
WmiSystemControl(i) ==
  /\ pc[i] = "idle"
  /\ before' = before \cup {<<k, i>> : k \in {j \in Irp : completed[j] = 1}}
  /\ \/ /\ kind[i] \in Callback
        /\ \E s \in BufferSize, v \in Value :
             /\ bufSize' = [bufSize EXCEPT ![i] = s]
             /\ buffer' = [buffer EXCEPT ![i] = v]
        /\ GoTo(i, "callback")
        /\ UNCHANGED <<disposition, status>>
     \/ /\ kind[i] \notin Callback
        /\ disposition' = [disposition EXCEPT ![i] =
             CASE kind[i] = "otherDevice" -> "IrpForward"
               [] kind[i] = "notWmi" -> "IrpNotWmi"
               [] OTHER -> "IrpNotCompleted"]
        /\ status' = [status EXCEPT ![i] =
             CASE kind[i] \in {"reginfo", "enable"} -> "SUCCESS"
               [] kind[i] = "unknown" -> "GUID_NOT_FOUND"
               [] OTHER -> "none"]
        /\ GoTo(i, "disposed")
        /\ UNCHANGED <<bufSize, buffer>>
  /\ UNCHANGED <<kind, TheAnswer, completed, forwarded>>

\* Callbacks end with WmiCompleteRequest: the IRP is processed.
WmiCompleteRequest(i) ==
  /\ pc[i] = "answered"
  /\ completed' = [completed EXCEPT ![i] = @ + 1]
  /\ disposition' = [disposition EXCEPT ![i] = "IrpProcessed"]
  /\ GoTo(i, "disposed")
  /\ UNCHANGED <<input, buffer, status, TheAnswer, forwarded, before>>

\* Mutant: the IRP is completed although a callback has done so.
SystemControlCompletes(i) ==
  /\ pc[i] = "disposed"
  /\ GoTo(i, "done")
  /\ completed' = IF disposition[i] \in {"IrpNotCompleted", "IrpProcessed"}
                    THEN [completed EXCEPT ![i] = @ + 1] ELSE completed
  /\ forwarded' = IF disposition[i] \in {"IrpForward", "IrpNotWmi"}
                    THEN [forwarded EXCEPT ![i] = @ + 1] ELSE forwarded
  /\ UNCHANGED <<input, buffer, disposition, status, TheAnswer, before>>

\* Mutant: the IRP that WMILIB left to the driver is not completed.
SystemControlForgets(i) ==
  /\ pc[i] = "disposed"
  /\ GoTo(i, "done")
  /\ forwarded' = IF disposition[i] \in {"IrpForward", "IrpNotWmi"}
                    THEN [forwarded EXCEPT ![i] = @ + 1] ELSE forwarded
  /\ UNCHANGED <<input, buffer, disposition, status, TheAnswer, completed, before>>

\* The switch at the end of SystemControl.
SystemControl(i) ==
  /\ pc[i] = "disposed"
  /\ GoTo(i, "done")
  /\ completed' = IF disposition[i] = "IrpNotCompleted"
                    THEN [completed EXCEPT ![i] = @ + 1] ELSE completed
  /\ forwarded' = IF disposition[i] \in {"IrpForward", "IrpNotWmi"}
                    THEN [forwarded EXCEPT ![i] = @ + 1] ELSE forwarded
  /\ UNCHANGED <<input, buffer, disposition, status, TheAnswer, before>>

(***************************************************************************)
(* The callbacks.                                                          *)
(***************************************************************************)

QueryDataBlock(i) ==
  /\ kind[i] = "QueryDataBlock"
  /\ \/ bufSize[i] = "empty" /\ Answer(i, "BUFFER_TOO_SMALL") /\ UNCHANGED buffer
     \/ /\ bufSize[i] # "empty"
        /\ buffer' = [buffer EXCEPT ![i] = TheAnswer]
        /\ Answer(i, "SUCCESS")
  /\ UNCHANGED TheAnswer

\* SetDataBlock and SetDataItem do the same.
SetData(i) ==
  /\ \/ bufSize[i] = "ULONG" /\ TheAnswer' = buffer[i] /\ Answer(i, "SUCCESS")
     \/ /\ bufSize[i] # "ULONG"
        /\ Answer(i, "INFO_LENGTH_MISMATCH")
        /\ UNCHANGED TheAnswer
  /\ UNCHANGED buffer

SetDataBlock(i) == kind[i] = "SetDataBlock" /\ SetData(i)

\* Mutant: SetDataItem reports success without a look at the value.
SetDataItemForgets(i) ==
  /\ kind[i] = "SetDataItem"
  /\ Answer(i, IF bufSize[i] = "ULONG" THEN "SUCCESS" ELSE "INFO_LENGTH_MISMATCH")
  /\ UNCHANGED <<buffer, TheAnswer>>

SetDataItem(i) == kind[i] = "SetDataItem" /\ SetData(i)

\* The method counts the client's buffer up, not TheAnswer; the largest value
\* of the model stands for the largest ULONG and is followed by zero.
ExecuteMehtod(i) ==
  /\ kind[i] = "ExecuteMehtod"
  /\ buffer' = [buffer EXCEPT ![i] = IF @ + 1 \in Value THEN @ + 1 ELSE 0]
  /\ Answer(i, "SUCCESS")
  /\ UNCHANGED TheAnswer

Callbacks(i) ==
  /\ pc[i] = "callback"
  /\ QueryDataBlock(i) \/ SetDataBlock(i) \/ SetDataItem(i) \/ ExecuteMehtod(i)

Continue(i) == Callbacks(i) \/ WmiCompleteRequest(i) \/ SystemControl(i)

Next == \E i \in Irp : WmiSystemControl(i) \/ Continue(i)

\* A thread inside SystemControl runs on; no client is obliged to ask.
Fairness == \A i \in Irp : WF_vars(Continue(i))

Spec == Init /\ [][Next]_vars
FairSpec == Spec /\ Fairness

(***************************************************************************)
(* Properties.                                                             *)
(***************************************************************************)

\* Every variable of the provider stays in its type.
TypeOK ==
  /\ pc \in [Irp -> {"idle", "callback", "answered", "disposed", "done"}]
  /\ kind \in [Irp -> Kind]
  /\ bufSize \in [Irp -> BufferSize]
  /\ buffer \in [Irp -> Value]
  /\ disposition \in [Irp -> {"IrpForward", "IrpNotWmi", "IrpNotCompleted",
                              "IrpProcessed"}]
  /\ status \in [Irp -> {"none", "SUCCESS", "GUID_NOT_FOUND", "BUFFER_TOO_SMALL",
                         "INFO_LENGTH_MISMATCH"}]
  /\ TheAnswer \in Value
  /\ completed \in [Irp -> Nat]
  /\ forwarded \in [Irp -> Nat]
  /\ before \in SUBSET (Irp \X Irp)

\* No request has two ends: it is completed by its callback, completed by
\* SystemControl or sent below, and only one of these
\* (WmiSystemIoCode.cpp:90-110).
OneEnd == \A i \in Irp : completed[i] + forwarded[i] <= 1

\* Every request comes to that one end.
AllEnd == \A i \in Irp : (pc[i] # "idle") ~> (completed[i] + forwarded[i] = 1)

\* The requests that have set TheAnswer.
SetDone ==
  {i \in Irp : kind[i] \in {"SetDataBlock", "SetDataItem"} /\ status[i] = "SUCCESS"}

\* Whatever clients do at the same time, a query answers the value of the last
\* set completed before it came or of one that overlaps it: never a value that
\* was overwritten before, that came after, or that nobody set (as a method's
\* result).  The first value is the 0 of the registration.
QueriesAreRegular ==
  \A q \in Irp : kind[q] = "QueryDataBlock" /\ status[q] = "SUCCESS" =>
    \/ buffer[q] = 0 /\ \A t \in SetDone : <<t, q>> \notin before
    \/ \E s \in SetDone :
         /\ buffer[s] = buffer[q]
         /\ <<q, s>> \notin before
         /\ \A t \in SetDone : <<s, t>> \in before => <<t, q>> \notin before
=============================================================================
