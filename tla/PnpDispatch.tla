---------------------------- MODULE PnpDispatch ----------------------------
(***************************************************************************)
(* How the FDO answers IRP_MJ_PNP: WdmPnp (DriverEntry.cpp) calls one of   *)
(* DefaultPnpHandler, RemoveDevice (DriverEntry.cpp), StartDevice          *)
(* (DeviceStart.cpp), PnpQueryCapabilitiesHandler (DeviceCapability.cpp)   *)
(* and DeviceQueryDeviceRelation (DeviceQueryRelation.cpp).  StartDevice   *)
(* and the capabilities handler first have the driver below answer, by     *)
(* ForwardAndWait (DirectIoMethod.cpp): the completion routine sets an     *)
(* event on the stack of the thread that waits for it.                     *)
(*                                                                         *)
(* Every IRP has a thread of its own.  The PnP manager sends requests      *)
(* while the device is attached, sends the removal when no other request   *)
(* is inside the driver, and nothing after the removal.                    *)
(***************************************************************************)
EXTENDS Naturals

CONSTANT Irp   \* the PnP requests

\* The entries of fcntab that differ; "OTHER" is DefaultPnpHandler's, also
\* reached by a minor function beyond the table.
Minor == {"START", "REMOVE", "RELATIONS", "CAPABILITIES", "OTHER"}
Forwarded == {"START", "CAPABILITIES"}

\* DEVICE_POWER_STATE: PowerDeviceUnspecified, D0, ..., D3; and the system
\* states SetMostPoweredState is used for, those of sleep and shutdown as one.
Unspecified == 0
D0 == 1
D3 == 4
DevicePower == Unspecified..D3
SystemPower == {"working", "sleeping"}

VARIABLES
  pc,         \* where the thread of each IRP stands
  minor,      \* the minor function of each IRP
  lower,      \* "idle", "holding" the IRP, or what the driver below answered
  event,      \* the event of ForwardAndWait: "none" while it has no frame
  status,     \* Irp->IoStatus.Status
  caps,       \* DeviceCapabilities->DeviceState of a capabilities IRP
  completed,  \* how often IoCompleteRequest passed the IRP up from the FDO
  astray,     \* history: IRPs used, or events set, when not the user's
  device      \* "attached" until RemoveDevice, then "gone"

vars == <<pc, minor, lower, event, status, caps, completed, astray, device>>

Init ==
  /\ pc = [i \in Irp |-> "idle"]
  /\ minor \in [Irp -> Minor]
  /\ lower = [i \in Irp |-> "idle"]
  /\ event = [i \in Irp |-> "none"]
  /\ status = [i \in Irp |-> "NOT_SUPPORTED"]
  /\ caps = [i \in Irp |-> [s \in SystemPower |-> Unspecified]]
  /\ completed = [i \in Irp |-> 0]
  /\ astray = {}
  /\ device = "attached"

(***************************************************************************)
(* Pieces the handlers share.                                              *)
(***************************************************************************)

GoTo(i, label) == pc' = [pc EXCEPT ![i] = label]

\* The FDO may use an IRP that it neither completed nor lent.
Owned(i) == completed[i] = 0 /\ lower[i] # "holding"
Use(i) == astray' = IF Owned(i) THEN astray ELSE astray \cup {i}

\* Irp->IoStatus.Status = s; IoCompleteRequest(Irp).
CompleteIrp(i, s) ==
  /\ Use(i)
  /\ status' = [status EXCEPT ![i] = s]
  /\ completed' = [completed EXCEPT ![i] = @ + 1]

(***************************************************************************)
(* The handlers that do not wait.                                          *)
(***************************************************************************)

\* Mutant: the line that is commented out, which also passes the IRP on.
DefaultPnpHandlerForwards(i) ==
  /\ minor[i] = "OTHER"
  /\ Use(i)
  /\ status' = [status EXCEPT ![i] = "SUCCESS"]
  /\ completed' = [completed EXCEPT ![i] = @ + 2]
  /\ GoTo(i, "done")
  /\ UNCHANGED <<lower, event, caps, device>>

DefaultPnpHandler(i) ==
  /\ minor[i] = "OTHER"
  /\ CompleteIrp(i, "SUCCESS")
  /\ GoTo(i, "done")
  /\ UNCHANGED <<lower, event, caps, device>>

\* Cancels the polling timer and returns; the IRP is neither completed nor
\* passed on.
DeviceQueryDeviceRelation(i) ==
  /\ minor[i] = "RELATIONS"
  /\ GoTo(i, "done")
  /\ UNCHANGED <<lower, event, status, caps, completed, astray, device>>

\* RemoveDevice has DefaultPnpHandler complete the IRP ...
RemoveDevice(i) ==
  /\ minor[i] = "REMOVE"
  /\ CompleteIrp(i, "SUCCESS")
  /\ GoTo(i, "removing")
  /\ UNCHANGED <<lower, event, caps, device>>

\* ... writes its status once more, deletes the link, detaches and deletes.
RemoveDeviceRest(i) ==
  /\ pc[i] = "removing"
  /\ Use(i)
  /\ device' = "gone"
  /\ GoTo(i, "done")
  /\ UNCHANGED <<minor, lower, event, status, caps, completed>>

(***************************************************************************)
(* ForwardAndWait and the handlers that use it.                            *)
(***************************************************************************)

\* The event is initialised, the completion routine set, IoCallDriver called.
ForwardAndWait(i) ==
  /\ minor[i] \in Forwarded
  /\ event' = [event EXCEPT ![i] = "clear"]
  /\ lower' = [lower EXCEPT ![i] = "holding"]
  /\ GoTo(i, "calling")
  /\ UNCHANGED <<status, caps, completed, astray, device>>

\* Mutant: the event is not set.
OnRequestCompleteSilent(i) == UNCHANGED <<event, astray, completed>>

\* KeSetEvent; STATUS_MORE_PROCESSING_REQUIRED leaves the IRP to the FDO.
OnRequestComplete(i) ==
  /\ event' = [event EXCEPT ![i] = "set"]
  /\ astray' = IF event[i] = "none" THEN astray \cup {i} ELSE astray
  /\ UNCHANGED completed

\* The driver below answers, inside IoCallDriver or after it returned.
LowerCompletes(i) ==
  /\ lower[i] = "holding"
  /\ \E s \in {"SUCCESS", "UNSUCCESSFUL"} :
       /\ status' = [status EXCEPT ![i] = s]
       /\ lower' = [lower EXCEPT ![i] = s]
  /\ \E c \in [SystemPower -> DevicePower] :
       /\ minor[i] # "CAPABILITIES" => c = caps[i]
       /\ caps' = [caps EXCEPT ![i] = c]
  /\ OnRequestComplete(i)
  /\ UNCHANGED <<pc, minor, device>>

\* IoCallDriver returns, with or without an answer; its result is not used.
CallReturns(i) ==
  /\ pc[i] = "calling"
  /\ GoTo(i, "waiting")
  /\ UNCHANGED <<minor, lower, event, status, caps, completed, astray, device>>

\* Mutant: ForwardAndWait does not wait.
WaitEndsAtOnce(i) ==
  /\ pc[i] = "waiting"
  /\ event' = [event EXCEPT ![i] = "none"]
  /\ GoTo(i, "answered")
  /\ UNCHANGED <<minor, lower, status, caps, completed, astray, device>>

\* The wait is over: ForwardAndWait leaves its frame.
WaitEnds(i) ==
  /\ pc[i] = "waiting"
  /\ event[i] = "set"
  /\ event' = [event EXCEPT ![i] = "none"]
  /\ GoTo(i, "answered")
  /\ UNCHANGED <<minor, lower, status, caps, completed, astray, device>>

\* Mutant: the failure of the driver below is dropped.
StartDeviceAlways(i) ==
  /\ pc[i] = "answered" /\ minor[i] = "START"
  /\ CompleteIrp(i, "SUCCESS")
  /\ GoTo(i, "done")
  /\ UNCHANGED <<minor, lower, event, caps, device>>

\* StartDevice: a failure below is passed up, a success is a success.
StartDevice(i) ==
  /\ pc[i] = "answered" /\ minor[i] = "START"
  /\ CompleteIrp(i, status[i])
  /\ GoTo(i, "done")
  /\ UNCHANGED <<minor, lower, event, caps, device>>

\* Mutant: the comparison is the other way round.
SetLeastPoweredState(dps, ours) ==
  IF dps = Unspecified \/ dps < ours THEN ours ELSE dps

\* The macro: the device state for a system state is at most ours.
SetMostPoweredState(dps, ours) ==
  IF dps = Unspecified \/ dps > ours THEN ours ELSE dps

PnpQueryCapabilitiesHandler(i) ==
  /\ pc[i] = "answered" /\ minor[i] = "CAPABILITIES"
  /\ caps' = IF status[i] # "SUCCESS" THEN caps ELSE
       [caps EXCEPT ![i] =
          [working |-> SetMostPoweredState(caps[i]["working"], D0),
           sleeping |-> SetMostPoweredState(caps[i]["sleeping"], D3)]]
  /\ CompleteIrp(i, status[i])
  /\ GoTo(i, "done")
  /\ UNCHANGED <<minor, lower, event, device>>

(***************************************************************************)
(* The specification.                                                      *)
(***************************************************************************)

Inside(i) == pc[i] \notin {"idle", "done"}

\* WdmPnp: the handler of the minor function is called.
WdmPnp(i) ==
  /\ pc[i] = "idle"
  /\ device = "attached"
  /\ \A k \in Irp : Inside(k) => "REMOVE" \notin {minor[i], minor[k]}
  /\ \/ DefaultPnpHandler(i)
     \/ DeviceQueryDeviceRelation(i)
     \/ RemoveDevice(i)
     \/ ForwardAndWait(i)
  /\ UNCHANGED minor

\* What goes on by itself once the request is in the driver.
Continue(i) ==
  \/ RemoveDeviceRest(i)
  \/ CallReturns(i)
  \/ WaitEnds(i)
  \/ StartDevice(i)
  \/ PnpQueryCapabilitiesHandler(i)

Next == \E i \in Irp : WdmPnp(i) \/ Continue(i) \/ LowerCompletes(i)

\* Threads inside the driver run on, and the driver below answers; nothing
\* obliges the PnP manager to send a request.
Fairness == \A i \in Irp : WF_vars(Continue(i)) /\ WF_vars(LowerCompletes(i))

Spec == Init /\ [][Next]_vars
FairSpec == Spec /\ Fairness

(***************************************************************************)
(* Properties.                                                             *)
(***************************************************************************)

\* Every variable of the dispatcher stays in its type.
TypeOK ==
  /\ pc \in [Irp -> {"idle", "calling", "waiting", "answered", "removing", "done"}]
  /\ minor \in [Irp -> Minor]
  /\ lower \in [Irp -> {"idle", "holding", "SUCCESS", "UNSUCCESSFUL"}]
  /\ event \in [Irp -> {"none", "clear", "set"}]
  /\ status \in [Irp -> {"NOT_SUPPORTED", "SUCCESS", "UNSUCCESSFUL"}]
  /\ caps \in [Irp -> [SystemPower -> DevicePower]]
  /\ completed \in [Irp -> Nat]
  /\ astray \in SUBSET Irp
  /\ device \in {"attached", "gone"}

\* "an IRP cannot be handled twice, otherwise, BSOD code happen"
\* (DriverEntry.cpp:257): no PnP request is completed a second time, be it by
\* its handler after the driver below or by the removal after the default.
HandledOnce == \A i \in Irp : completed[i] <= 1

\* No handler uses an IRP that the driver below holds or that was completed,
\* and no completion routine sets the event of a frame that is gone; the one
\* exception is RemoveDevice, which writes the status of the IRP it has
\* completed (DriverEntry.cpp:270).
OnlyRemovalAstray == \A i \in astray : minor[i] = "REMOVE"

\* A start or a capabilities request that is over was answered by the driver
\* below first, and the answer sent up is that driver's own
\* (DeviceStart.cpp:20-25, DeviceCapability.cpp:23 and 44).
LowerAnswersFirst ==
  \A i \in Irp : minor[i] \in Forwarded /\ completed[i] > 0 => status[i] = lower[i]

\* A successful capabilities answer leaves no power state unspecified and
\* none less powered than what the handler stands for, whatever the bus said.
CapabilitiesSettled ==
  \A i \in Irp :
    minor[i] = "CAPABILITIES" /\ completed[i] > 0 /\ status[i] = "SUCCESS" =>
      /\ caps[i]["working"] = D0
      /\ caps[i]["sleeping"] \in D0..D3

\* Every request that enters the driver is completed, wherever the answer
\* from below comes in between; DeviceQueryDeviceRelation alone keeps its IRP
\* for ever (DeviceQueryRelation.cpp:17).
OnlyRelationsNeverCompleted ==
  \A i \in Irp :
    (pc[i] # "idle") ~> (completed[i] = 1 \/ minor[i] = "RELATIONS")
=============================================================================
