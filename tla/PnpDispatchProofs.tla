------------------------- MODULE PnpDispatchProofs -------------------------
(***************************************************************************)
(* Proofs about the PnP dispatcher, for any set of requests.               *)
(***************************************************************************)
EXTENDS PnpDispatch, TLAPS

Answer == {"SUCCESS", "UNSUCCESSFUL"}

(***************************************************************************)
(* The inductive invariant: what is true of a request at each place its    *)
(* thread can stand.                                                       *)
(***************************************************************************)

AtIdle(i) ==
  pc[i] = "idle" =>
    completed[i] = 0 /\ lower[i] = "idle" /\ event[i] = "none" /\ i \notin astray

\* The driver below holds the IRP until the event is set; then the IRP has
\* its answer.
AtForward(i) ==
  pc[i] \in {"calling", "waiting"} =>
    /\ minor[i] \in Forwarded /\ completed[i] = 0 /\ i \notin astray
    /\ \/ lower[i] = "holding" /\ event[i] = "clear"
       \/ lower[i] \in Answer /\ event[i] = "set" /\ status[i] = lower[i]

AtAnswered(i) ==
  pc[i] = "answered" =>
    /\ minor[i] \in Forwarded /\ completed[i] = 0 /\ i \notin astray
    /\ lower[i] \in Answer /\ status[i] = lower[i]

AtRemoving(i) ==
  pc[i] = "removing" =>
    minor[i] = "REMOVE" /\ completed[i] = 1 /\ lower[i] = "idle"

Settled(c) == c["working"] = D0 /\ c["sleeping"] \in D0..D3

AtDone(i) ==
  pc[i] = "done" =>
    /\ completed[i] = IF minor[i] = "RELATIONS" THEN 0 ELSE 1
    /\ lower[i] # "holding"
    /\ i \in astray => minor[i] = "REMOVE"
    /\ minor[i] \in Forwarded => status[i] = lower[i]
    /\ minor[i] = "CAPABILITIES" /\ status[i] = "SUCCESS" => Settled(caps[i])

RequestInv(i) ==
  AtIdle(i) /\ AtForward(i) /\ AtAnswered(i) /\ AtRemoving(i) /\ AtDone(i)

Inv == TypeOK /\ \A i \in Irp : RequestInv(i)

LEMMA InitInv == Init => Inv
<1> SUFFICES ASSUME Init PROVE Inv
  OBVIOUS
<1>1. [i \in Irp |-> [s \in SystemPower |-> Unspecified]]
        \in [Irp -> [SystemPower -> DevicePower]]
  BY DEF Unspecified, DevicePower, D3
<1>2. [i \in Irp |-> 0] \in [Irp -> Nat]
  OBVIOUS
<1>3. TypeOK
  BY <1>1, <1>2 DEF Init, TypeOK
<1>4. ASSUME NEW i \in Irp PROVE RequestInv(i)
  BY DEF Init, RequestInv, AtIdle, AtForward, AtAnswered, AtRemoving, AtDone
<1> QED
  BY <1>3, <1>4 DEF Inv

(***************************************************************************)
(* A step of one request leaves the others alone.                          *)
(***************************************************************************)

Alone(k) ==
  /\ pc'[k] = pc[k] /\ minor'[k] = minor[k] /\ lower'[k] = lower[k]
  /\ event'[k] = event[k] /\ status'[k] = status[k] /\ caps'[k] = caps[k]
  /\ completed'[k] = completed[k] /\ (k \in astray' <=> k \in astray)

LEMMA AloneInv ==
  ASSUME NEW k \in Irp, RequestInv(k), Alone(k)
  PROVE  RequestInv(k)'
BY DEF Alone, RequestInv, AtIdle, AtForward, AtAnswered, AtRemoving, AtDone

LEMMA OneRequest ==
  ASSUME Inv, NEW i \in Irp, TypeOK', RequestInv(i)',
         \A k \in Irp \ {i} : Alone(k)
  PROVE  Inv'
<1>1. ASSUME NEW k \in Irp, k # i PROVE RequestInv(k)'
  BY <1>1, AloneInv DEF Inv
<1> QED
  BY <1>1 DEF Inv

(***************************************************************************)
(* One lemma for each action.                                              *)
(***************************************************************************)

LEMMA DefaultInv ==
  ASSUME Inv, NEW i \in Irp, pc[i] = "idle", UNCHANGED minor, DefaultPnpHandler(i)
  PROVE  Inv'
<1>a. /\ TypeOK /\ AtIdle(i) /\ minor[i] = "OTHER"
      /\ pc' = [pc EXCEPT ![i] = "done"]
      /\ status' = [status EXCEPT ![i] = "SUCCESS"]
      /\ completed' = [completed EXCEPT ![i] = @ + 1]
      /\ UNCHANGED <<minor, lower, event, caps, device>>
  BY DEF Inv, RequestInv, DefaultPnpHandler, CompleteIrp, GoTo
<1>b. astray' = astray /\ completed[i] = 0 /\ lower[i] = "idle" /\ i \notin astray
  BY <1>a DEF DefaultPnpHandler, CompleteIrp, Use, Owned, AtIdle
<1>1. TypeOK'
  BY <1>a, <1>b DEF TypeOK
<1>2. RequestInv(i)'
  BY <1>a, <1>b DEF TypeOK, RequestInv, AtIdle, AtForward, AtAnswered, AtRemoving,
     AtDone, Forwarded
<1>3. \A k \in Irp \ {i} : Alone(k)
  BY <1>a, <1>b DEF TypeOK, Alone
<1> QED
  BY <1>1, <1>2, <1>3, OneRequest

LEMMA RelationsInv ==
  ASSUME Inv, NEW i \in Irp, pc[i] = "idle", UNCHANGED minor,
         DeviceQueryDeviceRelation(i)
  PROVE  Inv'
<1>a. /\ TypeOK /\ AtIdle(i) /\ minor[i] = "RELATIONS"
      /\ pc' = [pc EXCEPT ![i] = "done"]
      /\ UNCHANGED <<minor, lower, event, status, caps, completed, astray, device>>
  BY DEF Inv, RequestInv, DeviceQueryDeviceRelation, GoTo
<1>1. TypeOK'
  BY <1>a DEF TypeOK
<1>2. RequestInv(i)'
  BY <1>a DEF TypeOK, RequestInv, AtIdle, AtForward, AtAnswered, AtRemoving,
     AtDone, Forwarded
<1>3. \A k \in Irp \ {i} : Alone(k)
  BY <1>a DEF TypeOK, Alone
<1> QED
  BY <1>1, <1>2, <1>3, OneRequest

LEMMA RemoveInv ==
  ASSUME Inv, NEW i \in Irp, pc[i] = "idle", UNCHANGED minor, RemoveDevice(i)
  PROVE  Inv'
<1>a. /\ TypeOK /\ AtIdle(i) /\ minor[i] = "REMOVE"
      /\ pc' = [pc EXCEPT ![i] = "removing"]
      /\ status' = [status EXCEPT ![i] = "SUCCESS"]
      /\ completed' = [completed EXCEPT ![i] = @ + 1]
      /\ UNCHANGED <<minor, lower, event, caps, device>>
  BY DEF Inv, RequestInv, RemoveDevice, CompleteIrp, GoTo
<1>b. astray' = astray /\ completed[i] = 0 /\ lower[i] = "idle"
  BY <1>a DEF RemoveDevice, CompleteIrp, Use, Owned, AtIdle
<1>1. TypeOK'
  BY <1>a, <1>b DEF TypeOK
<1>2. RequestInv(i)'
  BY <1>a, <1>b DEF TypeOK, RequestInv, AtIdle, AtForward, AtAnswered, AtRemoving,
     AtDone
<1>3. \A k \in Irp \ {i} : Alone(k)
  BY <1>a, <1>b DEF TypeOK, Alone
<1> QED
  BY <1>1, <1>2, <1>3, OneRequest

LEMMA ForwardInv ==
  ASSUME Inv, NEW i \in Irp, pc[i] = "idle", UNCHANGED minor, ForwardAndWait(i)
  PROVE  Inv'
<1>a. /\ TypeOK /\ AtIdle(i) /\ minor[i] \in Forwarded
      /\ pc' = [pc EXCEPT ![i] = "calling"]
      /\ event' = [event EXCEPT ![i] = "clear"]
      /\ lower' = [lower EXCEPT ![i] = "holding"]
      /\ UNCHANGED <<minor, status, caps, completed, astray, device>>
  BY DEF Inv, RequestInv, ForwardAndWait, GoTo
<1>1. TypeOK'
  BY <1>a DEF TypeOK
<1>2. RequestInv(i)'
  BY <1>a DEF TypeOK, RequestInv, AtIdle, AtForward, AtAnswered, AtRemoving, AtDone
<1>3. \A k \in Irp \ {i} : Alone(k)
  BY <1>a DEF TypeOK, Alone
<1> QED
  BY <1>1, <1>2, <1>3, OneRequest

LEMMA RemoveRestInv ==
  ASSUME Inv, NEW i \in Irp, RemoveDeviceRest(i) PROVE Inv'
<1>a. /\ TypeOK /\ AtRemoving(i) /\ pc[i] = "removing"
      /\ pc' = [pc EXCEPT ![i] = "done"] /\ device' = "gone"
      /\ UNCHANGED <<minor, lower, event, status, caps, completed>>
      /\ astray' \in {astray, astray \cup {i}}
  BY DEF Inv, RequestInv, RemoveDeviceRest, GoTo, Use
<1>1. TypeOK'
  BY <1>a DEF TypeOK
<1>2. RequestInv(i)'
  BY <1>a DEF TypeOK, RequestInv, AtIdle, AtForward, AtAnswered, AtRemoving,
     AtDone, Forwarded
<1>3. \A k \in Irp \ {i} : Alone(k)
  BY <1>a DEF TypeOK, Alone
<1> QED
  BY <1>1, <1>2, <1>3, OneRequest

LEMMA LowerInv ==
  ASSUME Inv, NEW i \in Irp, LowerCompletes(i) PROVE Inv'
<1>0. PICK s \in Answer :
        /\ status' = [status EXCEPT ![i] = s]
        /\ lower' = [lower EXCEPT ![i] = s]
  BY DEF LowerCompletes, Answer
<1>b. PICK c \in [SystemPower -> DevicePower] : caps' = [caps EXCEPT ![i] = c]
  BY DEF LowerCompletes
<1>c. pc[i] \in {"calling", "waiting"}
  BY DEF Inv, TypeOK, RequestInv, AtIdle, AtAnswered, AtRemoving, AtDone,
     LowerCompletes, Answer
<1>d. /\ TypeOK /\ minor[i] \in Forwarded /\ completed[i] = 0 /\ i \notin astray
      /\ event[i] = "clear"
  BY <1>c DEF Inv, RequestInv, AtForward, LowerCompletes, Answer
<1>e. /\ event' = [event EXCEPT ![i] = "set"]
      /\ UNCHANGED <<pc, minor, device, completed, astray>>
  BY <1>d DEF LowerCompletes, OnRequestComplete
<1>1. TypeOK'
  BY <1>0, <1>b, <1>d, <1>e DEF TypeOK, Answer
<1>2. RequestInv(i)'
  BY <1>0, <1>c, <1>d, <1>e DEF TypeOK, RequestInv, AtIdle, AtForward, AtAnswered,
     AtRemoving, AtDone
<1>3. \A k \in Irp \ {i} : Alone(k)
  BY <1>0, <1>b, <1>d, <1>e DEF TypeOK, Alone
<1> QED
  BY <1>1, <1>2, <1>3, OneRequest

LEMMA ReturnInv ==
  ASSUME Inv, NEW i \in Irp, CallReturns(i) PROVE Inv'
<1>a. /\ TypeOK /\ AtForward(i) /\ pc[i] = "calling"
      /\ pc' = [pc EXCEPT ![i] = "waiting"]
      /\ UNCHANGED <<minor, lower, event, status, caps, completed, astray, device>>
  BY DEF Inv, RequestInv, CallReturns, GoTo
<1>1. TypeOK'
  BY <1>a DEF TypeOK
<1>2. RequestInv(i)'
  BY <1>a DEF TypeOK, RequestInv, AtIdle, AtForward, AtAnswered, AtRemoving, AtDone
<1>3. \A k \in Irp \ {i} : Alone(k)
  BY <1>a DEF TypeOK, Alone
<1> QED
  BY <1>1, <1>2, <1>3, OneRequest

LEMMA WaitInv ==
  ASSUME Inv, NEW i \in Irp, WaitEnds(i) PROVE Inv'
<1>a. /\ TypeOK /\ AtForward(i) /\ pc[i] = "waiting" /\ event[i] = "set"
      /\ pc' = [pc EXCEPT ![i] = "answered"]
      /\ event' = [event EXCEPT ![i] = "none"]
      /\ UNCHANGED <<minor, lower, status, caps, completed, astray, device>>
  BY DEF Inv, RequestInv, WaitEnds, GoTo
<1>1. TypeOK'
  BY <1>a DEF TypeOK
<1>2. RequestInv(i)'
  BY <1>a DEF TypeOK, RequestInv, AtIdle, AtForward, AtAnswered, AtRemoving, AtDone
<1>3. \A k \in Irp \ {i} : Alone(k)
  BY <1>a DEF TypeOK, Alone
<1> QED
  BY <1>1, <1>2, <1>3, OneRequest

\* What the end of StartDevice and of the capabilities handler have in common.
LEMMA AnswerUp ==
  ASSUME Inv, NEW i \in Irp, pc[i] = "answered", CompleteIrp(i, status[i])
  PROVE  /\ TypeOK /\ minor[i] \in Forwarded /\ completed[i] = 0 /\ i \notin astray
         /\ lower[i] \in Answer /\ status[i] = lower[i]
         /\ UNCHANGED <<astray, status>>
         /\ completed' = [completed EXCEPT ![i] = 1]
<1>1. /\ TypeOK /\ minor[i] \in Forwarded /\ completed[i] = 0 /\ i \notin astray
      /\ lower[i] \in Answer /\ status[i] = lower[i]
  BY DEF Inv, RequestInv, AtAnswered
<1>2. UNCHANGED astray
  BY <1>1 DEF CompleteIrp, Use, Owned, Answer
<1>3. UNCHANGED status
  BY <1>1 DEF CompleteIrp, TypeOK
<1>4. completed' = [completed EXCEPT ![i] = 1]
  BY <1>1 DEF CompleteIrp
<1> QED
  BY <1>1, <1>2, <1>3, <1>4

LEMMA StartInv ==
  ASSUME Inv, NEW i \in Irp, StartDevice(i) PROVE Inv'
<1>a. /\ TypeOK /\ completed[i] = 0 /\ i \notin astray /\ minor[i] = "START"
      /\ lower[i] \in Answer /\ status[i] = lower[i]
      /\ pc' = [pc EXCEPT ![i] = "done"]
      /\ completed' = [completed EXCEPT ![i] = 1]
      /\ UNCHANGED <<minor, lower, event, caps, device, astray, status>>
  BY AnswerUp DEF StartDevice, GoTo
<1>1. TypeOK'
  BY <1>a DEF TypeOK
<1>2. RequestInv(i)'
  BY <1>a DEF TypeOK, RequestInv, AtIdle, AtForward, AtAnswered, AtRemoving,
     AtDone, Answer
<1>3. \A k \in Irp \ {i} : Alone(k)
  BY <1>a DEF TypeOK, Alone
<1> QED
  BY <1>1, <1>2, <1>3, OneRequest

\* The macro of AcpiSmiWdmCommon.h:133: never unspecified, never beyond ours.
LEMMA MostPowered ==
  ASSUME NEW dps \in DevicePower, NEW ours \in D0..D3
  PROVE  SetMostPoweredState(dps, ours) \in D0..ours
BY DEF SetMostPoweredState, DevicePower, D0, D3, Unspecified

LEMMA CapabilitiesInv ==
  ASSUME Inv, NEW i \in Irp, PnpQueryCapabilitiesHandler(i) PROVE Inv'
<1>a. /\ TypeOK /\ completed[i] = 0 /\ i \notin astray /\ minor[i] = "CAPABILITIES"
      /\ lower[i] \in Answer /\ status[i] = lower[i]
      /\ pc' = [pc EXCEPT ![i] = "done"]
      /\ completed' = [completed EXCEPT ![i] = 1]
      /\ UNCHANGED <<minor, lower, event, device, astray, status>>
  BY AnswerUp DEF PnpQueryCapabilitiesHandler, GoTo
<1> DEFINE w == SetMostPoweredState(caps[i]["working"], D0)
           s == SetMostPoweredState(caps[i]["sleeping"], D3)
           c == [working |-> w, sleeping |-> s]
<1>b. \/ status[i] # "SUCCESS" /\ caps' = caps
      \/ caps' = [caps EXCEPT ![i] = c]
  BY DEF PnpQueryCapabilitiesHandler
<1>c. w = D0 /\ s \in D0..D3
  <2>1. caps[i]["working"] \in DevicePower /\ caps[i]["sleeping"] \in DevicePower
    BY <1>a DEF TypeOK, SystemPower
  <2>2. D0 \in D0..D3 /\ D3 \in D0..D3
    BY DEF D0, D3
  <2>3. w \in D0..D0 /\ s \in D0..D3
    BY <2>1, <2>2, MostPowered
  <2> QED
    BY <2>3 DEF D0
<1> HIDE DEF w, s
<1>d. c \in [SystemPower -> DevicePower] /\ Settled(c)
  BY <1>c DEF SystemPower, DevicePower, Unspecified, D0, D3, Settled
<1> HIDE DEF c
<1>1. TypeOK'
  BY <1>a, <1>b, <1>d DEF TypeOK
<1>2. RequestInv(i)'
  BY <1>a, <1>b, <1>d DEF TypeOK, RequestInv, AtIdle, AtForward, AtAnswered,
     AtRemoving, AtDone, Answer
<1>3. \A k \in Irp \ {i} : Alone(k)
  BY <1>a, <1>b DEF TypeOK, Alone
<1> QED
  BY <1>1, <1>2, <1>3, OneRequest

LEMMA NextInv == Inv /\ [Next]_vars => Inv'
<1> SUFFICES ASSUME Inv, [Next]_vars PROVE Inv'
  OBVIOUS
<1>1. CASE UNCHANGED vars
  <2>1. TypeOK' /\ \A k \in Irp : Alone(k)
    BY <1>1 DEF vars, Inv, TypeOK, Alone
  <2> QED
    BY <2>1, AloneInv DEF Inv
<1>2. ASSUME NEW i \in Irp, WdmPnp(i) PROVE Inv'
  BY <1>2, DefaultInv, RelationsInv, RemoveInv, ForwardInv DEF WdmPnp
<1>3. ASSUME NEW i \in Irp, Continue(i) PROVE Inv'
  BY <1>3, RemoveRestInv, ReturnInv, WaitInv, StartInv, CapabilitiesInv DEF Continue
<1>4. ASSUME NEW i \in Irp, LowerCompletes(i) PROVE Inv'
  BY <1>4, LowerInv
<1> QED
  BY <1>1, <1>2, <1>3, <1>4 DEF Next

(***************************************************************************)
(* The theorems.                                                           *)
(***************************************************************************)

\* The invariant holds of every reachable state.
THEOREM Invariance == Spec => []Inv
<1> QED
  BY InitInv, NextInv, PTL DEF Spec

\* Every variable of the dispatcher stays in its type.
THEOREM TypeCorrect == Spec => []TypeOK
<1>1. Inv => TypeOK
  BY DEF Inv
<1> QED
  BY Invariance, <1>1, PTL

\* No PnP request is completed a second time (DriverEntry.cpp:257).
THEOREM CompletedOnce == Spec => []HandledOnce
<1>1. Inv => HandledOnce
  <2> SUFFICES ASSUME Inv, NEW i \in Irp PROVE completed[i] <= 1
    BY DEF HandledOnce
  <2>1. completed[i] \in {0, 1}
    BY DEF Inv, TypeOK, RequestInv, AtIdle, AtForward, AtAnswered, AtRemoving, AtDone
  <2> QED
    BY <2>1
<1> QED
  BY Invariance, <1>1, PTL

\* RemoveDevice is the one handler that uses an IRP it no longer owns
\* (DriverEntry.cpp:270), and no event of a frame that is gone is ever set.
THEOREM AstrayInRemoval == Spec => []OnlyRemovalAstray
<1>1. Inv => OnlyRemovalAstray
  <2> SUFFICES ASSUME Inv, NEW i \in astray PROVE minor[i] = "REMOVE"
    BY DEF OnlyRemovalAstray
  <2>1. i \in Irp
    BY DEF Inv, TypeOK
  <2> QED
    BY <2>1 DEF Inv, TypeOK, RequestInv, AtIdle, AtForward, AtAnswered, AtRemoving,
       AtDone
<1> QED
  BY Invariance, <1>1, PTL

\* A start or capabilities request that is completed carries the answer of
\* the driver below (DeviceStart.cpp:20-25, DeviceCapability.cpp:23 and 44).
THEOREM AnswerFromBelow == Spec => []LowerAnswersFirst
<1>1. Inv => LowerAnswersFirst
  <2> SUFFICES ASSUME Inv, NEW i \in Irp, minor[i] \in Forwarded, completed[i] > 0
               PROVE  status[i] = lower[i]
    BY DEF LowerAnswersFirst
  <2>1. completed[i] # 0
    OBVIOUS
  <2> QED
    BY <2>1 DEF Inv, TypeOK, RequestInv, AtIdle, AtForward, AtAnswered, AtRemoving,
       AtDone, Forwarded
<1> QED
  BY Invariance, <1>1, PTL

\* A successful capabilities answer settles every power state
\* (DeviceCapability.cpp:32-37).
THEOREM SettledCapabilities == Spec => []CapabilitiesSettled
<1>1. Inv => CapabilitiesSettled
  <2> SUFFICES ASSUME Inv, NEW i \in Irp, minor[i] = "CAPABILITIES",
                      completed[i] > 0, status[i] = "SUCCESS"
               PROVE  caps[i]["working"] = D0 /\ caps[i]["sleeping"] \in D0..D3
    BY DEF CapabilitiesSettled
  <2>1. completed[i] # 0
    OBVIOUS
  <2>2. pc[i] = "done"
    BY <2>1 DEF Inv, TypeOK, RequestInv, AtIdle, AtForward, AtAnswered, AtRemoving
  <2> QED
    BY <2>2 DEF Inv, RequestInv, AtDone, Settled
<1> QED
  BY Invariance, <1>1, PTL

\* What must not be for every request to be answered: a request over but not
\* completed, or a wait for an event that nobody holds the IRP to set.
NoneForgotten ==
  \A i \in Irp :
    /\ pc[i] = "done" => completed[i] = 1 \/ minor[i] = "RELATIONS"
    /\ pc[i] \in {"calling", "waiting"} /\ event[i] = "clear" => lower[i] = "holding"

\* The safety half of OnlyRelationsNeverCompleted: ForwardAndWait waits only
\* while the driver below has the IRP (DirectIoMethod.cpp), and a handler that
\* returns has completed its IRP unless it is DeviceQueryDeviceRelation
\* (DeviceQueryRelation.cpp:17).
THEOREM NoRequestForgotten == Spec => []NoneForgotten
<1>1. Inv => NoneForgotten
  <2> SUFFICES ASSUME Inv, NEW i \in Irp
               PROVE  /\ pc[i] = "done" => completed[i] = 1 \/ minor[i] = "RELATIONS"
                      /\ pc[i] \in {"calling", "waiting"} /\ event[i] = "clear" =>
                           lower[i] = "holding"
    BY DEF NoneForgotten
  <2>1. AtForward(i) /\ AtDone(i)
    BY DEF Inv, RequestInv
  <2> QED
    BY <2>1 DEF AtForward, AtDone
<1> QED
  BY Invariance, <1>1, PTL
=============================================================================
