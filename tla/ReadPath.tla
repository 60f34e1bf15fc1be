------------------------------ MODULE ReadPath ------------------------------
(***************************************************************************)
(* Reader as a whole: DriverCallDriver (module DriverCall) and the queued  *)
(* read (module ReadQueue) on the thread of each read.  The call runs      *)
(* between the entry of Reader and IoSetCancelRoutine; the reads of        *)
(* several processes meet in hDevice and in the device queue.              *)
(***************************************************************************)
EXTENDS ReadQueue

CONSTANTS Process, ProcessOf, WithEvents, Handle, NoHandle

ASSUME PathAssumption ==
  /\ ProcessOf \in [Irp -> Process]
  /\ WithEvents \subseteq Process
  /\ NoHandle \notin Handle

VARIABLES call, hDevice, file, event, crossed, strayed

Call == INSTANCE DriverCall WITH Caller <- Irp

callVars == <<call, hDevice, file, event, crossed, strayed>>
pathVars == <<vars, callVars>>

PathInit == Init /\ Call!Init

\* Reader calls DriverCallDriver, which goes through its statements.
InCall(i) ==
  /\ pc[Issuer(i)] = "called"
  /\ Call!Run(i) \/ Call!WaitEnds(i)
  /\ UNCHANGED vars

\* The rest of Reader begins when DriverCallDriver has returned.
AfterCall(i) ==
  /\ call[i] = "returned"
  /\ SetCancelRoutine(i)
  /\ UNCHANGED callVars

Elsewhere ==
  \/ \E i \in Irp : Enter(i) \/ StartPacket(i) \/ CancelIrp(i)
  \/ \E t \in Thread : ThreadStep(t)

PathNext ==
  /\ ~Bugcheck
  /\ \/ \E i \in Irp : InCall(i) \/ AfterCall(i)
     \/ Elsewhere /\ UNCHANGED callVars
     \/ (\E p \in WithEvents : Call!OwnEvent(p)) /\ UNCHANGED vars

\* As in ReadQueue; that the call returns is not assumed.  Nothing obliges
\* the second driver to answer, or an astray wait to end.
PathFairness ==
  /\ \A i \in Irp :
       /\ WF_pathVars(~Bugcheck /\ pc[Issuer(i)] = "called" /\ Call!Run(i) /\ UNCHANGED vars)
       /\ WF_pathVars(~Bugcheck /\ AfterCall(i))
       /\ WF_pathVars(~Bugcheck /\ StartPacket(i) /\ UNCHANGED callVars)
  /\ \A t \in Thread : WF_pathVars(~Bugcheck /\ ThreadStep(t) /\ UNCHANGED callVars)

PathSpec == PathInit /\ [][PathNext]_pathVars
FairPathSpec == PathSpec /\ PathFairness

(***************************************************************************)
(* Properties.                                                             *)
(***************************************************************************)

\* The handle of a call goes astray only between two calls that run at the
\* same time (DeviceRead.cpp:63).
StraysOnlyIfCrossed == Call!StraysOnlyIfCrossed

\* A call that met no other one closes what it opened (DeviceRead.cpp:101).
NoHandleLost == Call!NoHandleLost

\* Every read that enters Reader is completed, though the second driver may
\* never answer: only a call that used a foreign handle can hold it up.
ReadsServed ==
  \A i \in Irp :
    pc[Issuer(i)] = "called" ~> (status[i] # "PENDING" \/ i \in strayed \/ Bugcheck)
=============================================================================
