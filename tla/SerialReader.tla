---------------------------- MODULE SerialReader ----------------------------
(***************************************************************************)
(* What the driver promises its readers: "put it to queue for StartIo      *)
(* Serial handling" (DeviceRead.cpp:120).  Reads wait in the order of      *)
(* their arrival, one at a time is served, and every read that is served   *)
(* is finished, once.                                                      *)
(***************************************************************************)
EXTENDS Naturals, Sequences

CONSTANTS Irp, NoIrp

VARIABLES
  fresh,     \* the reads that have not arrived yet
  waiting,   \* the reads that wait, oldest first
  serving,   \* the read being served, or NoIrp
  finished   \* the reads that were finished

vars == <<fresh, waiting, serving, finished>>

Init ==
  /\ fresh = Irp
  /\ waiting = <<>>
  /\ serving = NoIrp
  /\ finished = {}

\* A read arrives behind those that wait.
Arrive(i) ==
  /\ i \in fresh
  /\ fresh' = fresh \ {i}
  /\ waiting' = Append(waiting, i)
  /\ UNCHANGED <<serving, finished>>

\* A read arrives while nobody waits or is served: its service begins.
ArriveIdle(i) ==
  /\ i \in fresh
  /\ waiting = <<>> /\ serving = NoIrp
  /\ fresh' = fresh \ {i}
  /\ serving' = i
  /\ UNCHANGED <<waiting, finished>>

\* The oldest waiting read is served.
Serve ==
  /\ serving = NoIrp
  /\ waiting # <<>>
  /\ serving' = Head(waiting)
  /\ waiting' = Tail(waiting)
  /\ UNCHANGED <<fresh, finished>>

\* The service of a read ends.
Finish ==
  /\ serving # NoIrp
  /\ finished' = finished \cup {serving}
  /\ serving' = NoIrp
  /\ UNCHANGED <<fresh, waiting>>

Next ==
  \/ \E i \in Irp : Arrive(i) \/ ArriveIdle(i)
  \/ Serve
  \/ Finish

\* Whatever waits is served and whatever is served is finished.
Fairness == WF_vars(Serve) /\ WF_vars(Finish)

Service == Init /\ [][Next]_vars
Spec == Service /\ Fairness
=============================================================================
