------------------------- MODULE PollingTimerProofs -------------------------
(***************************************************************************)
(* Proofs about the polling timer, for any callers, processors and period. *)
(***************************************************************************)
EXTENDS PollingTimer, TLAPS

(***************************************************************************)
(* The inductive invariant: whoever polls has the interval of a start, a   *)
(* timer that is armed is not due before the period is over, a quiet timer *)
(* does not poll, and a stale one was not quiet.                           *)
(***************************************************************************)

IntervalKnown ==
  Polling \/ starting # {} => pollingInterval = Period

DueInTime == due > 0 => since + due >= Period

StopEnds == quiet => ~Polling

Inv ==
  /\ TypeOK
  /\ IntervalKnown
  /\ DueInTime
  /\ NeverEarly
  /\ StopEnds
  /\ StaleOnlyIfLeftPolling

LEMMA InitInv == Init => Inv
<1> SUFFICES ASSUME Init PROVE Inv
  OBVIOUS
<1> USE PeriodAssumption DEF Init
<1>1. TypeOK
  <2>1. due \in 0..Period /\ since \in 0..Period
    OBVIOUS
  <2> QED
    BY <2>1 DEF TypeOK
<1>2. ~Polling
  BY DEF Polling
<1> QED
  BY <1>1, <1>2 DEF Inv, IntervalKnown, DueInTime, NeverEarly, StopEnds,
     StaleOnlyIfLeftPolling

\* What setting the timer does once an interval was written.
LEMMA SetTimer ==
  ASSUME TypeOK, pollingInterval = Period, KeSetTimer
  PROVE  /\ due' = Period /\ UNCHANGED <<queued, since, early>>
         /\ due' > 0 /\ due' \in 0..Period
BY PeriodAssumption DEF TypeOK, KeSetTimer

LEMMA NextInv == Inv /\ [Next]_vars => Inv'
<1> SUFFICES ASSUME Inv, [Next]_vars PROVE Inv'
  OBVIOUS
<1> USE PeriodAssumption
<1>a. TypeOK /\ IntervalKnown /\ DueInTime /\ ~early
      /\ (quiet => ~Polling) /\ (stale => fdo = "deleted" /\ ~quiet)
  BY DEF Inv, NeverEarly, StopEnds, StaleOnlyIfLeftPolling
<1> DEFINE Goal ==
      /\ TypeOK' /\ IntervalKnown' /\ DueInTime' /\ ~early'
      /\ (quiet' => ~Polling') /\ (stale' => fdo' = "deleted" /\ ~quiet')
<1> SUFFICES Goal
  BY DEF Inv, NeverEarly, StopEnds, StaleOnlyIfLeftPolling
<1>1. ASSUME NEW c \in Caller, StartWrite(c) PROVE Goal
  BY <1>1, <1>a DEF StartWrite, TypeOK, IntervalKnown, DueInTime, Polling, history
<1>2. ASSUME NEW c \in Caller, StartSet(c) PROVE Goal
  <2>1. pollingInterval = Period
    BY <1>2, <1>a DEF StartSet, IntervalKnown
  <2>2. due' = Period /\ UNCHANGED <<queued, since, early>>
    BY <1>2, <1>a, <2>1, SetTimer DEF StartSet
  <2>3. /\ starting' = starting \ {c} /\ quiet' = FALSE
        /\ UNCHANGED <<pollingInterval, dpc, fdo, stale>>
    BY <1>2 DEF StartSet
  <2>4. due' \in 0..Period /\ DueInTime'
    BY <1>a, <2>2 DEF TypeOK, DueInTime
  <2> QED
    BY <1>a, <2>1, <2>2, <2>3, <2>4 DEF TypeOK, IntervalKnown
<1>3. ASSUME fdo = "live", KeCancelTimer PROVE Goal
  BY <1>3, <1>a DEF KeCancelTimer, TypeOK, IntervalKnown, DueInTime, Polling
<1>4. CASE RemoveDevice
  BY <1>4, <1>a DEF RemoveDevice, TypeOK, IntervalKnown, DueInTime, Polling,
     timer, history
<1>5. CASE Tick
  <2>1. CASE due = 1
    <3>1. Polling /\ ~quiet /\ pollingInterval = Period /\ since + 1 >= Period
      BY <2>1, <1>a DEF Polling, IntervalKnown, DueInTime
    <3>2. ~(since + 1 < Period)
      BY <3>1, <1>a DEF TypeOK
    <3> QED
      BY <1>5, <2>1, <3>1, <3>2, <1>a
      DEF Tick, Touch, TypeOK, IntervalKnown, DueInTime, Polling
  <2>2. CASE due # 1
    <3>1. /\ due' = IF due = 0 THEN 0 ELSE due - 1
          /\ since' = IF since = Period THEN Period ELSE since + 1
          /\ UNCHANGED <<pollingInterval, queued, dpc, starting, fdo, early, quiet, stale>>
      BY <1>5, <2>2 DEF Tick
    <3>2. due' \in 0..Period /\ since' \in 0..Period /\ DueInTime'
      BY <2>2, <3>1, <1>a DEF TypeOK, DueInTime
    <3>3. Polling' => Polling
      BY <2>2, <3>1, <1>a DEF Polling, TypeOK
    <3> QED
      BY <3>1, <3>2, <3>3, <1>a DEF TypeOK, IntervalKnown
  <2> QED
    BY <2>1, <2>2
<1>6. ASSUME NEW p \in Cpu, DpcBegin(p) PROVE Goal
  <2>1. Polling /\ ~quiet /\ pollingInterval = Period
    BY <1>6, <1>a DEF DpcBegin, Polling, IntervalKnown
  <2> QED
    BY <1>6, <2>1, <1>a DEF DpcBegin, Touch, TypeOK, IntervalKnown, DueInTime
<1>7. ASSUME NEW p \in Cpu, DpcRearm(p) PROVE Goal
  <2>1. Polling /\ ~quiet /\ pollingInterval = Period
    BY <1>7, <1>a DEF DpcRearm, Polling, IntervalKnown
  <2>2. due' = Period /\ UNCHANGED <<queued, since, early>>
    BY <1>7, <1>a, <2>1, SetTimer DEF DpcRearm
  <2> QED
    BY <1>7, <2>1, <2>2, <1>a DEF DpcRearm, Touch, TypeOK, IntervalKnown, DueInTime
<1>8. CASE UNCHANGED vars
  BY <1>8, <1>a DEF vars, timer, history, TypeOK, IntervalKnown, DueInTime, Polling
<1> QED
  BY <1>1, <1>2, <1>3, <1>4, <1>5, <1>6, <1>7, <1>8
  DEF Next, Request, Stop, QueryDeviceRelations

\* The invariant holds of every reachable state.
THEOREM Invariance == Spec => []Inv
<1> QED
  BY InitInv, NextInv, PTL DEF Spec

\* Every variable of the timer stays in its type; pollingInterval in
\* particular is never anything but nothing or the period.
THEOREM TypeCorrect == Spec => []TypeOK
<1>1. Inv => TypeOK
  BY DEF Inv
<1> QED
  BY Invariance, <1>1, PTL

\* Whatever starts, stops and DPCs interleave, the timer does not expire
\* twice within one period (DeviceIoControl_Timer.cpp:55, DeviceTimerDPC.cpp:23).
THEOREM KeepsPeriod == Spec => []NeverEarly
<1>1. Inv => NeverEarly
  BY DEF Inv
<1> QED
  BY Invariance, <1>1, PTL

\* A timer that a stop has left quiet is not used after RemoveDevice
\* (DriverEntry.cpp:275).
THEOREM QuietRemovalIsSafe == Spec => []StaleOnlyIfLeftPolling
<1>1. Inv => StaleOnlyIfLeftPolling
  BY DEF Inv
<1> QED
  BY Invariance, <1>1, PTL

(***************************************************************************)
(* Where polling ends.                                                     *)
(***************************************************************************)

LEMMA PollingEnds ==
  ASSUME Inv, [Next]_vars, Polling, ~Polling'
  PROVE  QueryDeviceRelations \/ \E c \in Caller : Stop(c)
<1> USE PeriodAssumption
<1>a. TypeOK /\ pollingInterval = Period
  BY DEF Inv, IntervalKnown
<1>1. ASSUME NEW c \in Caller, StartWrite(c) PROVE FALSE
  BY <1>1 DEF StartWrite, Polling
<1>2. ASSUME NEW c \in Caller, StartSet(c) PROVE FALSE
  BY <1>2, <1>a, SetTimer DEF StartSet, Polling
<1>3. CASE RemoveDevice
  BY <1>3 DEF RemoveDevice, Polling, timer
<1>4. ASSUME Tick PROVE FALSE
  BY <1>4, <1>a DEF Tick, Polling, TypeOK
<1>5. ASSUME NEW p \in Cpu, DpcBegin(p) PROVE FALSE
  BY <1>5 DEF DpcBegin, Polling
<1>6. ASSUME NEW p \in Cpu, DpcRearm(p) PROVE FALSE
  BY <1>6, <1>a, SetTimer DEF DpcRearm, Polling
<1>7. CASE UNCHANGED vars
  BY <1>7 DEF vars, timer, Polling
<1> QED
  BY <1>1, <1>2, <1>3, <1>4, <1>5, <1>6, <1>7 DEF Next, Request

\* No interleaving of a start with a DPC loses the timer: polling ends only
\* in a step that cancels it (DeviceIoControl_Timer.cpp:75,
\* DeviceQueryRelation.cpp:16).
THEOREM OnlyCancelEnds == Spec => EndsByCancelOnly
<1>1. Inv /\ [Next]_vars =>
        [Polling /\ ~Polling' => QueryDeviceRelations \/ \E c \in Caller : Stop(c)]_vars
  BY PollingEnds
<1> QED
  BY Invariance, <1>1, PTL DEF Spec, EndsByCancelOnly

(***************************************************************************)
(* What was started polls until a stop has ended it for good.              *)
(***************************************************************************)

PollsUntilQuiet == ~quiet => Polling

LEMMA StaysPolling ==
  ASSUME Inv, PollsUntilQuiet, [Next]_vars
  PROVE  PollsUntilQuiet'
<1> USE PeriodAssumption
<1>a. TypeOK /\ IntervalKnown
  BY DEF Inv
<1> SUFFICES ASSUME ~Polling' PROVE quiet'
  BY DEF PollsUntilQuiet
<1>1. CASE Polling
  <2>1. KeCancelTimer
    BY <1>1, PollingEnds DEF QueryDeviceRelations, Stop
  <2> QED
    BY <2>1 DEF KeCancelTimer, Polling
<1>2. CASE ~Polling
  <2>1. quiet /\ due = 0 /\ ~queued /\ dpc = {}
    BY <1>2, <1>a DEF PollsUntilQuiet, Polling, TypeOK
  <2>2. ASSUME NEW c \in Caller, StartSet(c) PROVE FALSE
    <3>1. pollingInterval = Period
      BY <1>a, <2>2 DEF IntervalKnown, StartSet
    <3> QED
      BY <1>a, <2>2, <3>1, SetTimer DEF StartSet, Polling
  <2>3. ASSUME NEW c \in Caller, Stop(c) \/ StartWrite(c) PROVE quiet'
    BY <2>1, <2>3 DEF Stop, KeCancelTimer, StartWrite, history
  <2>4. CASE QueryDeviceRelations \/ RemoveDevice
    BY <2>1, <2>4 DEF QueryDeviceRelations, KeCancelTimer, RemoveDevice, history
  <2>5. CASE Tick \/ UNCHANGED vars
    BY <2>1, <2>5 DEF Tick, vars, history
  <2>6. ASSUME NEW p \in Cpu, DpcBegin(p) \/ DpcRearm(p) PROVE quiet'
    BY <2>1, <2>6 DEF DpcBegin, DpcRearm
  <2> QED
    BY <2>2, <2>3, <2>4, <2>5, <2>6 DEF Next, Request
<1> QED
  BY <1>1, <1>2

\* A stop that finds no DPC queued or running holds until the next start; and,
\* the safety half of PollingGoesOn, what was started has its timer armed or its
\* DPC queued or running until then, whatever stops come while the DPC is there
\* (DeviceIoControl_Timer.cpp:75, DeviceTimerDPC.cpp:23).
THEOREM OnlyQuietStopEnds == Spec => []StopHolds
<1>1. Init => PollsUntilQuiet
  BY DEF Init, PollsUntilQuiet
<1>2. Inv /\ PollsUntilQuiet /\ [Next]_vars => PollsUntilQuiet'
  BY StaysPolling
<1>3. Inv /\ PollsUntilQuiet => StopHolds
  BY DEF Inv, StopEnds, PollsUntilQuiet, StopHolds, Polling
<1> QED
  BY InitInv, NextInv, <1>1, <1>2, <1>3, PTL DEF Spec
=============================================================================
