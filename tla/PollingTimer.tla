---------------------------- MODULE PollingTimer ----------------------------
(***************************************************************************)
(* The polling timer in the device extension of the FDO.  The START_TIMER  *)
(* and STOP_TIMER requests (DeviceIoControl_Timer.cpp), the PnP request    *)
(* IRP_MN_QUERY_DEVICE_RELATIONS (DeviceQueryRelation.cpp) and the DPC of  *)
(* the timer (DeviceTimerDPC.cpp) share it without a lock, and RemoveDevice*)
(* (DriverEntry.cpp) deletes the device without touching it.               *)
(*                                                                         *)
(* Kernel objects, as the code uses them: the KTIMER is one-shot; when it  *)
(* expires its KDPC is put in a queue, unless it is there already; a       *)
(* processor takes the KDPC out and runs it, while it may be queued again; *)
(* KeCancelTimer disarms the timer and leaves a queued KDPC alone.         *)
(***************************************************************************)
EXTENDS Naturals

CONSTANTS
  Caller,   \* threads that send IOCTLs
  Cpu,      \* processors that run DPCs
  Period    \* the three seconds of Start_Timer_Function, in clock ticks

ASSUME PeriodAssumption == Period \in Nat \ {0}

VARIABLES
  pollingInterval,  \* pdx->pollingInterval, 0 as long as nobody wrote it
  due,              \* ticks until pdx->pollingTimer expires, 0: not armed
  queued,           \* pdx->pollingDPC waits for a processor
  dpc,              \* the processors inside PollingTimerDpc
  starting,         \* the callers between the two statements of a start
  fdo,              \* "live" until RemoveDevice, then "deleted"
  since,            \* history: ticks since the last expiration, up to Period
  early,            \* history: an expiration came before Period was over
  quiet,            \* history: a cancel found no DPC, and no start followed
  stale             \* history: timer or DPC used after the device's deletion

timer == <<pollingInterval, due, queued, dpc>>
history == <<since, early, quiet, stale>>
vars == <<timer, starting, fdo, history>>

\* AddDevice: IoCreateDevice zeroes the extension, then KeInitializeTimer
\* and KeInitializeDpc.
Init ==
  /\ pollingInterval = 0
  /\ due = 0
  /\ queued = FALSE
  /\ dpc = {}
  /\ starting = {}
  /\ fdo = "live"
  /\ since = Period
  /\ early = FALSE
  /\ quiet = TRUE
  /\ stale = FALSE

\* The timer expires: its DPC is queued.
Expire ==
  /\ queued' = TRUE
  /\ since' = 0
  /\ early' = (early \/ since < Period)

\* KeSetTimer(&pollingTimer, pollingInterval, &pollingDPC): an armed timer is
\* set anew; a due time of zero has come already.
KeSetTimer ==
  /\ due' = pollingInterval
  /\ IF pollingInterval = 0 THEN Expire ELSE UNCHANGED <<queued, since, early>>

\* KeCancelTimer(&pollingTimer).
KeCancelTimer ==
  /\ due' = 0
  /\ quiet' = (quiet \/ (~queued /\ dpc = {}))
  /\ UNCHANGED <<pollingInterval, queued, dpc, starting, fdo, since, early, stale>>

(***************************************************************************)
(* The requests.                                                           *)
(***************************************************************************)

\* Start_Timer_Function writes the interval ...
StartWrite(c) ==
  /\ fdo = "live"
  /\ c \notin starting
  /\ pollingInterval' = Period
  /\ starting' = starting \cup {c}
  /\ UNCHANGED <<due, queued, dpc, fdo, history>>

\* ... and sets the timer with it.
StartSet(c) ==
  /\ c \in starting
  /\ KeSetTimer
  /\ starting' = starting \ {c}
  /\ quiet' = FALSE
  /\ UNCHANGED <<pollingInterval, dpc, fdo, stale>>

\* Mutant: the timer is not cancelled.
StopForgetsTimer(c) ==
  /\ fdo = "live"
  /\ c \notin starting
  /\ quiet' = (quiet \/ (~queued /\ dpc = {}))
  /\ UNCHANGED <<timer, starting, fdo, since, early, stale>>

\* Stop_Timer_Function.
Stop(c) == fdo = "live" /\ c \notin starting /\ KeCancelTimer

\* DeviceQueryDeviceRelation, which the PnP manager calls when it likes.
QueryDeviceRelations == fdo = "live" /\ KeCancelTimer

\* RemoveDevice: IoDeleteDevice frees the extension.  Every handle is closed
\* by then, so that no request is under way.
RemoveDevice ==
  /\ fdo = "live"
  /\ starting = {}
  /\ fdo' = "deleted"
  /\ UNCHANGED <<timer, starting, history>>

(***************************************************************************)
(* Clock and DPC.                                                          *)
(***************************************************************************)

\* What the kernel or the DPC does with freed memory is not predictable; the
\* first such use is recorded and ends the behaviour.
Touch == stale' = (fdo = "deleted")

\* The clock advances by a tick.
Tick ==
  \/ /\ due = 1
     /\ due' = 0
     /\ queued' = TRUE
     /\ since' = 0
     /\ early' = (early \/ since + 1 < Period)
     /\ Touch
     /\ UNCHANGED <<pollingInterval, dpc, starting, fdo, quiet>>
  \/ /\ due # 1
     /\ due' = IF due = 0 THEN 0 ELSE due - 1
     /\ since' = IF since = Period THEN Period ELSE since + 1
     /\ UNCHANGED <<pollingInterval, queued, dpc, starting, fdo, early, quiet, stale>>

\* A processor takes the DPC out of the queue and enters PollingTimerDpc.
DpcBegin(p) ==
  /\ queued
  /\ p \notin dpc
  /\ queued' = FALSE
  /\ dpc' = dpc \cup {p}
  /\ Touch
  /\ UNCHANGED <<pollingInterval, due, starting, fdo, since, early, quiet>>

\* Mutant: the DPC sets the timer to the next tick, not to the interval.
DpcRearmAtOnce(p) ==
  /\ p \in dpc
  /\ due' = 1
  /\ dpc' = dpc \ {p}
  /\ Touch
  /\ UNCHANGED <<pollingInterval, queued, starting, fdo, since, early, quiet>>

\* Mutant: the DPC does not set the timer again.
DpcForgetsTimer(p) ==
  /\ p \in dpc
  /\ dpc' = dpc \ {p}
  /\ Touch
  /\ UNCHANGED <<pollingInterval, due, queued, starting, fdo, since, early, quiet>>

\* PollingTimerDpc sets the timer again and returns.
DpcRearm(p) ==
  /\ p \in dpc
  /\ KeSetTimer
  /\ dpc' = dpc \ {p}
  /\ Touch
  /\ UNCHANGED <<pollingInterval, starting, fdo, quiet>>

(***************************************************************************)
(* The specification.                                                      *)
(***************************************************************************)

Request ==
  \/ \E c \in Caller : StartWrite(c) \/ StartSet(c) \/ Stop(c)
  \/ QueryDeviceRelations
  \/ RemoveDevice

Next == ~stale /\ (Request \/ Tick \/ \E p \in Cpu : DpcBegin(p) \/ DpcRearm(p))

\* Clock and processors do not stop, nor does a thread inside a start; no
\* request is ever bound to come.
Fairness ==
  /\ WF_vars(~stale /\ Tick)
  /\ WF_vars(~stale /\ \E p \in Cpu : DpcBegin(p))
  /\ \A p \in Cpu : WF_vars(~stale /\ DpcRearm(p))
  /\ \A c \in Caller : WF_vars(~stale /\ StartSet(c))

Spec == Init /\ [][Next]_vars
FairSpec == Spec /\ Fairness

(***************************************************************************)
(* Properties.                                                             *)
(***************************************************************************)

\* Every variable of the timer stays in its type.
TypeOK ==
  /\ pollingInterval \in {0, Period}
  /\ due \in 0..Period
  /\ queued \in BOOLEAN
  /\ dpc \in SUBSET Cpu
  /\ starting \in SUBSET Caller
  /\ fdo \in {"live", "deleted"}
  /\ since \in 0..Period
  /\ early \in BOOLEAN
  /\ quiet \in BOOLEAN
  /\ stale \in BOOLEAN

\* The timer is armed, or its DPC queued or running: it polls.
Polling == due > 0 \/ queued \/ dpc # {}

\* However starts, stops, DPCs and delays of the DPC interleave, the timer
\* expires at most once in each three seconds (DeviceIoControl_Timer.cpp:55
\* and DeviceTimerDPC.cpp:23 use the one timer and the one interval).
NeverEarly == ~early

\* The timer is quiet if and only if the last stop since it was started found
\* no DPC queued or running: such a stop is final until the next start, and
\* one that misses a DPC ends nothing (Stop_Timer_Function cancels the timer
\* only, and the DPC it misses sets it again, DeviceTimerDPC.cpp:23).
StopHolds == quiet <=> ~Polling

\* Deleting the device is safe when nothing polls by such a stop: a use of
\* the deleted device's timer means that RemoveDevice (DriverEntry.cpp:275)
\* came while the polling had not been stopped for good.
StaleOnlyIfLeftPolling == stale => fdo = "deleted" /\ ~quiet

\* Polling ends only where the code cancels the timer: no interleaving of a
\* start with the DPC loses the timer.
EndsByCancelOnly ==
  [][Polling /\ ~Polling' => QueryDeviceRelations \/ \E c \in Caller : Stop(c)]_vars

\* While the device lives, polling goes on unless a stop ends it for good or
\* starts come for ever: the DPC runs again and again
\* (DeviceTimerDPC.cpp:23 sets the one-shot timer each time).
PollingGoesOn ==
  \/ []<>(dpc # {})
  \/ <>[]quiet
  \/ []<><<\E c \in Caller : StartSet(c)>>_vars
  \/ <>(fdo = "deleted")
=============================================================================
