# A formal model of the AcpiSim WDM driver

This directory is a TLA+ development of the driver in this repository: modules
that model its request paths, TLC configurations that check them on small
instances, and theorems that TLAPS proves for every value of the constants.
Line numbers refer to the files of the repository root.

## 1. The system

The program is one Windows WDM driver (`DriverEntry.cpp` and the files it
calls) and a console application that sends it requests
(`AcpiSimTestApp/`). The driver owns a function device object (FDO) above the
PDO that ACPI reports; all its state is the device extension of that FDO.

| Component | State it keeps | Operations | Module |
|---|---|---|---|
| Queued read path (`DeviceRead.cpp`, `DeviceStartIO.cpp`, `DeviceCancelIrp.cpp`) | device queue, `CurrentIrp`, cancel routine and `Cancel` of each IRP | `Reader`, `StartIo`, `CancelReadIrp`, `onCancelIrp` | `ReadQueue`, `SerialReader`, `ReadPath` |
| Keyboard filter read (`DispatchRoutine.cpp` 65-120) | `pendingkey`, stack of each IRP | `Reader`, `ReadComplete` | `KbdFilterRead` |
| Writer (`DispatchRoutine.cpp` 124-160) | `buffer`, `file_length` | `Writer` | `DeviceWriter` |
| Polling timer (`DeviceIoControl_Timer.cpp`, `DeviceTimerDPC.cpp`, `DeviceQueryRelation.cpp`) | `pollingTimer`, `pollingDPC`, `pollingInterval` | start and stop IOCTL, `PollingTimerDpc`, `DeviceQueryDeviceRelation`, `RemoveDevice` | `PollingTimer` |
| PnP dispatch (`DriverEntry.cpp` 244-387, `DeviceStart.cpp`, `DirectIoMethod.cpp`, `DeviceCapability.cpp`) | each IRP, event of the waiting thread | `WdmPnp` and its table of handlers, `ForwardAndWait`, `OnRequestComplete` | `PnpDispatch` |
| ACPI requests (`DeviceIoControl.cpp` 31-440) | output buffers, pool | `AcpiChildEnum`, `AcpiEvaluate`, `SendDownStreamIrp` | `AcpiRequests` |
| Port and PCI requests (`DeviceIoControl.cpp` 515-551, `DeviceSpaceConfig.cpp`, `ConsoleApplication1.cpp` 130-180) | the address port of the host bridge | `READ_PORT`, `WRITE_PORT`, `PCI_CONFIG`, `DisplayPCIConfiguration` | `PciAccess` |
| WMI provider (`WmiSupport.cpp`, `WmiSystemIoCode.cpp`) | `TheAnswer` | `SystemControl` and the WMILIB callbacks | `WmiProvider` |
| Driver and device lifecycle (`DriverEntry.cpp` 42-305) | device name, symbolic link, attachment, WMI registration | `DriverEntry`, `AddDevice`, `RemoveDevice`, `Unload` | `DeviceLifecycle` |
| Calls of a second driver (`DeviceRead.cpp` 49-103) | `hDevice` in the extension, handle tables of the reading processes | `DriverCallDriver` | `DriverCall`, `ReadPath` |
| ACPI operation region (`AcpiOpRegion.cpp`) | `g_OpRegionSharedMemory`, the handler ACPI has | `AcpiInstallOpRegionHandler`, `AcpisimOpRegionHandler` | `OpRegion`, `DriverLife` |
| Create, close, cleanup, shutdown | none | complete with success | not modelled |
| Debug helpers (`Enum.cpp`, `Devicemisc.cpp`, ...), tables (`asl/`, `wmi42.mof`) | none | none | not modelled |

**How they interact.** All components meet in the device extension and in the
IRP. The I/O manager calls `Reader`, `Writer`, the IOCTL handler, `WdmPnp` and
`SystemControl` on the thread of whoever issued the request, any number of
them at once. The device queue calls `StartIo`; a cancellation calls
one of the two cancel routines under the system cancel spin lock; the timer
queues a DPC that sets the timer again; `StartDevice` installs the operation
region, whose handler ACPI calls for the AML of the firmware; `RemoveDevice` frees the extension under
all of them. `ForwardAndWait`, `SendDownStreamIrp` and `ReadWriteConfigSpace`
send IRPs down and wait for a completion routine or an event. WMILIB calls back
into the driver.

**What is hard here.** Apart from the cancel spin lock nothing in the driver
is locked: `file_length`, `pendingkey`, `TheAnswer` and `pollingInterval` are
read and written by concurrent requests, and so are `hDevice` and
`g_OpRegionSharedMemory`. Cancellation races with service, a
timer stop races with the DPC that rearms it, an answer from below races with
the return of `IoCallDriver`, children come and go between two requests of one
enumeration, `AddDevice` can fail half way. There is no persistent state, so
there is no crash recovery to model, and requests are neither lost nor
duplicated by the kernel. `PROJECT.json` lists each hazard at its line with the
properties that cover it.

### Build configurations

`Feature_Flag.h` sets `KEYBAORD_FILTER` to 1. In that build `IRP_MJ_READ` is
the `Reader` of `DispatchRoutine.cpp` (module `KbdFilterRead`), which passes the
read to the keyboard device `MyAttachDevice` attached to; `DriverEntry` does not
call `MyAttachDevice` at present. With `KEYBAORD_FILTER` 0 it is the
`Reader` of `DeviceRead.cpp`, and the queued read path (module `ReadQueue`) is in
use, behind the call of a second driver (module `DriverCall`); `StartIo` and `onCancelIrp` are compiled in both. `DisplayPCIConfiguration` is
commented out in the `main` of the test application, and
`BASE_TBL_OPREGION_SUPPORT` is 0 (`DeviceStart.cpp:46`): modules `OpRegion` and `DriverLife`
are about the build in which it is 1. The models follow the code of the respective
configuration.

## 2. The modules

Common conventions: `pc` says where the thread of a request stands; one action
is a stretch of a handler that no other actor can see into, so code between
two accesses to shared state is one action; variables called *history* are not in
the code and only remember what a property needs. Operators whose comment begins
with "Mutant" are plausible mistakes in the code; no specification uses
them, and they are there to show that each property can fail.

**SerialReader** - what the read path promises: reads wait in the order in which
they came, one is served at a time, each is finished.

**ReadQueue** - two threads per IRP, the one that reads and the one that
cancels. `Enter` (up to the call of the second driver), `SetCancelRoutine` and
`StartPacket` are `Reader`; `Claim` (the critical
section), `Finish` (wait, copy, completion) and `StartNextPacket` are `StartIo`;
`CancelIrp` is `IoCancelIrp` with the critical sections of `CancelReadIrp` and
`onCancelIrp`, which go on with `StartNextPacket` and `CompleteCancelled`. The
nested calls `StartIo -> IoStartNextPacket -> StartIo` run on one thread and
become a loop, since a frame of `StartIo` does nothing after `IoStartNextPacket`.
A second completion stops the machine (`Bugcheck`), as the I/O manager does. A
completed IRP's `Cancel` may read as anything (`CancelSeen`).

**DriverCall** - the statements of `DriverCallDriver`, one action each, since
every one of them takes the handle anew from `hDevice`: `CreateFile`, `ReadFile`,
`Reference`, `WaitEnds`, `Close`. A handle is an entry of the handle table of the
process that reads (`OBJ_KERNEL_HANDLE` is not set), so that the same number may
name nothing in another process, or an event of the application (`OwnEvent`).
`Reference` asks for an event where the handle is that of a file, and fails:
the wait is left out. Only where `hDevice` has come to name an event does it take place.

**ReadPath** - `ReadQueue` and `DriverCall` on the thread of each read: the call
runs between `Enter` and `SetCancelRoutine`, the reads meet in `hDevice` and in
the device queue. It has all of `Reader`.

**KbdFilterRead** - `CountUp` (stack location copied, completion routine set,
`pendingkey` raised), `CallDriver`, `Return`, and, on any other thread and at any
time after the call, `ReadComplete` and `CountDown`. `pendingkey++` and `--` are a
load and a store each, of a ULONG.

**DeviceWriter** - `Enter` (parameters and range test, sums of ULONGs modulo
`Modulus`), `Copy`, `Test`, `Raise`, `Complete`. The test of `file_length` and the
assignment are two steps, because nothing locks them.

**PollingTimer** - a clock in ticks, one timer, one DPC object, several
processors. A start is two statements and hence two steps (`StartWrite`,
`StartSet`). `KeSetTimer` and `KeCancelTimer` are modelled as the kernel documents
them: a cancel removes a timer that has not expired and does nothing to a DPC
that is queued or running.

**PnpDispatch** - every handler of the table in `WdmPnp`. `ForwardAndWait` is a
call (`ForwardAndWait`), a completion by the driver below at any later time
(`LowerCompletes`, `OnRequestComplete`), the return of the call and the end of the
wait, in every order the event allows.

**AcpiRequests** - `IOCTL_TEST1` with an enumeration or an evaluation, the
driver below that answers at once, later or with an error, children that
change, and a pool that runs out. Sizes are counted in units: a header, and two per child.

**PciAccess** - register reads through the port pair by several applications,
and the `PCI_CONFIG` request.

**WmiProvider** - `SystemControl` with the disposition WMILIB returns, and the
four callbacks. A callback is two steps, the access to `TheAnswer`, which nothing locks
(`QueryDataBlock`, `SetData`, `ExecuteMehtod`), and `WmiCompleteRequest`, so that
requests overlap. The history `before` holds which request was completed before which
other one came: all a client can know of their order.

**DeviceLifecycle** - `AddDevice` call by call: `IoCreateDevice` fails,
`IoAttachDeviceToDeviceStack` returns NULL (`unattached`, line 185, which nobody
tests there), the symbolic link fails once or twice, because other software has one of
that name or for want of memory, the WMI registration fails; then
`RemoveDevice`, `Unload`, and the other software. The PnP manager's `IRP_MN_REMOVE_DEVICE` goes
down the stack of the PDO and does not meet an FDO that is not attached, so that the
removal of such a PDO leaves the FDO, with name and link, to the loop of `Unload` (lines
291-298).

**OpRegion** - one field of the shared block and the handler. `Allocate`,
`ZeroMemory` and `Register` are the three statements of the installation;
between them, from the second installation on, AML may use the handler
(`WriteField`, `ReadField`); `AccessFaults` and the second branch of `ZeroMemory` are
uses of a block that is not there. `Leave` is what becomes of it in `Unload`.
An access of another type changes nothing and has no action.

**DriverLife** - `DeviceLifecycle` and `OpRegion`: a start of any ready and attached device
installs the region, AML runs at any time, removal and unloading wait for a
start to end.

**MCReadQueue** gives `ReadQueue` to TLC with small sets of model values and a choice of
the reads that may be cancelled, **MCReadPath** does so for `ReadPath` with the
processes of the reads (no
symmetry, since liveness is checked), and **MCWmiProvider** says what the requests of
`WmiProvider` ask for; the other modules are checked directly. **\*Proofs** modules hold
the theorems.

## 3. The runs

| Run | Question | Bounds |
|---|---|---|
| `read_path` | What do overlapping calls do to each other through `hDevice`, can the second driver hold up a read, is the queue behind them the abstract serial reader, liveness included? | 2 reads of one process that has events of its own, 1 of another, 2 handle values, no cancellation (133 004 states) |
| `read_cancel` | What holds whatever is cancelled: only cancelled reads end twice, the queue is never stranded, a claimed read succeeds, a pending one can be taken back, every read ends | 3 reads, all cancellable (102 997 states) |
| `read_twice` (violation) | Is an IRP handled once, as `DriverEntry.cpp:257` asks? | 2 reads, both cancellable |
| `timer` | Is the period kept, which stop holds and which does not, is a use after removal possible only when polling was left on, does polling go on? | 2 callers, 2 processors, period 3 |
| `pnp` | Is every PnP request completed once and not touched afterwards, does the lower driver answer first? | 2 requests of any kind |
| `writer` | When does a copy leave the buffer, when does `file_length` lose a write? | 3 writes, buffer 2, modulus 4, offsets to 5 |
| `acpi` | Does the enumeration loop stay inside its buffer, does every request end? | 2 callers, 2 children, pool 9 |
| `pci` | Is a register read from where it was addressed? | 2 applications, 2 registers |
| `pci_config` (violation) | Does `PCI_CONFIG` get its data from the driver below, as `DeviceSpaceConfig.cpp:58` says? | 1 application |
| `wmi` | Has each WMI request one end, and does a query answer the last value set? | a query, a set and a request of any kind, 2 values (344 615 states) |
| `lifecycle` | Do link, device and name agree through failures? Does AML read what it wrote, and what does the region handler need to run? | 2 devices, 2 field values and garbage (71 376 states) |
| `kbd` | Does `pendingkey` count reads, do pending flags agree? | 3 reads, counter modulo 5 |

**Why the bounds are enough.** The races are between two actors and a third
that comes in behind: three reads give one in service, one queued and one
arriving. In `read_path` two reads share a process and hence its handles, the
third sees their numbers in another table, and one process has events whose
handles may take a number that was closed; two values are enough for a
call to lose its handle and to find another in its place. Two
processors are all a single DPC object can occupy at once with one more in the queue.
The writer's buffer, modulus and offsets are the smallest for which sums are in
range, out of range, and wrapped. A pool of nine units is three enumerations
of one child, so that the fourth fails. What is proved needs no bound.

**What the violations show.** `read_twice`: a read is cancelled between
`IoSetCancelRoutine` (`DeviceRead.cpp:116`) and `IoStartPacket` (line 121).
`CancelReadIrp` completes it (`DeviceCancelIrp.cpp:20-22`); `IoStartPacket` hands the
completed IRP to `StartIo` nevertheless, and `StartIo`, neither branch of whose test
(`DeviceStartIO.cpp:54-67`) returns, serves it and completes it again. The comment of the
branch for a cancelled read, "put in queue", describes code that is not there. (That is the
shortest behaviour; the model has longer ones in which `onCancelIrp` and `StartIo` complete
the same IRP. `onCancelIrp` also starts a second `StartIo` beside the
first, so that service is serial (`Serial`, `ImplementsSerialReader`) only where nobody cancels.)
`pci_config`: the IRP goes to the top of the device's own stack, where the table
in `WdmPnp` sends `IRP_MN_READ_CONFIG` to `DefaultPnpHandler`, which completes it.

**Other disagreements the models make visible**, which no run checks:
- `LoopInBounds` speaks of enumerations during which no child came or went. For
  the others it fails: the status of the second request is not looked at, and a
  size is taken for a number of children (`DeviceIoControl.cpp:384` and `:428`).
- `CrackResult`: an evaluation that failed leaves a zeroed buffer, whose type
  reads as integer, so that the value 0 is reported (`DeviceIoControl.cpp:321-331`).
- `Address` in `PciAccess`: `PCI_SLOT_NUMBER` has the device number in its low
  bits, the address port the function number; `AsULONG << 8` swaps them
  (`ConsoleApplication1.cpp:151`).
- `QueryDataBlock` returns a value that was set, or 0 at first (`QueriesAreRegular`); the
  comment at `WmiSupport.cpp:145` says that it is hard-coded to 2, which the line it
  describes (147, commented out) no longer does.
- `OnlyFailuresLeave` names what `RemoveDevice` does not clean up: an FDO that could not be
  attached (`DriverEntry.cpp:185`) stays, and with it its name and link. It promises nothing of
  the operation region's block (`AcpiOpRegion.cpp:66`) or of the buffers of
  `AcpiChildEnum`, which are never freed.
- `StraysOnlyIfCrossed` and `NoHandleLost` are about calls that met no other one. Two
  reads at the same time do overwrite `hDevice` (`DeviceRead.cpp:63`), and one closes the
  file of the other.
- `Reference`: a pending answer of the second driver is never waited for, because the
  object type asked for is that of an event (`DeviceRead.cpp:81`).
- `AmlReadsBack` and `FaultsOnlyForCause` name what a second start
  (`AcpiOpRegion.cpp:66`), a pool without memory (`:71`) and `Unload`, which leaves the
  handler behind, do to the operation region.
- `OnlyRelationsNeverCompleted` and `OnlyRemovalAstray` in `PnpDispatch` name the two
  exceptions of the PnP path: `DeviceQueryDeviceRelation` never ends its IRP, and
  `RemoveDevice` writes to one that is completed.

## 4. Fairness

Only what the scheduler of the machine grants is assumed. A thread that has
entered the driver keeps running: weak fairness for each thread's next step.
No request, cancellation, start, stop or removal is ever obliged to happen. The
wait of `StartIo` has a timeout of three seconds and hence ends; the waits in
`SendDownStreamIrp` and `ForwardAndWait` have none, so `acpi` assumes that
the driver below answers, and so does `pnp`. In `timer` the clock and the processors
do not stop. In `read_path` nothing obliges the second driver to answer, and the
wait in `DriverCallDriver` need not end; `ReadsServed` holds all the same, since that
wait happens to calls that went astray only. `CHECK_DEADLOCK FALSE` is set where every request may be finished
or a modelled breakdown (second completion, use of freed memory) ends the
behaviour.

## 5. The proofs

TLAPS checks the theorems of eight modules, for every value of the constants
under the assumptions each module declares (distinct `NoIrp`, a positive period, a
buffer smaller than the modulus, finitely many reads of the filter, ACPI children and slots
that exist). Each rests
on an inductive invariant, with one lemma per action.

**ReadPathProofs**, the queue. The invariant adds to the types who serves what. Every busy
queue has a thread in `StartIo` or before `IoStartNextPacket`; each IRP has at most
one thread serving it, and one that waits in the queue has none, still has its cancel
routine and is not cancelled unless it is completed. With these, a second
completion needs a cancel routine that ran, and so the IRP's own `Cancel`. From it:
`TypeOK`, `NoStranded`, `OnlyCancelledTwice`, `QueuedIsFree` and the action property
`ClaimedRunsToSuccess`, and `PendingCanBeCancelled`, for which the invariant follows
a read from `IoSetCancelRoutine` to the claim. `HeldInv` adds where each pending read
is: in the queue, on the device, or in the hands of a thread that is still at work.
With `NoStranded` it gives `NoReadForgotten`: when the threads have come to rest, no
read that returned is left pending. With `Cancellable = {}` no cancel routine
ever runs, whence `HandledOnce` and `Serial`, the properties that fail otherwise, and
`NoCancellationServesSerially`: every step of `ReadQueue` is a step of `SerialReader` or
none (`Enter`, `SetCancelRoutine` and `Claim` are stutters, `StartPacket` is an arrival,
`Finish` a finish, `StartNextPacket` a service), under the mapping `Abstract`.

**ReadPathProofs**, all of `Reader`. `PathImplementsQueue`: a step of the composition is a
step of `ReadQueue` or leaves it alone, so that the theorems above hold of it
(`PathSafety`, and `PathServesSerially` where nobody cancels); `PathImplementsCalls` says the
same of `DriverCall`. For the calls, `AloneInv` says of each one that met no other: while
it is under way no other one is and `hDevice` is its handle, and it has no handle
before and after. From it: `StraysOnlyIfCrossed`, `NoHandleLost`, and
`QueuedReadsHoldNoHandle`, for which the place of a read's thread in one component is tied to
its place in the other (`CallPlace`).

**PollingTimerProofs.** `NeverEarly` is not inductive: that the next expiration is
late enough depends on when the timer was set. `DueInTime` says that the ticks since
the last expiration and those until the next make a period, and
`IntervalKnown` that nobody polls or starts without an interval, so that
`KeSetTimer` always sets a whole period. From it: `TypeOK`, `NeverEarly`, `StaleOnlyIfLeftPolling`, `EndsByCancelOnly`, and, with
`PollsUntilQuiet` as a second invariant, both directions of `StopHolds`: a stop that has met
no DPC is final, and what was started polls until such a stop.

**DeviceWriterProofs.** `InBuffer` says that a write past the test has an end inside the
buffer, and that it wrapped if its copy did not stay inside. `Covered` is the
heart: a write that met no other is covered, *and* each write about to raise
`file_length` has a larger end, for that write was tested after it. `Source` says that
`file_length` is the end of a write. From it: `TypeOK` (with `file_length` at most
the buffer), `WildOnlyIfWrapped`, `FinishedCovered`, `ShrinksOnlyByRace`.

**PnpDispatchProofs.** The invariant is one formula for each place where the thread of a
request can stand: in `ForwardAndWait` the driver below holds the IRP exactly
until the event is set, and from then on the IRP has its answer. From it: `TypeOK`,
`HandledOnce`, `OnlyRemovalAstray`, `LowerAnswersFirst`, `CapabilitiesSettled`, and
`NoRequestForgotten`: a request that is over was completed, relations apart, and who
waits for the event waits for a driver that has the IRP.

**DeviceControlProofs.** For `IOCTL_TEST1`, `WaitInv` says that the driver below has an IRP only
while its caller waits, and `EnumInv` what an enumeration has learnt at each
place if no child came or went: a size that fits, then a buffer with as many children
as ACPI counted. `BeyondInv` remembers whose loop left its buffer, so that it can be
blamed on the children of that very enumeration. From them: `TypeOK`,
`FrameOutlivesRequest`, `LoopInBounds` and `BeyondNeedsMove`. For the ports, `AddressedInv` says
that the address port holds what an application wrote as long as no other one came in
between its two requests; `MixedOnlyIfCrossed` follows.

**DriverLifeProofs.** `AddingInv` ties each FDO to the stage of `AddDevice`: one
that is not ready is either being added or was left without a link, one whose PDO is gone
is not attached, and the link is the driver's from `IoCreateSymbolicLink` on. Since there is one
name there is one FDO, which is why an FDO that goes takes no other's link along. `RegionInv` follows the
installation: no handler before the first block is zeroed, what was written
stays in the block unless it is replaced, and an empty pointer under a handler has a
cause. From them: `TypeOK`, `LinkTracksDevice`, `OnlyFailuresLeave`, `RobsOnlyAfterFailure`,
`AmlReadsBack`, `FaultsOnlyForCause`. `LifeImplementsDevices` and `LifeImplementsRegion` say
that each step of `DriverLife` is a step of `DeviceLifecycle` or leaves it alone, and
likewise for `OpRegion`.

**WmiProviderProofs.** `EndInv` says what of a request's end has come at each
place of its thread. `AnswerInv` says whose value `TheAnswer` is: that of a set that was
completed before no other set came, or of the registration as long as no set is done; `BeforeInv`, that only
completed requests come before others, so that a set that is done just now comes before
none, and a query that reads just now neither. So `Explained` holds of a query when it reads,
and no later set can take its explanation away. From them: `TypeOK`, `OneEnd`,
`QueriesAreRegular`, and `NoRequestForgotten`: `SystemControl` returns with each request
ended exactly once.

**KbdFilterReadProofs.** `ReadInv` orders `Reader` and `ReadComplete` of one read;
the count is the number of reads below up to a multiple of `Modulus` (`Counts`),
since remainders themselves are not preserved by arithmetic. From it: `TypeOK`,
`CountsReads`, `PendingAgrees`.

**Type correctness** of the modules with proofs is a theorem (`TypeCorrect`); in
`timer`, `pnp`, `wmi`, `kbd` and `lifecycle` it is not checked once more.

**Only model-checked:** liveness and the fairness of the refinement, which are out of the
prover's reach: `ReadsCompleted`, `ReadsServed`, `ImplementsSerialReader` (its steps are proved),
`PollingGoesOn`, `OnlyRelationsNeverCompleted`, `RequestsEnd` and `AllEnd`. For the reads, the timer,
PnP and WMI the safety half is a theorem (`NoReadForgotten`, `OnlyQuietStopEnds`, `NoRequestForgotten`). Every invariant and
action property of the passing runs is a theorem.

## 6. Not modelled, and why

`IRQL` and time inside `StartIo`; the stack location into which a second driver
answers late; addresses beyond the fields of the operation region; lengths of IOCTL buffers; contents of data
buffers; logging; IOCTLs and forwarded WMI requests of an FDO that is not attached, which
would send IRPs to a null `NextStackDevice`; when the kernel unloads a driver that
still has a device (`DeviceLifecycle` has it do so once no PDO is left, as the loop
of `Unload` expects). `KbdFilterRead` begins where `MyAttachDevice`, which
nobody calls, would have ended.
Hazards no property covers carry a note in `PROJECT.json`. Facts about a
single statement rather than an order of steps are not listed there: without
`MyAttachDevice` a read of the filter build calls `IoCallDriver` with a null
`LowerDevice` (`DispatchRoutine.cpp:115`); the region handler accepts any address and
access type (`AcpiOpRegion.cpp:40`, `:57`); `IRP_MJ_CLEANUP` leaves the reads of the
handle in the queue (`DriverEntry.cpp:74`), so that the I/O manager cancels them one by one, as
in `read_cancel`. The create, close, cleanup
and shutdown handlers complete their IRP and change nothing else. `OnTimer` is
never registered, `PepReturnAcpiData` and the debug helpers are called by
nobody, `DeviceRead_Timer.cpp` and `DeviceRemove.cpp` are not in the project file.

## 7. Plan

Done: the modules above, in the order read path, timer, PnP, writer, ACPI, PCI,
WMI, lifecycle, keyboard filter, then the second driver and the whole read path,
the operation region and the life of the driver, and the proofs of section 5.

Left: a composition of `PollingTimer`, `PnpDispatch` and `DriverLife` over one
device extension, with removal under all of them, and the invariants that its
shared device adds.
