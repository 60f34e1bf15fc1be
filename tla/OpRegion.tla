------------------------------ MODULE OpRegion ------------------------------
(***************************************************************************)
(* The ACPI operation region (AcpiOpRegion.cpp), which StartDevice         *)
(* installs in a build with BASE_TBL_OPREGION_SUPPORT 1 (it is 0 in        *)
(* DeviceStart.cpp): one block of shared memory behind a global pointer,   *)
(* and a handler through which the AML of the firmware writes and reads    *)
(* the fields of asl/basetbl.asl.  Every start of the device installs it   *)
(* anew, while the AML of an earlier start may use it; nothing removes it. *)
(*                                                                         *)
(* One of the fields stands for all of them: they do not overlap, they lie *)
(* inside the 1024 bytes, and the Global Lock makes each access one step.  *)
(***************************************************************************)

CONSTANTS
  Value,    \* the values of a field
  Zero,     \* the value RtlZeroMemory leaves
  Garbage,  \* what is in a block that was just allocated
  NoBlock   \* g_OpRegionSharedMemory is NULL

VARIABLES
  memory,     \* the field in the block of g_OpRegionSharedMemory, or NoBlock
  install,    \* where AcpiInstallOpRegionHandler stands
  handler,    \* ACPI has AcpisimOpRegionHandler for the region
  stopped,    \* the machine has stopped
  last,       \* history: what AML wrote last
  replaced,   \* history: the region was installed again since
  seen,       \* history: what AML read last, when it should read what, and
  exhausted,  \* history: there was no memory for a block
  orphaned    \* history: the driver was unloaded and left the handler

vars == <<memory, install, handler, stopped, last, replaced, seen, exhausted, orphaned>>

Init ==
  /\ memory = NoBlock
  /\ install = "no"
  /\ handler = FALSE
  /\ stopped = FALSE
  /\ last = Zero
  /\ replaced = FALSE
  /\ seen = [value |-> Zero, written |-> Zero, replaced |-> FALSE]
  /\ exhausted = FALSE
  /\ orphaned = FALSE

(***************************************************************************)
(* AcpiInstallOpRegionHandler, which StartDevice calls.                    *)
(***************************************************************************)

\* ExAllocatePoolWithTag: the pointer to the old block is lost, whether there
\* is a new one or not.
Allocate ==
  /\ install = "no"
  /\ install' = "zero"
  /\ \/ memory' = Garbage /\ UNCHANGED exhausted
     \/ memory' = NoBlock /\ exhausted' = TRUE
  /\ replaced' = (replaced \/ handler)
  /\ UNCHANGED <<handler, stopped, last, seen, orphaned>>

\* Mutant: the block is not zeroed.
ZeroMemorySkipped ==
  /\ install = "zero"
  /\ IF memory = NoBlock
       THEN stopped' = TRUE /\ UNCHANGED install
       ELSE install' = "register" /\ UNCHANGED stopped
  /\ UNCHANGED <<memory, replaced, handler, last, seen, exhausted, orphaned>>

\* RtlZeroMemory, without a look at the pointer.
ZeroMemory ==
  /\ install = "zero"
  /\ IF memory = NoBlock
       THEN stopped' = TRUE /\ UNCHANGED <<memory, install, replaced>>
       ELSE /\ memory' = Zero
            /\ install' = "register"
            /\ replaced' = (replaced \/ handler)
            /\ UNCHANGED stopped
  /\ UNCHANGED <<handler, last, seen, exhausted, orphaned>>

\* Mutant: the handler is registered before the block is there.
RegisterFirst ==
  /\ install \in {"no", "register"}
  /\ install' = "no"
  /\ \/ handler' = TRUE /\ orphaned' = FALSE
     \/ UNCHANGED <<handler, orphaned>>
  /\ UNCHANGED <<memory, stopped, last, replaced, seen, exhausted>>

\* RegisterOpRegionHandler, whose status is not looked at: ACPI may refuse,
\* as long as it has a handler above all.
Register ==
  /\ install = "register"
  /\ install' = "no"
  /\ \/ handler' = TRUE /\ orphaned' = FALSE
     \/ UNCHANGED <<handler, orphaned>>
  /\ UNCHANGED <<memory, stopped, last, replaced, seen, exhausted>>

Install == Allocate \/ ZeroMemory \/ Register

(***************************************************************************)
(* AcpisimOpRegionHandler.                                                 *)
(***************************************************************************)

\* The handler has neither code nor block to work with.
Faults == memory = NoBlock \/ orphaned

AccessFaults ==
  /\ handler /\ Faults
  /\ stopped' = TRUE
  /\ UNCHANGED <<memory, install, handler, last, replaced, seen, exhausted, orphaned>>

\* ACPI_OPREGION_WRITE.
WriteField(v) ==
  /\ handler /\ ~Faults
  /\ memory' = v
  /\ last' = v
  /\ replaced' = FALSE
  /\ UNCHANGED <<install, handler, stopped, seen, exhausted, orphaned>>

\* ACPI_OPREGION_READ.
ReadField ==
  /\ handler /\ ~Faults
  /\ seen' = [value |-> memory, written |-> last, replaced |-> replaced]
  /\ UNCHANGED <<memory, install, handler, stopped, last, replaced, exhausted, orphaned>>

Aml == AccessFaults \/ ReadField \/ \E v \in Value : WriteField(v)

\* The driver goes and its globals with it; it does not take the handler back.
Leave ==
  /\ install = "no"
  /\ memory' = NoBlock
  /\ orphaned' = handler
  /\ UNCHANGED <<install, handler, stopped, last, replaced, seen, exhausted>>

Next == Install \/ Aml \/ Leave

Spec == Init /\ [][~stopped /\ Next]_vars

(***************************************************************************)
(* Properties.                                                             *)
(***************************************************************************)

\* AML reads what it wrote last, and zero before it wrote anything, unless the
\* region was installed again since (AcpiOpRegion.cpp:66-71 changes the global
\* pointer under a handler that is in use, and zeroes the block afterwards).
ReadsBack == seen.value = seen.written \/ seen.replaced

\* Nothing but a pool without memory, or an unloaded driver, lets the handler
\* or its installation touch what is not there: the first installation has
\* the block ready before ACPI can call (AcpiOpRegion.cpp:66-80).
FaultsOnlyForCause == stopped => exhausted \/ orphaned
=============================================================================
