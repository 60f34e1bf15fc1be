----------------------------- MODULE DriverLife -----------------------------
(***************************************************************************)
(* The life of the driver and its devices (module DeviceLifecycle) with    *)
(* the ACPI operation region (module OpRegion) that StartDevice installs   *)
(* in the build with BASE_TBL_OPREGION_SUPPORT 1, once for every           *)
(* IRP_MN_START_DEVICE.  The region and its handler belong to no device:   *)
(* the globals stay while the driver is loaded, the handler for good.      *)
(***************************************************************************)
EXTENDS DeviceLifecycle

CONSTANTS Value, Zero, Garbage, NoBlock

ASSUME RegionAssumption == NoBlock \notin Value \cup {Zero, Garbage}

VARIABLES memory, install, handler, stopped, last, replaced, seen, exhausted, orphaned

Region == INSTANCE OpRegion

regionVars ==
  <<memory, install, handler, stopped, last, replaced, seen, exhausted, orphaned>>
lifeVars == <<vars, regionVars>>

LifeInit == Init /\ Region!Init

\* IRP_MN_START_DEVICE, for the first time or again after IRP_MN_STOP_DEVICE,
\* reaches an FDO on the stack of its PDO: StartDevice calls
\* AcpiInstallOpRegionHandler.
StartDevice ==
  /\ \E p \in added \ unattached : adding # p /\ fdo[p] = "ready"
  /\ Region!Allocate
  /\ UNCHANGED vars

Starting == (Region!ZeroMemory \/ Region!Register) /\ UNCHANGED vars

\* The PnP manager removes a device, and has the driver unloaded, when no
\* start is under way.
End ==
  /\ install = "no"
  /\ \/ (\E p \in Pdo : RemoveDevice(p)) /\ UNCHANGED regionVars
     \/ Unload /\ Region!Leave

LifeNext ==
  /\ ~stopped
  /\ \/ (DriverEntry \/ ForeignLink \/ \E p \in Pdo : AddDevice(p)) /\ UNCHANGED regionVars
     \/ StartDevice
     \/ Starting
     \/ End
     \/ Region!Aml /\ UNCHANGED vars

LifeSpec == LifeInit /\ [][LifeNext]_lifeVars

(***************************************************************************)
(* Properties.                                                             *)
(***************************************************************************)

\* AML reads what it wrote last, however devices come and go, unless a device
\* was started since (AcpiOpRegion.cpp:66-71).
AmlReadsBack == Region!ReadsBack

\* The handler and its installation touch what is not there only for want of
\* memory or after Unload (AcpiOpRegion.cpp:66-80, DriverEntry.cpp:285-305).
FaultsOnlyForCause == Region!FaultsOnlyForCause
=============================================================================
