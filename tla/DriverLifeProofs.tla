-------------------------- MODULE DriverLifeProofs --------------------------
(***************************************************************************)
(* Proofs about the life of the driver, its devices and the operation      *)
(* region, for any number of devices and any values of a field.            *)
(***************************************************************************)
EXTENDS DriverLife, TLAPS

(***************************************************************************)
(* The devices.                                                            *)
(***************************************************************************)

\* AddDevice runs for an FDO that is not ready yet; an FDO that stays that way
\* got no link, one that outlives its PDO is on no stack, and whichever there
\* is has the name; the link is the driver's from its creation on.
AddingInv ==
  /\ adding = None <=> step = "idle"
  /\ adding # None => adding \in added /\ fdo[adding] = "initializing"
  /\ driver = "unloaded" =>
       added = {} /\ ~registryPath /\ \A p \in Pdo : fdo[p] = "none"
  /\ \A p \in Pdo : fdo[p] # "none" => name = p /\ (p \in added \/ p \in unattached)
  /\ \A p \in unattached : fdo[p] # "none"
  /\ name # None => fdo[name] # "none"
  /\ \A p \in Pdo : fdo[p] = "initializing" => p = adding \/ p \in failed
  /\ link = "ours" <=> step = "finish" \/ \E p \in Pdo : fdo[p] = "ready"

DeviceInv == TypeOK /\ AddingInv

LEMMA InitDeviceInv == Init => DeviceInv
BY NoneAssumption DEF Init, DeviceInv, TypeOK, AddingInv

LEMMA IoCreateDeviceStep ==
  ASSUME DeviceInv, NEW p \in Pdo, IoCreateDevice(p)
  PROVE  DeviceInv'
<1>1. /\ driver = "loaded" /\ adding = None /\ step = "idle" /\ p \notin added
      /\ added' = added \cup {p}
      /\ UNCHANGED <<driver, registryPath, link, wmi, failed, robbed>>
  BY DEF IoCreateDevice, DeviceInv, TypeOK, AddingInv
<1>2. CASE /\ name = None /\ name' = p
           /\ fdo' = [fdo EXCEPT ![p] = "initializing"]
           /\ unattached' \in {unattached, unattached \cup {p}}
           /\ adding' = p /\ step' = "link"
  <2>1. TypeOK'
    BY <1>1, <1>2 DEF DeviceInv, TypeOK
  <2>2. \A q \in Pdo : fdo'[q] = IF q = p THEN "initializing" ELSE "none"
    BY <1>1, <1>2, NoneAssumption DEF DeviceInv, TypeOK, AddingInv
  <2>3. AddingInv'
    BY <1>1, <1>2, <2>2, NoneAssumption DEF DeviceInv, TypeOK, AddingInv
  <2> QED
    BY <2>1, <2>3 DEF DeviceInv
<1>3. CASE UNCHANGED <<name, fdo, unattached, adding, step>>
  BY <1>1, <1>3 DEF DeviceInv, TypeOK, AddingInv
<1> QED
  BY <1>2, <1>3 DEF IoCreateDevice

LEMMA CreateSymbolicLinkStep ==
  ASSUME DeviceInv, CreateSymbolicLink
  PROVE  DeviceInv'
<1>1. /\ step \in {"link", "relink"} /\ adding \in Pdo /\ adding \in added
      /\ fdo[adding] = "initializing" /\ name = adding
      /\ UNCHANGED <<driver, registryPath, added, fdo, unattached, name, wmi, robbed>>
  BY DEF CreateSymbolicLink, DeviceInv, TypeOK, AddingInv
<1>2. \A p \in Pdo : fdo[p] # "ready"
  BY <1>1 DEF DeviceInv, TypeOK, AddingInv
<1>3. CASE link' = "ours" /\ step' = "finish" /\ UNCHANGED <<adding, failed>>
  BY <1>1, <1>3, NoneAssumption DEF DeviceInv, TypeOK, AddingInv
<1>4. CASE step' = "relink" /\ UNCHANGED <<link, adding, failed>>
  BY <1>1, <1>2, <1>4, NoneAssumption DEF DeviceInv, TypeOK, AddingInv
<1>5. CASE /\ step' = "idle" /\ adding' = None
           /\ failed' = failed \cup {adding} /\ UNCHANGED link
  BY <1>1, <1>2, <1>5, NoneAssumption DEF DeviceInv, TypeOK, AddingInv
<1> QED
  BY <1>3, <1>4, <1>5 DEF CreateSymbolicLink

LEMMA FinishAddDeviceStep ==
  ASSUME DeviceInv, FinishAddDevice
  PROVE  DeviceInv'
<1>1. /\ step = "finish" /\ adding \in Pdo /\ adding \in added
      /\ link = "ours" /\ name = adding /\ driver = "loaded"
      /\ step' = "idle" /\ adding' = None
      /\ UNCHANGED <<driver, registryPath, added, unattached, name, link, failed, robbed>>
  BY DEF FinishAddDevice, DeviceInv, TypeOK, AddingInv
<1>2. \A p \in Pdo : fdo'[p] = IF p = adding THEN "ready" ELSE fdo[p]
  BY DEF FinishAddDevice, DeviceInv, TypeOK
<1>3. TypeOK'
  BY <1>1 DEF FinishAddDevice, DeviceInv, TypeOK
<1>4. AddingInv'
  BY <1>1, <1>2, NoneAssumption DEF DeviceInv, TypeOK, AddingInv
<1> QED
  BY <1>3, <1>4 DEF DeviceInv

LEMMA RemoveDeviceStep ==
  ASSUME DeviceInv, NEW p \in Pdo, RemoveDevice(p)
  PROVE  DeviceInv'
<1>1. /\ p \in added /\ adding # p /\ added' = added \ {p}
      /\ UNCHANGED <<driver, registryPath, adding, step, wmi>>
  BY DEF RemoveDevice
<1>2. CASE fdo[p] = "none" \/ p \in unattached
  <2>1. UNCHANGED <<fdo, unattached, name, link, failed, robbed>>
    BY <1>2 DEF RemoveDevice, device
  <2> QED
    BY <1>1, <1>2, <2>1 DEF DeviceInv, TypeOK, AddingInv
<1>3. CASE fdo[p] # "none" /\ p \notin unattached
  <2>1. link' = "none" /\ name' = None /\ fdo' = [fdo EXCEPT ![p] = "none"]
        /\ failed' = failed \ {p} /\ UNCHANGED unattached /\ robbed' \in BOOLEAN
    BY <1>3 DEF RemoveDevice, DeleteSymbolicLink, DeviceInv, TypeOK
  <2>2. \A q \in Pdo : fdo'[q] = "none"
    BY <1>3, <2>1 DEF DeviceInv, TypeOK, AddingInv
  <2>3. adding = None /\ unattached = {}
    BY <1>1, <1>3 DEF DeviceInv, TypeOK, AddingInv
  <2>4. TypeOK'
    BY <1>1, <2>1 DEF DeviceInv, TypeOK
  <2>5. AddingInv'
    BY <1>1, <2>1, <2>2, <2>3, NoneAssumption DEF DeviceInv, TypeOK, AddingInv
  <2> QED
    BY <2>4, <2>5 DEF DeviceInv
<1> QED
  BY <1>2, <1>3

LEMMA UnloadStep ==
  ASSUME DeviceInv, Unload
  PROVE  DeviceInv'
<1>1. /\ added = {} /\ adding = None /\ driver' = "unloaded" /\ registryPath' = FALSE
      /\ UNCHANGED <<adding, step, added, wmi>>
  BY DEF Unload, DeviceInv, TypeOK, AddingInv
<1>2. CASE \A p \in Pdo : fdo[p] = "none"
  <2>1. UNCHANGED <<fdo, unattached, name, link, failed, robbed>>
    BY <1>2 DEF Unload, device
  <2> QED
    BY <1>1, <1>2, <2>1 DEF DeviceInv, TypeOK, AddingInv
<1>3. CASE ~\A p \in Pdo : fdo[p] = "none"
  <2>1. /\ link' = "none" /\ name' = None /\ fdo' = [p \in Pdo |-> "none"]
        /\ unattached' = {} /\ failed' = {} /\ robbed' \in BOOLEAN
    BY <1>3 DEF Unload, DeleteSymbolicLink, DeviceInv, TypeOK
  <2>2. TypeOK'
    BY <1>1, <2>1 DEF DeviceInv, TypeOK
  <2>3. AddingInv'
    BY <1>1, <2>1, NoneAssumption DEF DeviceInv, TypeOK, AddingInv
  <2> QED
    BY <2>2, <2>3 DEF DeviceInv
<1> QED
  BY <1>2, <1>3

LEMMA NextDeviceInv == DeviceInv /\ [Next]_vars => DeviceInv'
<1> SUFFICES ASSUME DeviceInv, [Next]_vars PROVE DeviceInv'
  OBVIOUS
<1>1. CASE DriverEntry
  <2>1. /\ driver' \in {"unloaded", "loaded"} /\ registryPath' \in BOOLEAN
        /\ driver' = "unloaded" => driver = "unloaded" /\ registryPath' = registryPath
        /\ UNCHANGED <<adding, step, added, fdo, unattached, name, link, wmi, failed,
                       robbed>>
    BY <1>1 DEF DriverEntry, device, DeviceInv, TypeOK
  <2>2. TypeOK'
    BY <2>1 DEF DeviceInv, TypeOK
  <2>3. AddingInv'
    BY <2>1 DEF DeviceInv, AddingInv
  <2> QED
    BY <2>2, <2>3 DEF DeviceInv
<1>2. CASE ForeignLink
  BY <1>2 DEF ForeignLink, DeviceInv, TypeOK, AddingInv
<1>3. CASE UNCHANGED vars
  BY <1>3 DEF vars, device, DeviceInv, TypeOK, AddingInv
<1> QED
  BY <1>1, <1>2, <1>3, UnloadStep, IoCreateDeviceStep, CreateSymbolicLinkStep,
     FinishAddDeviceStep, RemoveDeviceStep DEF Next, AddDevice

\* The link of other software is deleted together with an FDO, and the driver
\* has no link of its own then: the FDO is not ready, so AddDevice had failed.
LEMMA RobsStep ==
  ASSUME DeviceInv, Next, robbed' # robbed
  PROVE  \E p \in failed : fdo[p] # "none" /\ (RemoveDevice(p) \/ Unload)
<1>1. ASSUME NEW p \in Pdo, fdo[p] # "none", adding # p, link = "foreign"
      PROVE  p \in failed
  BY <1>1 DEF DeviceInv, TypeOK, AddingInv
<1>2. CASE Unload
  <2>1. link = "foreign" /\ adding = None
    BY <1>2 DEF Unload, DeleteSymbolicLink, DeviceInv, TypeOK, AddingInv
  <2>2. PICK p \in Pdo : fdo[p] # "none"
    BY <1>2 DEF Unload
  <2> QED
    BY <1>1, <1>2, <2>1, <2>2, NoneAssumption
<1>3. ASSUME NEW p \in Pdo, RemoveDevice(p)
      PROVE  \E q \in failed : fdo[q] # "none" /\ (RemoveDevice(q) \/ Unload)
  <2>1. fdo[p] # "none" /\ link = "foreign" /\ adding # p
    BY <1>3 DEF RemoveDevice, DeleteSymbolicLink, DeviceInv, TypeOK
  <2> QED
    BY <1>1, <1>3, <2>1
<1> QED
  BY <1>2, <1>3 DEF Next, AddDevice, DriverEntry, ForeignLink, IoCreateDevice,
     CreateSymbolicLink, FinishAddDevice

(***************************************************************************)
(* The operation region.                                                   *)
(***************************************************************************)

\* ACPI has no handler before the first block is zeroed; from then on the
\* block holds what AML wrote, until it is replaced or left behind.
RegionInv ==
  /\ {handler, stopped, replaced, exhausted, orphaned} \subseteq BOOLEAN
  /\ install \in {"no", "zero", "register"}
  /\ ~handler => last = Zero /\ ~replaced /\ ~orphaned
  /\ install = "zero" /\ memory = NoBlock => exhausted
  /\ install = "register" => memory # NoBlock
  /\ install = "register" /\ ~handler => memory = Zero
  /\ install # "no" /\ orphaned => replaced
  /\ handler /\ ~orphaned /\ memory = NoBlock => exhausted
  /\ handler /\ ~orphaned /\ ~replaced => memory = last
  /\ Region!ReadsBack
  /\ Region!FaultsOnlyForCause

LEMMA InitRegionInv == Region!Init => RegionInv
<1> SUFFICES ASSUME Region!Init PROVE RegionInv
  OBVIOUS
<1>1. Region!ReadsBack /\ Region!FaultsOnlyForCause
  BY DEF Region!Init, Region!ReadsBack, Region!FaultsOnlyForCause
<1> QED
  BY <1>1, Zenon DEF Region!Init, RegionInv

LEMMA NextRegionInv ==
  ASSUME RegionInv, Region!Next, ~stopped
  PROVE  RegionInv'
<1> USE RegionAssumption
    DEF RegionInv, Region!ReadsBack, Region!FaultsOnlyForCause
<1>1. CASE Region!Allocate
  BY <1>1 DEF Region!Allocate
<1>2. CASE Region!ZeroMemory
  BY <1>2 DEF Region!ZeroMemory
<1>3. CASE Region!Register
  <2>1. CASE handler' = TRUE /\ orphaned' = FALSE
    BY <1>3, <2>1 DEF Region!Register
  <2>2. CASE UNCHANGED <<handler, orphaned>>
    BY <1>3, <2>2 DEF Region!Register
  <2> QED
    BY <1>3, <2>1, <2>2 DEF Region!Register
<1>4. CASE Region!AccessFaults
  BY <1>4 DEF Region!AccessFaults, Region!Faults
<1>5. CASE Region!ReadField
  BY <1>5 DEF Region!ReadField, Region!Faults
<1>6. ASSUME NEW v \in Value, Region!WriteField(v) PROVE RegionInv'
  BY <1>6 DEF Region!WriteField, Region!Faults
<1>7. CASE Region!Leave
  BY <1>7 DEF Region!Leave
<1> QED
  BY <1>1, <1>2, <1>3, <1>4, <1>5, <1>6, <1>7
  DEF Region!Next, Region!Install, Region!Aml

(***************************************************************************)
(* The theorems.                                                           *)
(***************************************************************************)

LEMMA LifeStep ==
  LifeNext => /\ Next \/ UNCHANGED vars
              /\ (Region!Next /\ ~stopped) \/ UNCHANGED regionVars
BY DEF LifeNext, StartDevice, Starting, End, Next, Region!Next, Region!Install

LEMMA Invariance == LifeSpec => [](DeviceInv /\ RegionInv)
<1>1. LifeInit => DeviceInv /\ RegionInv
  BY InitDeviceInv, InitRegionInv DEF LifeInit
<1>2. DeviceInv /\ RegionInv /\ [LifeNext]_lifeVars => (DeviceInv /\ RegionInv)'
  <2>1. RegionInv /\ UNCHANGED regionVars => RegionInv'
    BY DEF regionVars, RegionInv, Region!ReadsBack, Region!FaultsOnlyForCause
  <2> QED
    BY <2>1, LifeStep, NextDeviceInv, NextRegionInv DEF lifeVars
<1> QED
  BY <1>1, <1>2, PTL DEF LifeSpec

\* Type correctness of the lifecycle, for any set of devices
\* (DriverEntry.cpp:42-305).
THEOREM TypeCorrect == LifeSpec => []TypeOK
<1>1. DeviceInv => TypeOK
  BY DEF DeviceInv
<1> QED
  BY <1>1, Invariance, PTL

\* The driver's link exists just as long as a ready FDO (DriverEntry.cpp:199,
\* 271), whatever fails and whoever else uses the name.
THEOREM LinkIsTracked == LifeSpec => []LinkTracksDevice
<1>1. DeviceInv => LinkTracksDevice
  BY DEF DeviceInv, AddingInv, LinkTracksDevice
<1> QED
  BY <1>1, Invariance, PTL

\* An FDO outlives its PDO only where it could not be attached, is left
\* uninitialised only where it got no link, and Unload leaves no FDO, link, name
\* or registry path (DriverEntry.cpp:185, 205-210, 266-305).
THEOREM FailuresAloneLeave == LifeSpec => []OnlyFailuresLeave
<1>1. DeviceInv => OnlyFailuresLeave
  <2> SUFFICES ASSUME DeviceInv PROVE OnlyFailuresLeave
    OBVIOUS
  <2>1. \A p \in Pdo : fdo[p] # "none" /\ p \notin added => p \in unattached
    BY DEF DeviceInv, AddingInv
  <2>2. \A p \in Pdo : fdo[p] = "initializing" /\ adding # p => p \in failed
    BY DEF DeviceInv, AddingInv
  <2>3. driver = "unloaded" =>
          /\ \A p \in Pdo : fdo[p] = "none"
          /\ link # "ours" /\ name = None /\ ~registryPath
    BY NoneAssumption DEF DeviceInv, TypeOK, AddingInv
  <2> QED
    BY <2>1, <2>2, <2>3 DEF OnlyFailuresLeave
<1> QED
  BY <1>1, Invariance, PTL

\* A foreign link is deleted only with an FDO whose AddDevice had got no link
\* (DriverEntry.cpp:271, 295).
THEOREM RobsAfterFailure == LifeSpec => RobsOnlyAfterFailure
<1>1. DeviceInv /\ [LifeNext]_lifeVars =>
        [robbed' # robbed =>
           \E p \in failed : fdo[p] # "none" /\ (RemoveDevice(p) \/ Unload)]_vars
  BY LifeStep, RobsStep DEF lifeVars
<1> QED
  BY <1>1, Invariance, PTL DEF LifeSpec, RobsOnlyAfterFailure

\* AML reads back what it wrote as long as no start comes in between
\* (AcpiOpRegion.cpp:66-71).
THEOREM RegionReadsBack == LifeSpec => []AmlReadsBack
<1>1. RegionInv => AmlReadsBack
  BY DEF RegionInv, AmlReadsBack
<1> QED
  BY <1>1, Invariance, PTL

\* The handler and its installation fault only for want of memory or after
\* Unload (AcpiOpRegion.cpp:66-80).
THEOREM RegionFaults == LifeSpec => []FaultsOnlyForCause
<1>1. RegionInv => FaultsOnlyForCause
  BY DEF RegionInv, FaultsOnlyForCause
<1> QED
  BY <1>1, Invariance, PTL

(***************************************************************************)
(* What the composition does to its two components.                        *)
(***************************************************************************)

\* The devices live as DeviceLifecycle has them, whatever the region does: a
\* start, an access of AML and a fault of the handler change none of their
\* state (AcpiOpRegion.cpp:66-80).
THEOREM LifeImplementsDevices == LifeSpec => Spec
<1>1. LifeInit => Init
  BY DEF LifeInit
<1>2. [LifeNext]_lifeVars => [Next]_vars
  BY LifeStep DEF lifeVars
<1> QED
  BY <1>1, <1>2, PTL DEF LifeSpec, Spec

\* The region behaves as OpRegion has it, whatever becomes of the devices: it
\* is installed only by a start, taken away only by Unload, and untouched by
\* AddDevice and RemoveDevice (DriverEntry.cpp:42-305).
THEOREM LifeImplementsRegion == LifeSpec => Region!Spec
<1>1. LifeInit => Region!Init
  BY DEF LifeInit
<1>2. [LifeNext]_lifeVars => [~stopped /\ Region!Next]_regionVars
  BY LifeStep DEF lifeVars, regionVars
<1>3. Region!vars = regionVars
  BY DEF Region!vars, regionVars
<1>4. [LifeNext]_lifeVars => [~stopped /\ Region!Next]_(Region!vars)
  BY <1>2, <1>3 DEF Region!vars, regionVars
<1> QED
  BY <1>1, <1>4, PTL DEF LifeSpec, Region!Spec
=============================================================================
