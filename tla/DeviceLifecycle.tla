--------------------------- MODULE DeviceLifecycle ---------------------------
(***************************************************************************)
(* From DriverEntry to Unload (DriverEntry.cpp): the device objects the    *)
(* driver creates for the PDOs of its device, the one name and the one     *)
(* symbolic link they share, their WMI registration (WmiSupport.cpp) and   *)
(* the copy of the registry path.                                          *)
(*                                                                         *)
(* The PnP manager adds one device at a time, removes a device that was    *)
(* added or whose AddDevice failed, and has the driver unloaded when no    *)
(* PDO is left to it.  An FDO that IoAttachDeviceToDeviceStack could not   *)
(* put on the stack of its PDO is sent nothing, IRP_MN_REMOVE_DEVICE       *)
(* included: it stays until Unload.  Other software may create and delete  *)
(* a symbolic link of the same name at any time.                           *)
(***************************************************************************)
EXTENDS Naturals

CONSTANTS
  Pdo,   \* the physical device objects the bus reports
  None   \* no PDO

ASSUME NoneAssumption == None \notin Pdo

VARIABLES
  driver,        \* "unloaded" or "loaded"
  registryPath,  \* GlobalRegistryPath.Buffer is allocated
  adding,        \* the PDO AddDevice runs for, or None
  step,          \* where AddDevice stands
  added,         \* the PDOs the PnP manager has the driver for
  fdo,           \* the FDO of each PDO: "none", "initializing" or "ready"
  unattached,    \* PDOs that have an FDO whose NextStackDevice is NULL
  name,          \* the PDO whose FDO has the device name, or None
  link,          \* the symbolic link: "none", "ours" or "foreign"
  wmi,           \* PDOs whose FDO was registered with WMI, ever since
  failed,        \* history: PDOs whose FDO was left without a link by AddDevice
  robbed         \* history: a foreign link was deleted by the driver

device == <<fdo, unattached, name, link>>
vars == <<driver, registryPath, adding, step, added, device, wmi, failed, robbed>>

Init ==
  /\ driver = "unloaded"
  /\ registryPath = FALSE
  /\ adding = None
  /\ step = "idle"
  /\ added = {}
  /\ fdo = [p \in Pdo |-> "none"]
  /\ unattached = {}
  /\ name = None
  /\ link = "none"
  /\ wmi = {}
  /\ failed = {}
  /\ robbed = FALSE

\* DriverEntry copies the registry path; without memory for it the driver is
\* not loaded.
DriverEntry ==
  /\ driver = "unloaded"
  /\ \/ driver' = "loaded" /\ registryPath' = TRUE
     \/ UNCHANGED <<driver, registryPath>>
  /\ UNCHANGED <<adding, step, added, device, wmi, failed, robbed>>

(***************************************************************************)
(* AddDevice.                                                              *)
(***************************************************************************)

\* IoCreateDevice fails where the name is taken, or for want of memory; the
\* error is answered with STATUS_SUCCESS, so that the PDO counts as added.
\* Nobody looks whether IoAttachDeviceToDeviceStack returned NULL.
IoCreateDevice(p) ==
  /\ driver = "loaded" /\ adding = None /\ p \notin added
  /\ added' = added \cup {p}
  /\ \/ /\ name = None
        /\ name' = p
        /\ fdo' = [fdo EXCEPT ![p] = "initializing"]
        /\ unattached' \in {unattached, unattached \cup {p}}
        /\ adding' = p
        /\ step' = "link"
     \/ UNCHANGED <<name, fdo, unattached, adding, step>>
  /\ UNCHANGED <<driver, registryPath, link, wmi, failed, robbed>>

\* Mutant: the link of that name is deleted before the second try.
CreateSymbolicLinkByForce ==
  /\ \/ /\ step \in {"link", "relink"} /\ link = "none"
        /\ link' = "ours"
        /\ step' = "finish"
        /\ UNCHANGED robbed
     \/ /\ step = "link" /\ link # "none"
        /\ step' = "relink"
        /\ link' = "none"
        /\ robbed' = (robbed \/ link = "foreign")
  /\ UNCHANGED <<driver, registryPath, adding, added, fdo, unattached, name, wmi, failed>>

\* IoCreateSymbolicLink fails where the link exists, or for want of memory.  It
\* is tried a second time after a link with the name of the device, which is
\* no link, was deleted; then AddDevice gives up and leaves the FDO behind.
CreateSymbolicLink ==
  /\ \/ /\ step \in {"link", "relink"} /\ link = "none"
        /\ link' = "ours"
        /\ step' = "finish"
        /\ UNCHANGED <<adding, failed>>
     \/ /\ step = "link"
        /\ step' = "relink"
        /\ UNCHANGED <<link, adding, failed>>
     \/ /\ step = "relink"
        /\ step' = "idle"
        /\ adding' = None
        /\ failed' = failed \cup {adding}
        /\ UNCHANGED link
  /\ UNCHANGED <<driver, registryPath, added, fdo, unattached, name, wmi, robbed>>

\* DO_DEVICE_INITIALIZING is cleared, timer and DPC are initialised, and
\* Acpi_Wmi_Registration registers the FDO, or fails, which is only logged.
FinishAddDevice ==
  /\ step = "finish"
  /\ fdo' = [fdo EXCEPT ![adding] = "ready"]
  /\ wmi' \in {wmi, wmi \cup {adding}}
  /\ step' = "idle"
  /\ adding' = None
  /\ UNCHANGED <<driver, registryPath, added, unattached, name, link, failed, robbed>>

(***************************************************************************)
(* The end of a device and of the driver.                                  *)
(***************************************************************************)

\* IoDeleteSymbolicLink(&ustrSymLinkName) deletes by name, whoever made it.
DeleteSymbolicLink ==
  /\ link' = "none"
  /\ robbed' = (robbed \/ link = "foreign")

\* Mutant: the link is not deleted.
RemoveDeviceKeepsLink(p) ==
  /\ p \in added /\ adding # p
  /\ added' = added \ {p}
  /\ IF fdo[p] = "none" \/ p \in unattached THEN UNCHANGED <<fdo, name, failed>>
       ELSE /\ fdo' = [fdo EXCEPT ![p] = "none"]
            /\ name' = None
            /\ failed' = failed \ {p}
  /\ UNCHANGED <<driver, registryPath, adding, step, unattached, link, wmi, robbed>>

\* Mutant: the device is not deleted.
RemoveDeviceKeepsDevice(p) ==
  /\ p \in added /\ adding # p
  /\ added' = added \ {p}
  /\ IF fdo[p] = "none" \/ p \in unattached THEN UNCHANGED <<link, robbed>>
       ELSE DeleteSymbolicLink
  /\ UNCHANGED <<driver, registryPath, adding, step, fdo, unattached, name, wmi, failed>>

\* RemoveDevice, which detaches and deletes the FDO; a PDO the driver has no
\* FDO for, or none on its stack, is removed without it.
RemoveDevice(p) ==
  /\ p \in added /\ adding # p
  /\ added' = added \ {p}
  /\ IF fdo[p] = "none" \/ p \in unattached THEN UNCHANGED <<device, failed, robbed>>
       ELSE /\ DeleteSymbolicLink
            /\ fdo' = [fdo EXCEPT ![p] = "none"]
            /\ name' = None
            /\ failed' = failed \ {p}
            /\ UNCHANGED unattached
  /\ UNCHANGED <<driver, registryPath, adding, step, wmi>>

\* Unload deletes link and device of every FDO that is left, and the copy of
\* the registry path.
Unload ==
  /\ driver = "loaded" /\ added = {}
  /\ driver' = "unloaded"
  /\ registryPath' = FALSE
  /\ IF \A p \in Pdo : fdo[p] = "none" THEN UNCHANGED <<device, failed, robbed>>
       ELSE /\ DeleteSymbolicLink
            /\ fdo' = [p \in Pdo |-> "none"]
            /\ unattached' = {}
            /\ name' = None
            /\ failed' = {}
  /\ UNCHANGED <<adding, step, added, wmi>>

\* Other software makes a link of this name where there is none, or deletes
\* its own.
ForeignLink ==
  /\ \/ link = "none" /\ link' = "foreign"
     \/ link = "foreign" /\ link' = "none"
  /\ UNCHANGED <<driver, registryPath, adding, step, added, fdo, unattached, name,
                 wmi, failed, robbed>>

AddDevice(p) ==
  \/ IoCreateDevice(p)
  \/ adding = p /\ (CreateSymbolicLink \/ FinishAddDevice)

Next ==
  \/ DriverEntry \/ Unload \/ ForeignLink
  \/ \E p \in Pdo : AddDevice(p) \/ RemoveDevice(p)

Spec == Init /\ [][Next]_vars

(***************************************************************************)
(* Properties.                                                             *)
(***************************************************************************)

\* Every variable of the driver stays in its type.
TypeOK ==
  /\ driver \in {"unloaded", "loaded"}
  /\ registryPath \in BOOLEAN
  /\ adding \in Pdo \cup {None}
  /\ step \in {"idle", "link", "relink", "finish"}
  /\ added \in SUBSET Pdo
  /\ fdo \in [Pdo -> {"none", "initializing", "ready"}]
  /\ unattached \in SUBSET Pdo
  /\ name \in Pdo \cup {None}
  /\ link \in {"none", "ours", "foreign"}
  /\ wmi \in SUBSET Pdo
  /\ failed \in SUBSET Pdo
  /\ robbed \in BOOLEAN

\* However devices come, fail and go, the driver's link exists just as long
\* as an FDO that can be opened by it: it never dangles, and a ready FDO is
\* never without it.
LinkTracksDevice ==
  adding = None => (link = "ours" <=> \E p \in Pdo : fdo[p] = "ready")

\* Only a failure leaves an FDO behind, and only until Unload: an FDO whose PDO
\* was removed is one that could not be attached, an FDO that AddDevice has
\* left uninitialised is one without a link, and the unloaded driver has no
\* FDO, no link, no name and no copy of the registry path.  (The block of the
\* operation region and its handler, which do stay, are OpRegion's.)
OnlyFailuresLeave ==
  /\ \A p \in Pdo : fdo[p] # "none" /\ p \notin added => p \in unattached
  /\ \A p \in Pdo : fdo[p] = "initializing" /\ adding # p => p \in failed
  /\ driver = "unloaded" =>
       /\ \A p \in Pdo : fdo[p] = "none"
       /\ link # "ours" /\ name = None /\ ~registryPath

\* The driver deletes the link of other software only together with an FDO
\* whose AddDevice had got no link (DriverEntry.cpp:271, 295).
RobsOnlyAfterFailure ==
  [][robbed' # robbed =>
       \E p \in failed : fdo[p] # "none" /\ (RemoveDevice(p) \/ Unload)]_vars
=============================================================================
