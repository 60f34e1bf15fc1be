------------------------------ MODULE PciAccess ------------------------------
(***************************************************************************)
(* The two ways to the PCI configuration space.                            *)
(*                                                                         *)
(* DisplayPCIConfiguration (ConsoleApplication1.cpp, which main does not   *)
(* call at present) reads it register by register: it writes the address   *)
(* port with a WRITE_PORT request and reads the data port with a READ_PORT *)
(* request.  Any number of applications do so at the same time.            *)
(*                                                                         *)
(* The PCI_CONFIG request has the driver read it with IRP_MN_READ_CONFIG   *)
(* (ReadWriteConfigSpace, DeviceSpaceConfig.cpp), which it sends to the    *)
(* top of its own device stack: to WdmPnp (DriverEntry.cpp).               *)
(***************************************************************************)
EXTENDS Naturals

CONSTANTS
  Application, \* the threads that access the configuration space
  DevBits,     \* the devices of a bus: 2^5
  FunBits,     \* the functions of a device: 2^3
  Registers    \* registers of four bytes that are read, 32 in the code

ASSUME BitsAssumption == {DevBits, FunBits, Registers} \subseteq Nat \ {0}

Slot == [dev : 0..(DevBits - 1), fun : 0..(FunBits - 1)]
Register == 0..(Registers - 1)

VARIABLES
  place,    \* where each application stands
  slot,     \* the slot an application asks for
  i,        \* the register it has come to
  latch,    \* the address port: a register of a slot
  shown,    \* where each of its registers was read from
  config,   \* pci_config of a PCI_CONFIG request: "stack" or "bus"
  crossed   \* history: applications whose address another one overwrote

pciVars == <<place, slot, i, latch, shown, config, crossed>>

\* PCI_SLOT_NUMBER.AsULONG: the device number in the low bits.
AsULONG(s) == s.dev + DevBits * s.fun

\* The address port has the function in the low bits, then the device.
Decoded(n) == [dev |-> n \div FunBits, fun |-> n % FunBits]

\* dwAdddr | i, with AsULONG in the place of device and function.
Address(s, r) == <<Decoded(AsULONG(s)), r>>

PciInit ==
  /\ place = [c \in Application |-> "idle"]
  /\ slot \in [Application -> Slot]
  /\ i = [c \in Application |-> 0]
  /\ latch = <<[dev |-> 0, fun |-> 0], 0>>
  /\ shown = [c \in Application |-> [r \in Register |-> latch]]
  /\ config = [c \in Application |-> "stack"]
  /\ crossed = {}

MoveTo(c, label) == place' = [place EXCEPT ![c] = label]

\* WRITE_PORT to the address port and READ_PORT from the data port, both with
\* method 4, in the driver.
WritePort(address) == latch' = address
ReadPort == latch

(***************************************************************************)
(* DisplayPCIConfiguration.                                                *)
(***************************************************************************)

\* Mutant: the address is written for the first register only.
OutAddressOnce(c) ==
  /\ place[c] \in {"idle", "out"}
  /\ IF i[c] = 0 THEN WritePort(Address(slot[c], i[c])) ELSE UNCHANGED latch
  /\ MoveTo(c, "in")
  /\ crossed' = crossed \cup
       {k \in Application \ {c} : place[k] = "in" /\ latch' # Address(slot[k], i[k])}
  /\ UNCHANGED <<slot, i, shown, config>>

\* Out_32(hDevice, PCI_CONFIG_ADDRESS, dwAdddr | i), for the first register
\* or the next.
OutAddress(c) ==
  /\ place[c] \in {"idle", "out"}
  /\ WritePort(Address(slot[c], i[c]))
  /\ MoveTo(c, "in")
  /\ crossed' = crossed \cup
       {k \in Application \ {c} : place[k] = "in" /\ latch' # Address(slot[k], i[k])}
  /\ UNCHANGED <<slot, i, shown, config>>

\* In_32(hDevice, PCI_CONFIG_DATA).
InData(c) ==
  /\ place[c] = "in"
  /\ shown' = [shown EXCEPT ![c][i[c]] = ReadPort]
  /\ IF i[c] + 1 = Registers
       THEN MoveTo(c, "shown") /\ UNCHANGED i
       ELSE MoveTo(c, "out") /\ i' = [i EXCEPT ![c] = @ + 1]
  /\ UNCHANGED <<slot, latch, config, crossed>>

(***************************************************************************)
(* PCI_CONFIG.                                                             *)
(***************************************************************************)

\* The handlers of some minor functions, and those that ask the drivers below.
fcntab ==
  [START_DEVICE |-> "StartDevice",
   QUERY_CAPABILITIES |-> "PnpQueryCapabilitiesHandler",
   READ_CONFIG |-> "DefaultPnpHandler",
   WRITE_CONFIG |-> "DefaultPnpHandler"]
Forwarding == {"StartDevice", "PnpQueryCapabilitiesHandler"}

\* ReadWriteConfigSpace builds the IRP for the top of the stack, or fails.
ReadWriteConfigSpace(c) ==
  /\ place[c] = "idle"
  /\ \E label \in {"readConfig", "failed"} : MoveTo(c, label)
  /\ UNCHANGED <<slot, i, latch, shown, config, crossed>>

\* WdmPnp: a handler that forwards has the bus fill the buffer, and
\* DefaultPnpHandler answers STATUS_SUCCESS without touching it.
WdmPnp(c) ==
  /\ place[c] = "readConfig"
  /\ config' = IF fcntab["READ_CONFIG"] \in Forwarding
                 THEN [config EXCEPT ![c] = "bus"] ELSE config
  /\ MoveTo(c, "configured")
  /\ UNCHANGED <<slot, i, latch, shown, crossed>>

PciNext ==
  \E c \in Application :
    OutAddress(c) \/ InData(c) \/ ReadWriteConfigSpace(c) \/ WdmPnp(c)

PciSpec == PciInit /\ [][PciNext]_pciVars

(***************************************************************************)
(* Properties.                                                             *)
(***************************************************************************)

\* The register read is the one addressed, for every register of every
\* application, unless another one wrote the address port between the two
\* requests (ConsoleApplication1.cpp:154-155).
MixedOnlyIfCrossed ==
  \A c \in Application \ crossed, r \in Register :
    place[c] = "shown" \/ r < i[c] => shown[c][r] = Address(slot[c], r)

\* "start low-level drive" (DeviceSpaceConfig.cpp:58): a PCI_CONFIG request
\* that succeeds has the configuration space from the drivers below.
ConfigFromBelow == \A c \in Application : place[c] = "configured" => config[c] = "bus"
=============================================================================
