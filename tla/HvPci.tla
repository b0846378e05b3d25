-------------------------------- MODULE HvPci --------------------------------
(***************************************************************************)
(* The PCI bus that the hypervisor server emulates (servers/hv/pci.c and   *)
(* ioport.c), and a guest that looks for devices on it: it reads vendors   *)
(* and base address registers and finds out the sizes of the latter by     *)
(* writing ones to them.                                                   *)
(***************************************************************************)
EXTENDS Integers, Sequences

CONSTANTS
    PORT_BASE, PAGE,        \* 0xa000 and PAGE_SIZE
    Lens,                   \* port_len of devices
    FIRST_IRQ,              \* 12
    MAX_DEVICES             \* bound, also of the slots that the guest looks at

VARIABLES
    devices,        \* <<[slot, port_base, port_len, irq]>>; irq is 0 without an interrupt
    next,           \* guest->pci: [slot, port_base, irq]
    selected,       \* guest->pci.selected_addr: [slot, reg]
    read_bar0_size,
    sizing,         \* guest: the slot whose BAR0 it has written ones to, or -1
    seen            \* guest: [slot -> the size that it found]

vars == <<devices, next, selected, read_bar0_size, sizing, seen>>
Slots == 0..MAX_DEVICES
Regs == {"vendor", "bar0"}
Unknown == -1

\* pci_add_device: ports in whole pages, the next slot and the next IRQ.
pci_add_device(ds, n, len, use_irq) ==
    [devices |-> Append(ds, [slot |-> n.slot, port_base |-> n.port_base, port_len |-> len, irq |-> IF use_irq THEN n.irq ELSE 0]),
     next |-> [slot |-> n.slot + 1, port_base |-> n.port_base + ((len + PAGE - 1) \div PAGE) * PAGE,
               irq |-> IF use_irq THEN n.irq + 1 ELSE n.irq]]

\* pci_init: the host bridge, without ports.
Init ==
    /\ \E r \in {pci_add_device(<<>>, [slot |-> 0, port_base |-> PORT_BASE, irq |-> FIRST_IRQ], 0, FALSE)} :
          devices = r.devices /\ next = r.next
    /\ selected = [slot |-> 0, reg |-> "vendor"] /\ read_bar0_size = FALSE /\ sizing = -1
    /\ seen = [s \in Slots |-> Unknown]

\* A device of the server; `next_irq < 16' is an assertion.
AddDevice(len, use_irq) ==
    /\ Len(devices) < MAX_DEVICES /\ sizing = -1 /\ (use_irq => next.irq < 16)
    /\ \E r \in {pci_add_device(devices, next, len, use_irq)} : devices' = r.devices /\ next' = r.next
    /\ UNCHANGED <<selected, read_bar0_size, sizing, seen>>

\* lookup_device_by_slot: the device, or none.
Lookup(slot) == {i \in DOMAIN devices : devices[i].slot = slot}

\* Port 0xcf8.
SelectAddr(slot, reg) ==
    /\ selected' = [slot |-> slot, reg |-> reg] /\ sizing \in {-1, slot} /\ (sizing # -1 => reg = "bar0")
    /\ UNCHANGED <<devices, next, read_bar0_size, sizing, seen>>

\* Port 0xcfc written: ones ask for the size, by a guest that knows the device.
WriteOnes ==
    /\ selected.reg = "bar0" /\ Lookup(selected.slot) # {} /\ read_bar0_size' = TRUE /\ sizing' = selected.slot
    /\ UNCHANGED <<devices, next, selected, seen>>

\* What pci_handle_io_read returns for port 0xcfc.
ReadValue ==
    LET found == Lookup(selected.slot)
        d == devices[CHOOSE i \in found : TRUE]
    IN  IF found = {} THEN 0 ELSE IF read_bar0_size THEN d.port_len
        ELSE IF selected.reg = "vendor" THEN 1 ELSE IF d.port_len > 0 THEN d.port_base + 1 ELSE 0

\* Mutant of Read: the flag is kept.
Read_kept ==
    /\ seen' = IF sizing # -1 THEN [seen EXCEPT ![sizing] = ReadValue] ELSE seen
    /\ sizing' = -1 /\ UNCHANGED <<devices, next, selected, read_bar0_size>>

\* Port 0xcfc read: the flag is cleared if there is a device.
Read ==
    /\ seen' = IF sizing # -1 THEN [seen EXCEPT ![sizing] = ReadValue] ELSE seen
    /\ sizing' = -1 /\ read_bar0_size' = (read_bar0_size /\ Lookup(selected.slot) = {})
    /\ UNCHANGED <<devices, next, selected>>

Next ==
    \/ \E len \in Lens, use_irq \in BOOLEAN : AddDevice(len, use_irq)
    \/ \E slot \in Slots, reg \in Regs : SelectAddr(slot, reg)
    \/ WriteOnes \/ Read
Spec == Init /\ [][Next]_vars

-----------------------------------------------------------------------------
\* handle_io_read and handle_io_write: the devices that get an access to a port.
Routed(port) == {i \in DOMAIN devices : devices[i].port_base <= port /\ port < devices[i].port_base + devices[i].port_len}

\* Every port that a base address register announces is routed to its device, the
\* one that the list has first, and to no other; slots and IRQs are unique.
Distinct ==
    /\ \A i \in DOMAIN devices : \A port \in devices[i].port_base..(devices[i].port_base + devices[i].port_len - 1) : Routed(port) = {i}
    /\ \A i, j \in DOMAIN devices : i # j =>
          devices[i].slot # devices[j].slot /\ (devices[i].irq # 0 => devices[i].irq # devices[j].irq)

\* The guest finds the sizes as they are, and no other read returns a size.
SizesSeen ==
    /\ \A s \in Slots : seen[s] # Unknown => \E i \in Lookup(s) : devices[i].port_len = seen[s]
    /\ read_bar0_size <=> sizing # -1

\* The guest finds every device with its ports.
BusRight == Distinct /\ SizesSeen
=============================================================================
