----------------------------- MODULE MCDevices ------------------------------
(***************************************************************************)
(* The virtio drivers and the hypervisor for TLC. The initial state        *)
(* chooses one of the parts, which then has the variables v1, v2, ... to   *)
(* itself; so one run covers them all.                                     *)
(***************************************************************************)
EXTENDS Integers, FiniteSets, SequencesExt, TLC

VARIABLES
    part,       \* the part of the system that a behaviour is about
    v1, v2, v3, v4, v5, v6, v7, v8, v9, v10, v11

vars == <<part, v1, v2, v3, v4, v5, v6, v7, v8, v9, v10, v11>>

\* Variables that a part does not use: vi and those after it.
Off == "off"
Off11 == v11 = Off
Off9 == v9 = Off /\ v10 = Off /\ Off11
Off8 == v8 = Off /\ Off9
Off7 == v7 = Off /\ Off8
Rest11 == <<v11>>
Rest9 == <<v9, v10, Rest11>>
Rest8 == <<v8, Rest9>>
Rest7 == <<v7, Rest8>>

\* The devices to start: capability lists of several shapes and orders, with and
\* without what virtio wants, and queues up to the largest that fit.
Cap(type) == [vendor |-> TRUE, type |-> type, mem |-> TRUE]
Other == [vendor |-> FALSE, type |-> "isr", mem |-> FALSE]     \* another PCI capability (MSI-X)
Lists ==
    {<<>>, <<Other>>, <<Cap("common"), Cap("notify"), Cap("isr"), Cap("device")>>,
     <<Other, Cap("pci"), Cap("device"), Cap("isr"), Cap("notify"), Cap("common")>>,
     <<Cap("common"), Cap("notify"), Other, Cap("device")>>,
     <<Cap("common"), [Cap("isr") EXCEPT !.mem = FALSE], Cap("notify"), Cap("device")>>}
SomeWorlds ==
    [type : {"net", "gpu"}, id : {"modern", "transitional", "absent"}, caps : Lists, barIo : BOOLEAN,
     offers : {{"MAC", "STATUS", "MRG_RXBUF"}, {"MAC", "STATUS", "MRG_RXBUF", "VERSION_1"}, {"VERSION_1"}},
     accepts : BOOLEAN, size : {1, 2, 128, 256, 1024, 8192}]

\* Where the guest maps its code.
LargePages == [map : {"2m"}, i2 : {0, 300}, i1 : {7}]

-----------------------------------------------------------------------------
gpu == INSTANCE VirtioGpu WITH
    NUM_DESCS <- 4, INDEX_MOD <- 64, DEMO <- TRUE, ANSWERS <- {"ok", "error"},
    MAX_FRAMES <- 4,
    driver_state <- v1, ctrlq <- v2, next_buffer_index <- v3, request <- v4,
    response <- v5, framebuffer <- v6, isr <- v7, irq <- v8, timer <- v9, pc <- v10,
    device <- v11

start == INSTANCE VirtioInit WITH
    Worlds <- SomeWorlds, NUM_QUEUES <- 2,
    world <- v1, pc <- v2, ops <- v3, cap <- v4, io <- v5, status <- v6, features <- v7,
    queues <- v8

irqs == INSTANCE HvIrq WITH
    Guests <- {"g1", "g2"}, Ops <- {"io"}, PIC_VALUES <- {},
    pending <- v1, halted <- v2, armed <- v3, fired <- v4, vmx <- v5, next_irq <- v6,
    due <- v7, lost <- v8

irqs_pic == INSTANCE HvIrq WITH
    Guests <- {"g1"}, Ops <- {"io", "flag", "pic"}, PIC_VALUES <- {{}, {0}, {2, 4}},
    pending <- v1, halted <- v2, armed <- v3, fired <- v4, vmx <- v5, next_irq <- v6,
    due <- v7, lost <- v8

blk == INSTANCE HvBlk WITH
    NUM_DESCS <- 8, INDEX_MOD <- 64, Sectors <- {"s1", "s2"}, Values <- {1, 2},
    MAX_REQS <- 3, MAX_SELECT <- 0,
    vq <- v1, noint <- v2, mem <- v3, reqs <- v4, popped <- v5, pc <- v6, virtio <- v7,
    irq <- v8, disk <- v9, served <- v10

guest_memory == INSTANCE HvMm WITH
    Tables <- {1, 2}, Entries <- {1, 2}, LAPIC <- <<2, 1>>, Files <- {<<1, 2>>},
    Values <- {"a", "b"}, Codes <- LargePages, MAX_PAGES <- 8,
    page_areas <- v1, mem <- v2, tables <- v3, ept <- v4, emulated <- v5, rip <- v6,
    ram <- v7

pci == INSTANCE HvPci WITH
    PORT_BASE <- 40, PAGE <- 4, Lens <- {0, 1, 4, 5}, FIRST_IRQ <- 12, MAX_DEVICES <- 4,
    devices <- v1, next <- v2, selected <- v3, read_bar0_size <- v4, sizing <- v5,
    seen <- v6

-----------------------------------------------------------------------------
Init ==
    \/ part = "gpu" /\ gpu!Init
    \/ part = "start" /\ start!Init /\ Off9
    \/ part = "irqs" /\ irqs!Init /\ Off9
    \/ part = "irqs_pic" /\ irqs_pic!Init /\ Off9
    \/ part = "blk" /\ blk!Init /\ Off11
    \/ part = "guest_memory" /\ guest_memory!Init /\ Off8
    \/ part = "pci" /\ pci!Init /\ Off7

GpuStep == part = "gpu" /\ gpu!Next /\ UNCHANGED part
StartStep == part = "start" /\ start!Next /\ UNCHANGED <<part, Rest9>>
IrqsStep == part = "irqs" /\ irqs!Next /\ UNCHANGED <<part, Rest9>>
IrqsPicStep == part = "irqs_pic" /\ irqs_pic!Next /\ UNCHANGED <<part, Rest9>>
BlkStep == part = "blk" /\ blk!Next /\ UNCHANGED <<part, Rest11>>
GuestMemoryStep == part = "guest_memory" /\ guest_memory!Next /\ UNCHANGED <<part, Rest8>>
PciStep == part = "pci" /\ pci!Next /\ UNCHANGED <<part, Rest7>>

\* The guests' interrupts and the PCI bus never stop; the others may stop at their
\* bounds.
Stop == part \notin {"irqs", "irqs_pic", "pci"} /\ UNCHANGED vars

Next ==
    GpuStep \/ StartStep \/ IrqsStep \/ IrqsPicStep \/ BlkStep \/ GuestMemoryStep \/
    PciStep \/ Stop

Spec == Init /\ [][Next]_vars

-----------------------------------------------------------------------------
\* virtio_gpu: commands are given one at a time, in the order the specification
\* wants, also when the device answers with errors (VirtioGpu).
CommandsRight == part = "gpu" => gpu!CommandsRight

\* libs/virtio: a device goes live only by the book, whatever it offers, and its
\* queues fit into their memory (VirtioInit).
StartRight == part = "start" => start!StartRight

\* hv/guest.c, hv/x64 and the kernel's VM exits: no IRQ is lost or made up between
\* server and guest, and no guest sleeps while one is pending (HvIrq).
IrqsRight ==
    /\ part = "irqs" => irqs!IrqsRight
    /\ part = "irqs_pic" => irqs_pic!IrqsRight

\* hv/virtio_blk.c: requests come back in order, once each, when they are done, and
\* read what was written before (HvBlk).
RequestsRight == part = "blk" => blk!RequestsRight

\* hv/mm.c: server and guest see the same memory, with the kernel image in it, and
\* the server's tables are not in it (HvMm).
GuestMemoryRight == part = "guest_memory" => guest_memory!GuestMemoryRight

\* hv/pci.c: a device's ports lead to it and to no other, and the guest finds their
\* number (HvPci).
BusRight == part = "pci" => pci!BusRight
=============================================================================
