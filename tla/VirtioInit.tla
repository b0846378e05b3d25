------------------------------ MODULE VirtioInit -----------------------------
(***************************************************************************)
(* How a driver finds and starts its virtio device (libs/virtio): the      *)
(* modern interface if the PCI device has all the capabilities it needs,   *)
(* the legacy interface otherwise; then the features, the virtqueues and   *)
(* the status DRIVER_OK.  A status is the set of its bits.                 *)
(***************************************************************************)
EXTENDS Integers, FiniteSets, SequencesExt

CONSTANTS
    Worlds,     \* [type, id, caps, barIo, offers, accepts, size]: the devices to start
    NUM_QUEUES  \* the virtqueues that a driver initializes (two in each driver)

PAGE_SIZE == 4096
ALIGN_UP(n, align) == ((n + align - 1) \div align) * align

\* libs/virtio/include/virtio/virtio.h, and the FEATURES_OK of the virtio specification.
VIRTIO_STATUS_ACK == {1}
VIRTIO_STATUS_DRIVER == {2}
VIRTIO_STATUS_DRIVER_OK == {4}
VIRTIO_STATUS_FEAT_OK == {2, 16, 64}
FEATURES_OK == 8

VARIABLES
    world,      \* the device
    pc,         \* the step of the driver
    ops,        \* "none", "modern", "legacy"
    cap,        \* the next capability to look at
    io,         \* the structures that were mapped
    status,     \* the device's status register
    features,   \* the features the driver has set
    queues      \* the areas of each virtqueue: <<name, allocation, offset, size>>

vars == <<world, pc, ops, cap, io, status, features, queues>>

Init ==
    /\ world \in Worlds /\ pc = "modern" /\ ops = "none" /\ cap = 1 /\ io = {}
    /\ status = {} /\ features = {} /\ queues = <<>>

Goto(l) == pc' = l

\* The features that the drivers ask for.
Wanted(type) == IF type = "net" THEN {"MAC", "STATUS", "MRG_RXBUF"} ELSE {}

\* virtio_modern_find_device: 0x1040 + type, or the transitional ID, which net has.
AttachModern ==
    /\ pc = "modern"
    /\ Goto(IF world.id = "modern" \/ (world.id = "transitional" /\ world.type = "net") THEN "walk" ELSE "legacy")
    /\ UNCHANGED <<world, ops, cap, io, status, features, queues>>

Needed == {"common", "device", "notify", "isr"}

\* One capability of the list: the structure is mapped; an I/O BAR is an assertion.
Walk ==
    /\ pc = "walk" /\ cap <= Len(world.caps)
    /\ LET c == world.caps[cap]
           used == c.vendor /\ c.type \in Needed
       IN  io' = (IF used /\ c.mem THEN io \cup {c.type} ELSE io) /\ Goto(IF used /\ ~c.mem THEN "abort" ELSE pc)
    /\ cap' = cap + 1 /\ UNCHANGED <<world, ops, status, features, queues>>

\* Mutant of Walked: without the check of what was found.
Walked_unchecked ==
    /\ pc = "walk" /\ cap > Len(world.caps) /\ ops' = "modern" /\ Goto("reset")
    /\ UNCHANGED <<world, cap, io, status, features, queues>>

\* The end of the list: all four structures, or `falling back to the legacy driver'.
Walked ==
    /\ pc = "walk" /\ cap > Len(world.caps)
    /\ IF Needed \subseteq io THEN ops' = "modern" /\ Goto("reset") ELSE ops' = ops /\ Goto("legacy")
    /\ UNCHANGED <<world, cap, io, status, features, queues>>

\* virtio_legacy_find_device: 0x1000 + type - 1, and an I/O BAR#0, or an assertion.
AttachLegacy ==
    /\ pc = "legacy"
    /\ IF world.id = "transitional" /\ world.barIo THEN ops' = "legacy" /\ Goto("reset")
       ELSE ops' = ops /\ Goto("abort")
    /\ UNCHANGED <<world, cap, io, status, features, queues>>

\* The device: without the features it wants it does not keep FEATURES_OK.
write_device_status(value) == status' = IF world.accepts THEN value ELSE value \ {FEATURES_OK}

Reset == pc = "reset" /\ write_device_status({}) /\ Goto("ack") /\ UNCHANGED <<world, ops, cap, io, features, queues>>
Acknowledge ==
    /\ pc = "ack" /\ write_device_status(status \cup VIRTIO_STATUS_ACK) /\ Goto("driver")
    /\ UNCHANGED <<world, ops, cap, io, features, queues>>
Driver ==
    /\ pc = "driver" /\ write_device_status(status \cup VIRTIO_STATUS_DRIVER) /\ Goto("negotiate")
    /\ UNCHANGED <<world, ops, cap, io, features, queues>>

\* negotiate_feature: the features of the driver, with VERSION_1 for the modern interface.
NegotiateFeature ==
    LET want == Wanted(world.type) \cup (IF ops = "modern" THEN {"VERSION_1"} ELSE {})
    IN  /\ pc = "negotiate"
        /\ IF want \subseteq world.offers
           THEN features' = want /\ write_device_status(status \cup VIRTIO_STATUS_FEAT_OK) /\ Goto("check")
           ELSE Goto("abort") /\ UNCHANGED <<features, status>>
        /\ UNCHANGED <<world, ops, cap, io, queues>>

\* The assertion at the end of negotiate_feature.
CheckFeatures ==
    /\ pc = "check" /\ Goto(IF status \cap VIRTIO_STATUS_FEAT_OK # {} THEN "virtqs" ELSE "abort")
    /\ UNCHANGED <<world, ops, cap, io, status, features, queues>>

\* dma_alloc: whole pages.
dma_alloc(len) == ALIGN_UP(len, PAGE_SIZE)
Area(name, alloc, offset, size) == [name |-> name, alloc |-> alloc, offset |-> offset, size |-> size]

\* What the device uses of an area for n descriptors.
DescBytes(n) == 16 * n
AvailBytes(n) == 6 + 2 * n
UsedBytes(n) == 6 + 8 * n

\* virtq_init of the legacy interface: one allocation.
LegacyAreas(n) ==
    LET avail_ring_off == 16 * n
        used_ring_off == ALIGN_UP(avail_ring_off + 2 * (3 + n), PAGE_SIZE)
        alloc == [id |-> 1, size |-> dma_alloc(used_ring_off + ALIGN_UP(6 + 8 * n, PAGE_SIZE))]
    IN  {Area("desc", alloc, 0, DescBytes(n)), Area("avail", alloc, avail_ring_off, AvailBytes(n)),
         Area("used", alloc, used_ring_off, UsedBytes(n))}

\* virtq_init of the modern interface: num_descs times the size of the heads of the
\* rings, virtq_avail and virtq_used, 4 bytes each without their entries.
ModernAreas(n) ==
    {Area("desc", [id |-> 1, size |-> dma_alloc(n * 16)], 0, DescBytes(n)),
     Area("avail", [id |-> 2, size |-> dma_alloc(n * 4)], 0, AvailBytes(n)),
     Area("used", [id |-> 3, size |-> dma_alloc(n * 4)], 0, UsedBytes(n))}

\* virtq_init for the next queue; `too large queue size' is an assertion.
VirtqInit ==
    /\ pc = "virtqs" /\ Len(queues) < NUM_QUEUES
    /\ IF (IF ops = "modern" THEN world.size < 1024 ELSE world.size <= 4096)
       THEN queues' = Append(queues, IF ops = "modern" THEN ModernAreas(world.size) ELSE LegacyAreas(world.size)) /\ UNCHANGED pc
       ELSE Goto("abort") /\ UNCHANGED queues
    /\ UNCHANGED <<world, ops, cap, io, status, features>>

\* activate, after the driver has its queues.
Activate ==
    /\ pc = "virtqs" /\ Len(queues) = NUM_QUEUES /\ write_device_status(status \cup VIRTIO_STATUS_DRIVER_OK)
    /\ Goto("ready") /\ UNCHANGED <<world, ops, cap, io, features, queues>>

Next ==
    \/ AttachModern \/ Walk \/ Walked \/ AttachLegacy \/ Reset \/ Acknowledge \/ Driver
    \/ NegotiateFeature \/ CheckFeatures \/ VirtqInit \/ Activate
Spec == Init /\ [][Next]_vars

-----------------------------------------------------------------------------

\* The areas of a queue are inside their allocations and do not overlap.
AreasFit ==
    \A q \in DOMAIN queues : \A a, b \in queues[q] :
        /\ a.offset + a.size <= a.alloc.size
        /\ a # b /\ a.alloc.id = b.alloc.id => a.offset + a.size <= b.offset \/ b.offset + b.size <= a.offset

\* A device goes live only as the virtio specification wants it: acknowledged, with
\* features that it offers and with its queues, through an interface that it has.
LiveOnlyWhenReady ==
    4 \in status =>
        /\ {1, 2} \subseteq status /\ Len(queues) = NUM_QUEUES
        /\ features \subseteq world.offers /\ Wanted(world.type) \subseteq features
        /\ ops = "modern" => {"common", "device", "notify", "isr"} = io /\ "VERSION_1" \in features
        /\ ops = "legacy" => world.barIo

\* A device is started by the book, with queues that fit.
StartRight == LiveOnlyWhenReady /\ AreasFit
=============================================================================
