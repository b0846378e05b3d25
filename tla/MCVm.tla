-------------------------------- MODULE MCVm --------------------------------
(***************************************************************************)
(* The vm server, the heap and the device manager for TLC. The initial     *)
(* state chooses one of the parts, which then has the variables v1, v2,    *)
(* ... to itself; so one run covers them all.                              *)
(***************************************************************************)
EXTENDS Integers, FiniteSets, SequencesExt, TLC

VARIABLES
    part,       \* the part of the system that a behaviour is about
    v1, v2, v3, v4, v5, v6, v7, v8, v9, v10, v11, v12, v13, v14

vars == <<part, v1, v2, v3, v4, v5, v6, v7, v8, v9, v10, v11, v12, v13, v14>>

\* Variables that a part does not use: vi and those after it.
Off == "off"
Off13 == v13 = Off /\ v14 = Off
Off4 == v4 = Off /\ v5 = Off /\ v6 = Off /\ v7 = Off /\ v8 = Off /\ v9 = Off /\ v10 = Off /\ v11 = Off /\ v12 = Off /\ Off13
Rest13 == <<v13, v14>>
Rest4 == <<v4, v5, v6, v7, v8, v9, v10, v11, v12, Rest13>>

\* Who calls whom, and which messages carry a payload: tasks 2 and 3 are
\* applications, 4 is a file system, 5 a disk driver whose answers are short.
FsCalls == {<<2, 4>>, <<3, 4>>, <<4, 5>>}
FsOol == {<<2, 4>>, <<3, 4>>, <<4, 2>>, <<4, 5>>}
\* The same with requests to the driver that are short, too.
ShortOol == FsOol \ {<<4, 5>>}
\* Two devices of vendor 7 and one of vendor 8; drivers ask by vendor and device,
\* by device alone (PCI_ANY), and for a device that is not there.
Vendors == <<7, 7, 8>>
Devices == <<1, 2, 3>>
Some == {<<7, 1>>, <<0, 3>>, <<7, 9>>}

-----------------------------------------------------------------------------
ool == INSTANCE Ool WITH
    VM <- 1, Tasks <- {2, 3, 4, 5}, Calls <- FsCalls, Sends <- {}, OolTo <- FsOol,
    Payloads <- {11, 12}, Bufs <- {21}, Mortal <- {}, Faulting <- {},
    in_use <- v1, ool_buf <- v2, received_ool <- v3, ool_sender_queue <- v4,
    ool_ptr <- v5, mem <- v6, pc <- v7, op <- v8, msg <- v9, client <- v10,
    called <- v11, vm_panic <- v12

ool_fault == INSTANCE Ool WITH
    VM <- 1, Tasks <- {2, 3, 4, 5}, Calls <- FsCalls, Sends <- {}, OolTo <- ShortOol,
    Payloads <- {11}, Bufs <- {21}, Mortal <- {3, 5}, Faulting <- {2},
    in_use <- v1, ool_buf <- v2, received_ool <- v3, ool_sender_queue <- v4,
    ool_ptr <- v5, mem <- v6, pc <- v7, op <- v8, msg <- v9, client <- v10,
    called <- v11, vm_panic <- v12

tasks == INSTANCE VmTasks WITH
    NUM_TASKS <- 4, Names <- {"a", "b"}, BADELF <- FALSE, PAGERS <- TRUE,
    MAX_LAUNCHES <- 3, MAX_SERVICES <- 2, MAX_WATCHES <- 0,
    in_use <- v1, pager <- v2, waiting_for <- v3, watchers <- v4, valid <- v5,
    services <- v6, mailbox <- v7, notified <- v8, created <- v9, pc <- v10,
    peer <- v11, got <- v12, launches <- v13, vm_panic <- v14

pages == INSTANCE VmPages WITH
    VM <- "vm", Tasks <- {"a", "b"}, Pages <- 1..10, Mmio <- {}, Zeroed <- {2},
    Elf <- {}, FREE_VADDR <- 16, FREE_VADDR_END <- 19, TMP_PAGE <- 30, OOL_PAGE <- 31,
    Sizes <- {2}, Shms <- {}, Garbage <- {}, Bad <- {5}, EXHAUST <- FALSE,
    mem <- v1, shms <- v2, pc <- v3

exhaust == INSTANCE VmPages WITH
    VM <- "vm", Tasks <- {"a", "b"}, Pages <- 1..9, Mmio <- {}, Zeroed <- {2},
    Elf <- {}, FREE_VADDR <- 16, FREE_VADDR_END <- 19, TMP_PAGE <- 30, OOL_PAGE <- 31,
    Sizes <- {2}, Shms <- {}, Garbage <- {}, Bad <- {}, EXHAUST <- TRUE,
    mem <- v1, shms <- v2, pc <- v3

mmio == INSTANCE VmPages WITH
    VM <- "vm", Tasks <- {"a", "b"}, Pages <- 1..9, Mmio <- {101}, Zeroed <- {},
    Elf <- {3}, FREE_VADDR <- 16, FREE_VADDR_END <- 18, TMP_PAGE <- 30, OOL_PAGE <- 31,
    Sizes <- {1}, Shms <- {}, Garbage <- {}, Bad <- {}, EXHAUST <- FALSE,
    mem <- v1, shms <- v2, pc <- v3

shm == INSTANCE VmPages WITH
    VM <- "vm", Tasks <- {"a", "b"}, Pages <- 1..7, Mmio <- {}, Zeroed <- {}, Elf <- {},
    FREE_VADDR <- 16, FREE_VADDR_END <- 19, TMP_PAGE <- 30, OOL_PAGE <- 31,
    Sizes <- {1}, Shms <- {1}, Garbage <- {3}, Bad <- {}, EXHAUST <- FALSE,
    mem <- v1, shms <- v2, pc <- v3

malloc == INSTANCE Malloc WITH
    HEAP <- 24, NUM_BINS <- 3, Sizes <- {1, 2, 3, 7},
    chunks <- v1, bins <- v2, live <- v3

manager == INSTANCE Dm WITH
    Tasks <- {1, 2}, Slots <- {1, 2, 3}, Vendor <- Vendors, Device <- Devices,
    PCI_ANY <- 0, Wanted <- Some, DevIds <- {1, 2, 3, 4}, HANDLE_MAX <- 2,
    MAX_ATTACH <- 2, MAX_RUNS <- 1,
    dm <- v1, devices <- v2, dev <- v3, table <- v4, bars <- v5, master <- v6,
    watched <- v7, exited <- v8, runs <- v9, up <- v10, wait <- v11, used <- v12

manager_reuse == INSTANCE Dm WITH
    Tasks <- {1}, Slots <- {1, 2, 3}, Vendor <- Vendors, Device <- Devices,
    PCI_ANY <- 0, Wanted <- {<<7, 1>>}, DevIds <- {1, 2, 3}, HANDLE_MAX <- 6,
    MAX_ATTACH <- 2, MAX_RUNS <- 3,
    dm <- v1, devices <- v2, dev <- v3, table <- v4, bars <- v5, master <- v6,
    watched <- v7, exited <- v8, runs <- v9, up <- v10, wait <- v11, used <- v12

-----------------------------------------------------------------------------
Init ==
    \/ part = "ool" /\ ool!Init /\ Off13
    \/ part = "ool_fault" /\ ool_fault!Init /\ Off13
    \/ part = "tasks" /\ tasks!Init
    \/ part = "pages" /\ pages!Init /\ Off4
    \/ part = "exhaust" /\ exhaust!Init /\ Off4
    \/ part = "mmio" /\ mmio!Init /\ Off4
    \/ part = "shm" /\ shm!Init /\ Off4
    \/ part = "malloc" /\ malloc!Init /\ Off4
    \/ part = "manager" /\ manager!Init /\ Off13
    \/ part = "manager_reuse" /\ manager_reuse!Init /\ Off13

OolStep == part = "ool" /\ ool!Next /\ UNCHANGED <<part, Rest13>>
OolFaultStep == part = "ool_fault" /\ ool_fault!Next /\ UNCHANGED <<part, Rest13>>
TasksStep == part = "tasks" /\ tasks!Next /\ UNCHANGED part
PagesStep == part = "pages" /\ pages!Next /\ UNCHANGED <<part, Rest4>>
ExhaustStep == part = "exhaust" /\ exhaust!Next /\ UNCHANGED <<part, Rest4>>
MmioStep == part = "mmio" /\ mmio!Next /\ UNCHANGED <<part, Rest4>>
ShmStep == part = "shm" /\ shm!Next /\ UNCHANGED <<part, Rest4>>
MallocStep == part = "malloc" /\ malloc!Next /\ UNCHANGED <<part, Rest4>>
ManagerStep == part = "manager" /\ manager!Next /\ UNCHANGED <<part, Rest13>>
ManagerReuseStep == part = "manager_reuse" /\ manager_reuse!Next /\ UNCHANGED <<part, Rest13>>

\* Only the tasks that use payloads must never all wait; the others may stop at
\* their bounds.
Stop == part # "ool" /\ UNCHANGED vars

Next ==
    OolStep \/ OolFaultStep \/ TasksStep \/ PagesStep \/ ExhaustStep \/ MmioStep \/
    ShmStep \/ MallocStep \/ ManagerStep \/ ManagerReuseStep \/ Stop

Spec == Init /\ [][Next]_vars

-----------------------------------------------------------------------------
\* ool.c and the library: from ipc_send to ool_verify a payload is in one buffer,
\* on whose owner vm, the library, senders and receivers agree; no server waits
\* for the client it answers, and no failure makes an assertion of vm fail (Ool).
BuffersRight ==
    /\ part = "ool" => ool!BuffersRight /\ ool!ReplyNeverWaits
    /\ part = "ool_fault" => ool_fault!PayloadIntact /\ ool_fault!VmLives

\* task.c: no task waits for a service that is there, or is answered unasked, and
\* no service outlives its server (VmTasks).
LookupsRight == part = "tasks" => tasks!LookupsRight

\* page_alloc.c and page_fault.c: what is free is not mapped, tables are private, and
\* a task's address keeps its page; also while memory runs out (VmPages).
MappingsRight ==
    /\ part = "pages" => pages!MappingsRight
    /\ part = "exhaust" => exhaust!MappingsRight

\* page_alloc.c: reference counts are the number of areas that hold a page, with
\* device memory and shared memory, and with tasks that exit (VmPages).
RefCountsExact ==
    /\ part = "mmio" => mmio!RefCountsExact
    /\ part = "shm" => shm!RefCountsExact

\* malloc.c: chunks tile the heap, and free lists hold the free chunks (Malloc).
HeapSound == part = "malloc" => malloc!HeapSound

\* dm: its devices are those of drivers that run, handles lead to them and BARs are
\* restored; a driver reaches only devices of its own if task IDs are not reused (Dm).
DevicesRight ==
    /\ part = "manager" => manager!DevicesRight /\ manager!OwnDevices
    /\ part = "manager_reuse" => manager_reuse!DevicesRight
=============================================================================
