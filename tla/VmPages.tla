------------------------------- MODULE VmPages -------------------------------
(***************************************************************************)
(* Memory in the vm server: servers/vm/page_alloc.c, page_fault.c, shm.c,  *)
(* and the cases of main.c and ool.c that use them, over the kernel's      *)
(* arch_vm_map (kernel/arch/x64/vm.c).                                     *)
(*                                                                         *)
(* Addresses are counted in pages.  Each handler of vm is one step; its    *)
(* helpers are functions from memory to memory.  A page table entry needs  *)
(* the tables on the path to it, which the kernel builds from pages vm     *)
(* offers one by one.                                                      *)
(***************************************************************************)
EXTENDS Integers, FiniteSets, FiniteSetsExt, SequencesExt

CONSTANTS
    Tasks, VM,
    Pages,          \* the physical pages of the RAM region: 1..n
    Mmio,           \* the physical pages of devices
    Zeroed, Elf,    \* virtual pages: .bss, stack and heap; ELF segments
    FREE_VADDR, FREE_VADDR_END,     \* virtual pages for virt_page_alloc
    TMP_PAGE, OOL_PAGE,             \* vm's windows on other tasks' pages
    Sizes,          \* how many pages a task asks for
    Shms,           \* IDs of shared memories
    Garbage,        \* what shm_create's `vaddr' may hold
    Bad,            \* invalid virtual pages that a task may touch
    EXHAUST         \* a task may run out of virtual address space

NOVADDR == 0
Phys == Pages \cup Mmio
All == Tasks \cup {VM}
FreeRange == FREE_VADDR..(FREE_VADDR_END - 1)
VPages == Zeroed \cup Elf \cup FreeRange \cup {TMP_PAGE, OOL_PAGE} \cup Garbage \cup Bad

VARIABLES
    \* ref_count of each page and num_unused_pages; the page areas of each task and
    \* its free_vaddr; the kernel's page tables and their entries
    mem,
    shms,   \* struct shm: the page, or 0 if not in use
    pc      \* "run", "fault" (in the kernel, waiting for vm) or "none"; the page
vars == <<mem, shms, pc>>

Init ==
    /\ mem = [ref_count |-> [p \in Phys |-> 0], unused |-> Cardinality(Phys),
              areas |-> [t \in All |-> <<>>], free_vaddr |-> [t \in All |-> FREE_VADDR],
              tables |-> [t \in All |-> {}], entries |-> [t \in All |-> {}]]
    /\ shms = [i \in Shms |-> 0]
    /\ pc = [t \in Tasks |-> <<"none", 0>>]

-----------------------------------------------------------------------------
(***************************************************************************)
(* page_alloc.c                                                            *)
(***************************************************************************)
Span(a) == a.paddr..(a.paddr + a.num - 1)

page_incref(m, span) ==
    [m EXCEPT !.ref_count = [p \in Phys |-> IF p \in span THEN @[p] + 1 ELSE @[p]],
              !.unused = @ - Cardinality({p \in span : m.ref_count[p] = 0})]

\* The places where page_alloc finds n free pages; it takes the first, and
\* panics if there is none.
Fits(m, n) == {b \in Pages : \A i \in 0..(n - 1) : b + i \in Pages /\ m.ref_count[b + i] = 0}
page_alloc(m, n) == Min(Fits(m, n))

\* The end of task_page_alloc, pages counted in.
AddArea(m, t, v, p, n) ==
    LET a == [vaddr |-> v, paddr |-> p, num |-> n]
    IN  [page_incref(m, Span(a)) EXCEPT !.areas[t] = Append(@, a)]

\* task_page_alloc for one page at a given address, or at none.
task_page_alloc(m, t, v) == AddArea(m, t, v, page_alloc(m, 1), 1)

\* virt_page_alloc: room for n pages.
Room(m, t, n) == m.free_vaddr[t] + n < FREE_VADDR_END
virt_page_alloc(m, t, n) == [m EXCEPT !.free_vaddr[t] = @ + n]

\* How often the areas in `areas' hold p.
Held(areas, p) == Cardinality({i \in DOMAIN areas : p \in Span(areas[i])})

\* t's areas, tables and entries are gone, and with them `drop' references.
Without(m, t, drop) ==
    LET ref == [p \in Phys |-> m.ref_count[p] - drop[p]]
    IN  [m EXCEPT !.ref_count = ref,
                  !.unused = @ + Cardinality({p \in Phys : m.ref_count[p] > 0 /\ ref[p] = 0}),
                  !.areas[t] = <<>>, !.tables[t] = {}, !.entries[t] = {}]

\* Mutant of Released: only the first area is freed.
Released_first(m, t) ==
    Without(m, t, [p \in Phys |-> Held(SubSeq(m.areas[t], 1, Min({1, Len(m.areas[t])})), p)])

\* task_page_free_all and the kernel's task_destroy.
Released(m, t) == Without(m, t, [p \in Phys |-> Held(m.areas[t], p)])

-----------------------------------------------------------------------------
(***************************************************************************)
(* page_fault.c, over kernel/arch/x64/vm.c                                 *)
(***************************************************************************)
\* The tables on the path to v's entry: two levels of eight and four entries.
Path(v) == {<<2, v \div 32>>, <<1, v \div 4>>}
Missing(m, t, v) == Path(v) \ {e[1] : e \in m.tables[t]}

\* The first n free pages.
FirstFree(m, n) ==
    LET free == {p \in Pages : m.ref_count[p] = 0}
    IN  [i \in 1..n |-> CHOOSE p \in free : Cardinality({q \in free : q < p}) = i - 1]

\* map_page: a page for each missing table is kept as an area without address;
\* one more is allocated and freed.  An entry is overwritten.
map_page(m, t, v, p) ==
    LET miss == SetToSortSeq(Missing(m, t, v), LAMBDA x, y : x[1] > y[1])
        kpages == FirstFree(m, Len(miss))
    IN  [page_incref(m, Range(kpages)) EXCEPT
           !.areas[t] = @ \o [i \in DOMAIN kpages |->
                                 [vaddr |-> NOVADDR, paddr |-> kpages[i], num |-> 1]],
           !.tables[t] = @ \cup {<<miss[i], kpages[i]>> : i \in DOMAIN miss},
           !.entries[t] = {e \in @ : e[1] # v} \cup {<<v, p>>}]

\* Mapping v needs that many free pages.
Need(m, t, v) == Cardinality(Missing(m, t, v)) + 1
Spare(m) == Cardinality({p \in Pages : m.ref_count[p] = 0})

\* The area of t that holds v.
Holding(m, t, v) ==
    {i \in DOMAIN m.areas[t] :
       m.areas[t][i].vaddr <= v /\ v < m.areas[t][i].vaddr + m.areas[t][i].num}
Resolve(m, t, v) ==
    LET a == m.areas[t][Min(Holding(m, t, v))] IN a.paddr + (v - a.vaddr)

\* handle_page_fault: the page is there, or it is filled through vm's window.
handle_page_fault(m, t, v) ==
    IF Holding(m, t, v) # {} \/ v \notin Zeroed \cup Elf THEN m
    ELSE map_page(task_page_alloc(m, t, v), VM, TMP_PAGE, page_alloc(m, 1))

\* There are pages enough for all that vm does at a fault, so it does not panic.
Enough(m, t, v) == Spare(m) > 1 + Need(m, VM, TMP_PAGE) + Need(m, t, v)

-----------------------------------------------------------------------------
(***************************************************************************)
(* The steps of tasks and of vm.                                           *)
(***************************************************************************)
Running(t) == pc[t] = <<"run", 0>>

\* task_spawn, task_exit and task_kill.
Launch(t) ==
    /\ pc[t] = <<"none", 0>>
    /\ pc' = [pc EXCEPT ![t] = <<"run", 0>>]
    /\ mem' = [mem EXCEPT !.free_vaddr[t] = FREE_VADDR]
    /\ UNCHANGED shms

task_kill(t) ==
    /\ pc' = [pc EXCEPT ![t] = <<"none", 0>>]
    /\ mem' = Released(mem, t)

Exit(t) == Running(t) /\ task_kill(t) /\ UNCHANGED shms

\* A task touches a page that is not mapped.
Touch(t, v) ==
    /\ Running(t) /\ \A e \in mem.entries[t] : e[1] # v
    /\ v \in Zeroed \cup Elf \cup Bad \/ Holding(mem, t, v) # {}
    /\ pc' = [pc EXCEPT ![t] = <<"fault", v>>]
    /\ UNCHANGED <<mem, shms>>

\* Mutant of PageFault: the first page of the area is mapped, not the one at v.
PageFault_base(t) ==
    LET v == pc[t][2]
    IN  /\ pc[t][1] = "fault" /\ Enough(mem, t, v)
        /\ \E m \in {handle_page_fault(mem, t, v)} : \E i \in Holding(m, t, v) :
             mem' = map_page(m, t, v, m.areas[t][i].paddr)
        /\ pc' = [pc EXCEPT ![t] = <<"run", 0>>]
        /\ UNCHANGED shms

\* PAGE_FAULT_MSG.  When there is no such page the answer goes to KERNEL_TASK,
\* which is no task.
PageFault(t) ==
    LET v == pc[t][2]
    IN  /\ pc[t][1] = "fault" /\ Enough(mem, t, v)
        /\ \E m \in {handle_page_fault(mem, t, v)} :
             Holding(m, t, v) # {} /\ mem' = map_page(m, t, v, Resolve(m, t, v))
        /\ pc' = [pc EXCEPT ![t] = <<"run", 0>>]
        /\ UNCHANGED shms

\* vaddr2paddr for an out-of-line copy from or to t: the page is filled, and
\* mapped into vm only.
OolTouch(t, v) ==
    LET m == handle_page_fault(mem, t, v)
    IN  /\ Running(t) /\ Enough(mem, t, v) /\ Spare(mem) > 5
        /\ Holding(m, t, v) # {}
        /\ mem' = map_page(m, VM, OOL_PAGE, Resolve(m, t, v))
        /\ UNCHANGED <<shms, pc>>

\* VM_ALLOC_PAGES_MSG with no physical address: the pages are taken before
\* there is an address for them.
AllocPages(t, n) ==
    /\ Running(t) /\ Fits(mem, n) # {} /\ Spare(mem) > n + 3
    /\ EXHAUST \/ Room(mem, t, n)
    /\ IF Room(mem, t, n)
       THEN /\ mem' = AddArea(virt_page_alloc(mem, t, n), t, mem.free_vaddr[t],
                              page_alloc(mem, n), n)
            /\ UNCHANGED pc
       ELSE LET b == page_alloc(mem, n)
            IN  /\ mem' = Released(page_incref(mem, b..(b + n - 1)), t)
                /\ pc' = [pc EXCEPT ![t] = <<"none", 0>>]
    /\ UNCHANGED shms

\* VM_ALLOC_PAGES_MSG for a device page: it is mapped at address 0, before an
\* address is chosen for it.
AllocAt(t, p) ==
    /\ Running(t) /\ Room(mem, t, 1) /\ Spare(mem) > Need(mem, t, NOVADDR) + 3
    /\ mem' = AddArea(virt_page_alloc(map_page(mem, t, NOVADDR, p), t, 1), t,
                      mem.free_vaddr[t], p, 1)
    /\ UNCHANGED <<shms, pc>>

\* SHM_CREATE_MSG: the address of the area is not initialised; the first
\* free ID is used.
shm_create(t, g, n) ==
    LET free == {i \in Shms : shms[i] = 0}
        v == IF g = NOVADDR THEN mem.free_vaddr[t] ELSE g
        m == IF g = NOVADDR THEN virt_page_alloc(mem, t, n) ELSE mem
    IN  /\ Running(t) /\ free # {} /\ Fits(mem, n) # {} /\ Spare(mem) > n + 3
        /\ g = NOVADDR => Room(mem, t, n)
        /\ shms' = [shms EXCEPT ![Min(free)] = page_alloc(mem, n)]
        /\ mem' = AddArea(m, t, v, page_alloc(mem, n), n)
        /\ UNCHANGED pc

\* SHM_MAP_MSG: the first page is mapped into the task.
shm_map(t, i, n) ==
    /\ Running(t) /\ shms[i] # 0 /\ Room(mem, t, n) /\ Spare(mem) > 3
    /\ mem' = map_page(virt_page_alloc(mem, t, n), t, mem.free_vaddr[t], shms[i])
    /\ UNCHANGED <<shms, pc>>

\* SHM_CLOSE_MSG, from any task.
shm_close(t, i) ==
    /\ Running(t) /\ shms[i] # 0
    /\ shms' = [shms EXCEPT ![i] = 0]
    /\ UNCHANGED <<mem, pc>>

Next ==
    \E t \in Tasks :
        \/ Launch(t) \/ Exit(t) \/ PageFault(t)
        \/ \E v \in VPages : Touch(t, v) \/ OolTouch(t, v)
        \/ \E n \in Sizes : AllocPages(t, n)
        \/ \E p \in Mmio : AllocAt(t, p)
        \/ \E i \in Shms, n \in Sizes :
             \/ shm_map(t, i, n) \/ shm_close(t, i)
             \/ \E g \in Garbage \cup {NOVADDR} : shm_create(t, g, n)

Spec == Init /\ [][Next]_vars

-----------------------------------------------------------------------------
(***************************************************************************)
(* Properties.                                                             *)
(***************************************************************************)
Owners(p) == MapThenSumSet(LAMBDA t : Held(mem.areas[t], p), All)

\* The reference count of a page is the number of areas that hold it, and
\* num_unused_pages the number of pages without one: no step leaks a page or
\* frees one early, whatever order tasks fault, allocate and die in.
RefCountsExact ==
    /\ \A p \in Phys : mem.ref_count[p] = Owners(p)
    /\ mem.unused = Cardinality({p \in Phys : mem.ref_count[p] = 0})

\* No page is freed while an area holds it.
AreasHeld ==
    /\ \A p \in Phys : mem.ref_count[p] >= Owners(p)
    /\ mem.unused = Cardinality({p \in Phys : mem.ref_count[p] = 0})

\* "If *paddr is zero, it allocates unused physical memory pages"
\* (task_page_alloc): what page_alloc takes for unused is neither a page table
\* nor mapped in any task's address space (vm's own windows apart).
FreePagesUnmapped ==
    \A p \in Pages : mem.ref_count[p] = 0 =>
        \A t \in Tasks : /\ \A e \in mem.entries[t] : e[2] # p
                         /\ \A e \in mem.tables[t] \cup mem.tables[VM] : e[2] # p

\* A page table is no task's memory, and no other table.
TablesPrivate ==
    \A t, u \in All : \A e \in mem.tables[t] :
        /\ \A f \in mem.tables[u] : <<t, e>> = <<u, f>> \/ e[2] # f[2]
        /\ u \in Tasks => \A f \in mem.entries[u] : e[2] # f[2]

\* A task's address keeps its page: what the hardware translates and what vm
\* finds when it copies payloads is the same (a device mapped at 0 apart).
EntriesAgree ==
    \A t \in Tasks : \A e \in mem.entries[t] : e[1] # NOVADDR =>
        Holding(mem, t, e[1]) # {} /\ Resolve(mem, t, e[1]) = e[2]

\* What is mapped agrees with what is held, also while memory runs out.
MappingsRight == AreasHeld /\ FreePagesUnmapped /\ TablesPrivate /\ EntriesAgree
=============================================================================
