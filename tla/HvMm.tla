-------------------------------- MODULE HvMm ---------------------------------
(***************************************************************************)
(* The memory of a guest of the hypervisor server (servers/hv/mm.c and     *)
(* guest.c): pages are allocated and filled when the guest or the server   *)
(* first touches them, and mapped in the extended page tables (EPT); the   *)
(* accesses to the local APIC are emulated.  A guest page is <<t, i>>,     *)
(* entry i of the last-level EPT table t; the levels above are alike.      *)
(***************************************************************************)
EXTENDS Integers, Sequences, FiniteSetsExt

CONSTANTS
    Tables, Entries,    \* of the EPT
    LAPIC,              \* the page of the local APIC
    Files,              \* pages that the program headers of the kernel image fill
    Values,             \* what is written
    Codes,              \* [map, i2, i1]: how the guest maps its code, "4k", "2m" or "1g", and where
    MAX_PAGES           \* bound: pages the server allocates

Pages == Tables \X Entries
NoPage == <<-1, -1>>    \* the address of internal pages in the code is 0

VARIABLES
    page_areas,     \* <<[gpage, internal]>>: the n-th is the n-th page the server has allocated
    mem,            \* what is in each allocated page
    tables, ept,    \* the tables that exist; the page that a guest page is mapped to, or 0
    emulated,       \* accesses to the APIC: "none", "ok", "failed" (an assertion)
    rip,            \* the code of the guest that accesses the APIC
    ram             \* ghost: what the guest expects in its memory

vars == <<page_areas, mem, tables, ept, emulated, rip, ram>>
state == [areas |-> page_areas, mem |-> mem, tables |-> tables, ept |-> ept]

\* load_kernel_elf gives the files; all other memory is zero.
Fill(p) == IF p \in Files THEN "file" ELSE "zero"

\* guest_create: the top-level table is the first page.
Init ==
    /\ page_areas = <<[gpage |-> NoPage, internal |-> TRUE]>> /\ mem = <<"table">> /\ tables = {}
    /\ ept = [p \in Pages |-> 0] /\ emulated = "none" /\ rip \in Codes /\ ram = [p \in Pages |-> Fill(p)]

alloc_page(s, p, internal, contents) ==
    [s EXCEPT !.areas = Append(@, [gpage |-> p, internal |-> internal]), !.mem = Append(@, contents)]

\* ept_traverse: a missing table is allocated.
ept_traverse(s, p) ==
    IF p[1] \in s.tables THEN s ELSE [alloc_page(s, NoPage, TRUE, "table") EXCEPT !.tables = @ \cup {p[1]}]

\* resolve_guest_paddr: the first area of the guest page, or 0.
resolve_guest_paddr(s, p) ==
    LET found == {n \in DOMAIN s.areas : ~s.areas[n].internal /\ s.areas[n].gpage = p}
    IN  IF found = {} THEN 0 ELSE Min(found)

\* A page that is filled and mapped: s and the new page n.
MapPage(s, p) ==
    LET filled == alloc_page(s, p, FALSE, Fill(p))
        walked == ept_traverse(filled, p)
    IN  [walked EXCEPT !.ept[p] = Len(filled.areas)]

Set(s) == page_areas' = s.areas /\ mem' = s.mem /\ tables' = s.tables /\ ept' = s.ept

\* handle_ept_fault for memory, when the guest touches it.
GuestFault(p) ==
    /\ p # LAPIC /\ ept[p] = 0 /\ Len(page_areas) < MAX_PAGES
    /\ Set(MapPage(state, p)) /\ UNCHANGED <<emulated, rip, ram>>

\* resolve_guest_vaddr: the offset of an instruction in the page of the guest that maps
\* it, as its page-table indices, or <<>> if it is not found.  The offset in a page of
\* level 3 has 29 bits; an entry of level 1 that is present is taken for absent.
resolve_guest_vaddr(code) ==
    CASE code.map = "1g" -> <<code.i2 % 256, code.i1>>
      [] code.map = "2m" -> <<0, code.i1>>
      [] OTHER -> <<>>

\* Where the instruction is, as the processor finds it.
InstructionAt(code) ==
    CASE code.map = "1g" -> <<code.i2, code.i1>> [] code.map = "2m" -> <<0, code.i1>> [] OTHER -> <<0, 0>>

\* handle_ept_fault for the APIC: a page is allocated all the same, and the access is
\* emulated by handle_mmio_access, which reads the guest's instruction.
GuestMmio ==
    /\ ept[LAPIC] = 0 /\ Len(page_areas) < MAX_PAGES /\ Set(alloc_page(state, LAPIC, FALSE, "zero"))
    /\ emulated' = IF resolve_guest_vaddr(rip) = InstructionAt(rip) THEN "ok" ELSE "failed"
    /\ UNCHANGED <<rip, ram>>

\* The guest writes to memory that is mapped.
GuestWrite(p, v) ==
    /\ ept[p] # 0 /\ p # LAPIC /\ mem' = [mem EXCEPT ![ept[p]] = v] /\ ram' = [ram EXCEPT ![p] = v]
    /\ UNCHANGED <<page_areas, tables, ept, emulated, rip>>

\* Mutant of ServerWrite: the server does not map the page it allocates.
ServerWrite_unmapped(p, v) ==
    LET found == resolve_guest_paddr(state, p)
        s == IF found # 0 THEN state ELSE alloc_page(state, p, FALSE, Fill(p))
    IN  /\ p # LAPIC /\ Len(page_areas) < MAX_PAGES
        /\ Set([s EXCEPT !.mem[resolve_guest_paddr(s, p)] = v]) /\ ram' = [ram EXCEPT ![p] = v] /\ UNCHANGED <<emulated, rip>>

\* resolve_guest_paddr_buffer: a device of the server writes to the guest's memory.
ServerWrite(p, v) ==
    LET found == resolve_guest_paddr(state, p)
        s == IF found # 0 THEN state ELSE MapPage(state, p)
    IN  /\ p # LAPIC /\ Len(page_areas) < MAX_PAGES
        /\ Set([s EXCEPT !.mem[resolve_guest_paddr(s, p)] = v]) /\ ram' = [ram EXCEPT ![p] = v] /\ UNCHANGED <<emulated, rip>>

Next == GuestMmio \/ \E p \in Pages : GuestFault(p) \/ \E v \in Values : GuestWrite(p, v) \/ ServerWrite(p, v)
Spec == Init /\ [][Next]_vars

-----------------------------------------------------------------------------

\* The guest and the devices of the server see the same memory: a page that is mapped
\* is the one that the server finds for it.
SameMemory == \A p \in Pages : ept[p] # 0 => resolve_guest_paddr(state, p) = ept[p]

\* What is in the memory is what its program headers and the writes made it, whoever
\* touched the page first.
RamKept == \A p \in Pages : ept[p] # 0 => mem[ept[p]] = ram[p]

\* The tables of the server are not in the guest's memory, nor one page twice.
Apart ==
    /\ \A p \in Pages : ept[p] # 0 => ~page_areas[ept[p]].internal /\ mem[ept[p]] # "table"
    /\ \A p, q \in Pages : p # q /\ ept[p] # 0 => ept[p] # ept[q]

\* The guest's memory is what its page table, the server and its kernel image say.
GuestMemoryRight == SameMemory /\ RamKept /\ Apart
=============================================================================
