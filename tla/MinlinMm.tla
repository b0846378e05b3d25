------------------------------ MODULE MinlinMm ------------------------------
(***************************************************************************)
(* The memory of MinLin's processes (servers/minlin/mm.c).  An address     *)
(* space is a list of chunks, each of them memory of the server that is    *)
(* mapped into the process page by page, when the process or the server    *)
(* touches it.  The server reads and writes the same memory through the    *)
(* list (copy_from_user, copy_to_user).  `ref' is the address space that   *)
(* the program expects: what Linux would show it.                          *)
(***************************************************************************)
EXTENDS Integers, SequencesExt

CONSTANTS
    PAGE_SIZE,
    Phdrs,          \* the segments of the executable: [vaddr, offset, filesz, memsz]
    File,           \* its bytes
    HEAP_ADDR, HEAP_END, STACK_ADDR, STACK_LEN, HEADER_ADDR,
    LEVELS,         \* pages that vm_map asks for before it maps a page
    PROCS,          \* processes 1 .. PROCS, of which 1 exists at first
    MAX_BUFS,       \* bound: buffers ever allocated
    Touched,        \* the addresses that processes touch
    Bad             \* addresses that are in no area

Pids == 1..PROCS
Junk == 9           \* what allocated memory holds
Table == 8          \* what a page table holds
Arg == 7            \* what init_stack writes
NoChunk == [vaddr |-> 0, len |-> 0, buf |-> 0]
Nowhere == [buf |-> 0, off |-> 0]
AlignDown(a) == a - (a % PAGE_SIZE)

VARIABLES
    mm,         \* chunks: the list of every process; mem: the buffers;
                \* pt: the page tables, page -> place in a buffer
    brk,        \* current_brk
    alive,      \* the processes that run: not yet forked, or in a fault for ever
    ref,        \* what the program expects at the addresses it may touch
    last        \* the last copy: [kind, pid, addr, err, data, expected]

vars == <<mm, brk, alive, ref, last>>

-----------------------------------------------------------------------------

\* mm_resolve: the first chunk of the list with the address.
mm_resolve(m, p, a) ==
    LET cs == m.chunks[p]
        all == {i \in DOMAIN cs : cs[i].vaddr <= a /\ a < cs[i].vaddr + cs[i].len}
    IN  IF all = {} THEN NoChunk ELSE cs[Min(all)]

Within(c, a) == [buf |-> c.buf, off |-> a - c.vaddr]

\* mm_alloc_mchunk: pages from the vm server, appended to the list.
mm_alloc_mchunk(m, p, vaddr, content) ==
    [m EXCEPT !.mem = Append(@, content),
              !.chunks[p] = Append(@, [vaddr |-> vaddr, len |-> Len(content), buf |-> Len(m.mem) + 1])]

Fill(n, v) == [i \in 1..n |-> v]

\* Mutant of SegmentPage: the whole page is read, beyond the end of the segment.
SegmentPage_full(ph, a) ==
    LET first == ph.offset + (a - ph.vaddr)
    IN  [i \in 1..PAGE_SIZE |-> IF first + i \in DOMAIN File THEN File[first + i] ELSE 0]

\* The page of a segment: zeros, and over them the part of the file.
SegmentPage(ph, a) ==
    LET inSegment == a - ph.vaddr
        inPage == ph.vaddr % PAGE_SIZE
        copy == IF a < ph.vaddr
                THEN [file |-> ph.offset, page |-> inPage, len |-> Min({PAGE_SIZE - inPage, ph.filesz})]
                ELSE IF inSegment >= ph.filesz THEN [file |-> 0, page |-> 0, len |-> 0]
                ELSE [file |-> inSegment + ph.offset, page |-> 0, len |-> Min({ph.filesz - inSegment, PAGE_SIZE})]
    IN  [i \in 1..PAGE_SIZE |->
            IF i - 1 \in copy.page..(copy.page + copy.len - 1) THEN File[copy.file + i - copy.page] ELSE 0]

SegmentOf(a) ==
    {i \in DOMAIN Phdrs : Phdrs[i].vaddr # 0 /\ Phdrs[i].vaddr <= a /\ a < Phdrs[i].vaddr + Phdrs[i].memsz}

\* fill_page: a chunk for the page, if the address is in the heap or a segment.
fill_page(m, p, a) ==
    LET page == AlignDown(a)
    IN  IF mm_resolve(m, p, a) # NoChunk THEN m
        ELSE IF HEAP_ADDR <= a /\ a < brk[p] THEN mm_alloc_mchunk(m, p, page, Fill(PAGE_SIZE, 0))
        ELSE IF SegmentOf(a) # {} THEN mm_alloc_mchunk(m, p, page, SegmentPage(Phdrs[Min(SegmentOf(a))], page))
        ELSE m

\* map_page: vm_map takes a page for every missing table; each is a chunk too.
map_page(m, p, page, target) ==
    LET tables == [k \in 1..(LEVELS + 1) |-> [vaddr |-> page, len |-> PAGE_SIZE, buf |-> Len(m.mem) + k]]
    IN  [m EXCEPT !.mem = @ \o [k \in 1..(LEVELS + 1) |-> Fill(PAGE_SIZE, Table)],
                  !.chunks[p] = @ \o tables, !.pt[p][page] = target]

\* handle_page_fault: [m, ok].
handle_page_fault(m, p, a) ==
    LET filled == fill_page(m, p, a)
        c == mm_resolve(filled, p, a)
    IN  IF c = NoChunk THEN [m |-> m, ok |-> FALSE]
        ELSE [m |-> map_page(filled, p, AlignDown(a), Within(c, AlignDown(a))), ok |-> TRUE]

Byte(m, w) == m.mem[w.buf][w.off + 1]
Pages == {AlignDown(a) : a \in Touched \cup Bad}
NoPages == [page \in Pages |-> Nowhere]

\* The image of the executable, as the program expects it: the bytes of the file,
\* zeros behind them, a heap of zeros, and its arguments on the stack.
Image(a) ==
    IF SegmentOf(a) # {}
    THEN LET ph == Phdrs[Min(SegmentOf(a))]
         IN  IF a - ph.vaddr < ph.filesz THEN File[ph.offset + (a - ph.vaddr) + 1] ELSE 0
    ELSE IF HEAP_ADDR <= a /\ a < HEAP_END THEN 0 ELSE IF a = STACK_ADDR THEN Arg ELSE Junk

\* The areas in which the program may use memory.
Valid(p, a) ==
    SegmentOf(a) # {} \/ (HEAP_ADDR <= a /\ a < brk[p]) \/ (STACK_ADDR <= a /\ a < STACK_ADDR + STACK_LEN)

\* The chunks of proc_execve: the first page of the file, and the stack.
FreshChunks(m, p) ==
    LET cleared == [m EXCEPT !.chunks[p] = <<>>, !.pt[p] = NoPages]
        header == mm_alloc_mchunk(cleared, p, HEADER_ADDR, [i \in 1..PAGE_SIZE |-> File[i]])
    IN  mm_alloc_mchunk(header, p, STACK_ADDR, <<Arg>> \o Fill(STACK_LEN - 1, Junk))

Quiet == [kind |-> "none", pid |-> 0, addr |-> 0, err |-> "OK", data |-> <<>>, expected |-> <<>>]

Init ==
    /\ mm = FreshChunks([chunks |-> [p \in Pids |-> <<>>], mem |-> <<>>, pt |-> [p \in Pids |-> NoPages]], 1)
    /\ brk = [p \in Pids |-> HEAP_ADDR] /\ alive = {1} /\ last = Quiet
    /\ ref = [p \in Pids |-> [a \in Touched |-> Image(a)]]

Room == Len(mm.mem) + LEVELS + 2 <= MAX_BUFS

-----------------------------------------------------------------------------
\* PAGE_FAULT_MSG.  Without a page there is no reply.
Fault(p, a) ==
    /\ p \in alive /\ mm.pt[p][AlignDown(a)] = Nowhere /\ Room
    /\ \E r \in {handle_page_fault(mm, p, a)} :
          mm' = r.m /\ alive' = IF r.ok THEN alive ELSE alive \ {p}
    /\ last' = Quiet /\ UNCHANGED <<brk, ref>>

\* The process writes to a page that is mapped.
UserWrite(p, a, v) ==
    LET w == mm.pt[p][AlignDown(a)]
    IN  /\ p \in alive /\ w # Nowhere
        /\ Valid(p, a)
        /\ mm' = [mm EXCEPT !.mem[w.buf][w.off + (a % PAGE_SIZE) + 1] = v]
        /\ ref' = [ref EXCEPT ![p][a] = v] /\ last' = Quiet /\ UNCHANGED <<brk, alive>>

\* pre_brk, of an address that is not below current_brk.
Brk(p, a) ==
    /\ p \in alive /\ a >= brk[p] /\ a < HEAP_END
    /\ brk' = [brk EXCEPT ![p] = a] /\ last' = Quiet
    /\ UNCHANGED <<mm, alive, ref>>

\* mm_clone_mchunk: a chunk with a copy of the contents.
Clone(m, q, c) == mm_alloc_mchunk(m, q, c.vaddr, m.mem[c.buf])

\* proc_fork: mm_fork, and then the header and the stack once more.
Fork(p, q) ==
    LET clone(m, c) == Clone(m, q, c)
        cleared == [mm EXCEPT !.chunks[q] = <<>>, !.pt[q] = NoPages]
        cs == mm.chunks[p]
    IN  /\ p \in alive /\ q \notin alive /\ q # 1
        /\ Len(mm.mem) + Len(cs) + 2 <= MAX_BUFS
        /\ mm' = FoldLeft(clone, cleared, cs \o <<cs[1], cs[2]>>)
        /\ brk' = [brk EXCEPT ![q] = brk[p]] /\ ref' = [ref EXCEPT ![q] = ref[p]]
        /\ alive' = alive \cup {q} /\ last' = Quiet

\* proc_execve of the same file.
Execve(p) ==
    /\ p \in alive /\ Len(mm.mem) + 2 <= MAX_BUFS
    /\ mm' = FreshChunks(mm, p) /\ brk' = [brk EXCEPT ![p] = HEAP_ADDR]
    /\ ref' = [ref EXCEPT ![p] = [a \in Touched |-> Image(a)]] /\ last' = Quiet /\ UNCHANGED alive

-----------------------------------------------------------------------------
(***************************************************************************)
(* Copies of the server.  A copy touches one page after the other; two     *)
(* bytes are enough for both pages of one that crosses a boundary.         *)
(***************************************************************************)
\* What one turn of the loop of copy_from_user finds: the page is made if the
\* aligned address is in no chunk; `DEBUG_ASSERT(mchunk)' if it cannot be.
Source(m, p, a) ==
    IF mm_resolve(m, p, AlignDown(a)) # NoChunk THEN [m |-> m, c |-> mm_resolve(m, p, AlignDown(a))]
    ELSE LET made == handle_page_fault(m, p, a).m IN [m |-> made, c |-> mm_resolve(made, p, a)]

CopyFromUser(p, a) ==
    /\ p \in alive /\ Len(mm.mem) + 2 * (LEVELS + 2) <= MAX_BUFS
    /\ \E s \in {Source(mm, p, a)} : \E t \in {Source(s.m, p, a + 1)} :
          LET found == s.c # NoChunk /\ t.c # NoChunk
          IN  /\ mm' = t.m
              /\ last' = [kind |-> "from", pid |-> p, addr |-> a, err |-> IF found THEN "OK" ELSE "ASSERT",
                          data |-> IF found THEN <<Byte(t.m, Within(s.c, a)), Byte(t.m, Within(t.c, a + 1))>> ELSE <<>>,
                          expected |-> IF \A x \in {a, a + 1} : x \in Touched /\ Valid(p, x)
                                       THEN <<ref[p][a], ref[p][a + 1]>> ELSE <<>>]
    /\ UNCHANGED <<brk, alive, ref>>

\* One byte of copy_to_user.  handle_page_fault returns OK, which is 0, for
\* success: the copy is given up then, with the page made.
CopyToUser(p, a, v) ==
    LET c == mm_resolve(mm, p, AlignDown(a))
        w == Within(c, a)
    IN  /\ p \in alive /\ Room
        /\ IF c # NoChunk
           THEN /\ mm' = [mm EXCEPT !.mem[w.buf][w.off + 1] = v] /\ ref' = [ref EXCEPT ![p][a] = v]
                /\ last' = [Quiet EXCEPT !.kind = "to", !.pid = p, !.addr = a]
           ELSE \E r \in {handle_page_fault(mm, p, a)} :
                /\ mm' = r.m /\ UNCHANGED ref
                /\ last' = [Quiet EXCEPT !.kind = "to", !.pid = p, !.addr = a,
                                         !.err = IF r.ok THEN "NOT_PERMITTED" ELSE "ASSERT"]
        /\ UNCHANGED <<brk, alive>>

Next ==
    \E p \in Pids :
        \/ \E a \in Touched \cup Bad : Fault(p, a)
        \/ \E a \in Touched : UserWrite(p, a, 1) \/ CopyToUser(p, a, 2)
        \/ \E a \in Touched \cup Bad : CopyFromUser(p, a)
        \/ \E a \in Touched : Brk(p, a)
        \/ \E q \in Pids : Fork(p, q)
        \/ Execve(p)

Spec == Init /\ [][Next]_vars

-----------------------------------------------------------------------------

\* What a process sees through its page table, and what the server finds for it
\* through the list of chunks (mm_resolve), is what the program expects: after
\* faults, brk, writes on either side, fork and execve, and although the pages of
\* the tables are chunks at the same addresses.
Coherent ==
    \A p \in alive : \A a \in {x \in Touched : Valid(p, x)} :
        LET w == mm.pt[p][AlignDown(a)]
            c == mm_resolve(mm, p, a)
        IN  /\ (w # Nowhere) => (mm.mem[w.buf][w.off + (a % PAGE_SIZE) + 1] = ref[p][a])
            /\ (c # NoChunk) => (Byte(mm, Within(c, a)) = ref[p][a])

\* No two processes have a buffer in common: a write of the one is never seen by
\* the other (mm_clone_mchunk copies).
Separate ==
    \A p, q \in alive : p # q =>
        {c.buf : c \in Range(mm.chunks[p])} \cap {c.buf : c \in Range(mm.chunks[q])} = {}

\* A copy from a process's valid memory gives what the program put there, also
\* when it crosses into a page that was never touched.
CopiesExpected == (last.expected # <<>>) => (last.err = "OK" /\ last.data = last.expected)

\* A process has its memory to itself, and there is one view of it.
MemoryRight == Coherent /\ Separate /\ CopiesExpected
=============================================================================
