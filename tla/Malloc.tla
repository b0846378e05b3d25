------------------------------- MODULE Malloc -------------------------------
(***************************************************************************)
(* The heap of a user program (libs/resea/malloc.c).  Addresses and sizes  *)
(* are counted in units of 16 bytes, to which malloc rounds its sizes.  A  *)
(* chunk has FRAME units of header and red zones.  bins[i] heads the list  *)
(* of free chunks for 2^i units, and the last bin the list of all the      *)
(* others; the list goes through the chunks' next fields.                  *)
(***************************************************************************)
EXTENDS Integers, FiniteSets, FiniteSetsExt, Functions, TLC

CONSTANTS
    HEAP,       \* length of the heap
    NUM_BINS,   \* number of bins, the last one included
    Sizes       \* what the program asks for

FRAME == 4
NULL == -1
Bins == 0..NUM_BINS - 1
LAST == NUM_BINS - 1

VARIABLES
    chunks,     \* address -> chunk
    bins,       \* bin -> the first free chunk
    live        \* chunk held by the program -> units it has written there

vars == <<chunks, bins, live>>

\* malloc_init: one free chunk, in the last bin.
Init ==
    /\ chunks = (0 :> [next |-> NULL, capacity |-> HEAP - FRAME, size |-> 0, used |-> FALSE])
    /\ bins = [i \in Bins |-> IF i = LAST THEN 0 ELSE NULL]
    /\ live = <<>>

-----------------------------------------------------------------------------
(***************************************************************************)
(* The operations on a heap h = [chunks |-> ..., bins |-> ...].            *)
(***************************************************************************)
Heap == [chunks |-> chunks, bins |-> bins]

\* -1 stands for the last bin.
get_bin_idx_from_size(size) ==
    LET fit == {i \in 0..NUM_BINS - 2 : size <= 2^i}
    IN  IF fit = {} THEN -1 ELSE Min(fit)

\* The units a request is given when it does not come from a bin of its own.
ChunkSize(size) ==
    LET i == get_bin_idx_from_size(size) IN IF i < 0 THEN size ELSE 2^i

\* The free list from a, in order.
ListFrom(h, a) ==
    LET f[i \in 0..Cardinality(DOMAIN h.chunks)] ==
            IF i = 0 THEN a
            ELSE IF f[i - 1] = NULL THEN NULL ELSE h.chunks[f[i - 1]].next
    IN  f

\* The first chunk of the last bin's list from which the request can be served.
Serving(h, size) ==
    LET f == ListFrom(h, h.bins[LAST])
        ok == {i \in DOMAIN f : f[i] # NULL /\ h.chunks[f[i]].capacity >= ChunkSize(size)}
    IN  IF ok = {} THEN <<NULL, NULL>>
        ELSE LET i == Min(ok) IN <<f[i], IF i = 0 THEN NULL ELSE f[i - 1]>>

FromBin(h, size) ==
    LET i == get_bin_idx_from_size(size) IN i # -1 /\ h.bins[i] # NULL

CanServe(h, size) == FromBin(h, size) \/ Serving(h, size)[1] # NULL

Take(h, a, size) ==
    [h EXCEPT !.chunks[a].used = TRUE, !.chunks[a].size = size, !.chunks[a].next = NULL]

\* split: a new chunk is cut from the end of chunk a.
split(h, a, len) ==
    LET left == h.chunks[a].capacity - (FRAME + len)
        new == a + FRAME + left
    IN  <<new, [h EXCEPT !.chunks =
                  (new :> [next |-> NULL, capacity |-> len, size |-> 0, used |-> FALSE])
                  @@ [@ EXCEPT ![a].capacity = left]]>>

\* malloc: the chunk and the heap after it.
malloc(h, size) ==
    IF FromBin(h, size)
    THEN LET i == get_bin_idx_from_size(size)
             a == h.bins[i]
         IN  <<a, Take([h EXCEPT !.bins[i] = h.chunks[a].next], a, size)>>
    ELSE LET s == Serving(h, size)
             a == s[1]
             len == ChunkSize(size)
             cut == split(h, a, len)
         IN  IF h.chunks[a].capacity > len + FRAME
             THEN <<cut[1], Take(cut[2], cut[1], size)>>
             ELSE IF s[2] = NULL
                  THEN <<a, Take([h EXCEPT !.bins[LAST] = h.chunks[a].next], a, size)>>
                  ELSE <<a, Take([h EXCEPT !.chunks[s[2]].next = h.chunks[a].next], a, size)>>

\* Mutant of free: an empty bin gets the chunk, a full one is left as it is.
free_drop(h, a) ==
    LET b == get_bin_idx_from_size(h.chunks[a].capacity)
        i == IF b < 0 THEN LAST ELSE b
    IN  [h EXCEPT !.chunks[a].used = FALSE,
                  !.bins[i] = IF @ = NULL THEN a ELSE @]

\* free.
free(h, a) ==
    LET b == get_bin_idx_from_size(h.chunks[a].capacity)
        i == IF b < 0 THEN LAST ELSE b
    IN  [h EXCEPT !.chunks[a].used = FALSE,
                  !.chunks[a].next = IF h.bins[i] = NULL THEN @ ELSE h.bins[i],
                  !.bins[i] = a]

-----------------------------------------------------------------------------
(***************************************************************************)
(* The program.  It writes all that it asked for and nothing beyond the    *)
(* chunk it got.                                                           *)
(***************************************************************************)
Set(h) == chunks' = h.chunks /\ bins' = h.bins

Malloc(size) ==
    /\ CanServe(Heap, size)
    /\ \E r \in {malloc(Heap, size)} : Set(r[2]) /\ live' = (r[1] :> size) @@ live

Free(a) ==
    /\ chunks[a].used
    /\ Set(free(Heap, a)) /\ live' = Restrict(live, DOMAIN live \ {a})

\* realloc in place: only the program knows of the new size.
ReallocHere(a, size) ==
    /\ size > live[a] /\ size <= chunks[a].capacity
    /\ live' = [live EXCEPT ![a] = size]
    /\ UNCHANGED <<chunks, bins>>

\* realloc elsewhere; the contents are not modelled.
ReallocMove(a, size) ==
    /\ size > chunks[a].capacity /\ CanServe(Heap, size)
    /\ \E r \in {malloc(Heap, size)} :
         /\ Set(free(r[2], a))
         /\ live' = (r[1] :> size) @@ Restrict(live, DOMAIN live \ {a})

Next ==
    \/ \E size \in Sizes : Malloc(size)
    \/ \E a \in DOMAIN live :
        \/ Free(a)
        \/ \E size \in Sizes : ReallocHere(a, size) \/ ReallocMove(a, size)

Spec == Init /\ [][Next]_vars

-----------------------------------------------------------------------------
(***************************************************************************)
(* Properties.                                                             *)
(***************************************************************************)
End(a) == a + FRAME + chunks[a].capacity

\* The chunks tile the heap: no byte is in two chunks, none is lost by split.
ChunksTile ==
    /\ 0 \in DOMAIN chunks
    /\ \A a \in DOMAIN chunks :
         /\ End(a) = HEAP \/ End(a) \in DOMAIN chunks
         /\ DOMAIN chunks \cap (a + 1)..(End(a) - 1) = {}

OnList(i) == LET f == ListFrom(Heap, bins[i]) IN {f[k] : k \in DOMAIN f} \ {NULL}

\* `ASSERT(allocated->magic == MALLOC_FREE)': each free chunk is on the list of
\* one bin, a chunk in use is on none, and every list ends.
FreeListsSound ==
    /\ \A i \in Bins :
        LET f == ListFrom(Heap, bins[i])
        IN  /\ f[Cardinality(DOMAIN chunks)] = NULL
            /\ \A j, k \in DOMAIN f : f[j] = f[k] /\ f[j] # NULL => j = k
    /\ \A i, j \in Bins : OnList(i) \cap OnList(j) # {} => i = j
    /\ UNION {OnList(i) : i \in Bins} = {a \in DOMAIN chunks : ~chunks[a].used}
    /\ DOMAIN live = {a \in DOMAIN chunks : chunks[a].used}

\* The heap is sound after every sequence of malloc, realloc and free.
HeapSound == ChunksTile /\ FreeListsSound
=============================================================================
