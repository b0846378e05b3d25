--------------------------------- MODULE Fat ---------------------------------
(***************************************************************************)
(* Files of the FAT file system server (servers/fs/fatfs): reading and     *)
(* writing along cluster chains, sector by sector, on a disk that the      *)
(* ramdisk server (servers/drivers/blk/ramdisk) serves in the same step,   *)
(* since the file system server waits for each answer.  Sectors are of a   *)
(* few bytes.  How paths lead to files is module FatDir.                   *)
(***************************************************************************)
EXTENDS Integers, SequencesExt, FiniteSetsExt

CONSTANTS
    SECTOR_SIZE, SECTORS_PER_CLUSTER,
    ENTRIES_PER_SECTOR,     \* of the FAT
    NUM_CLUSTERS,           \* entries of the FAT; the first data cluster is 2
    Sizes,                  \* [file -> size] of the files, at least 1
    Requests(_),            \* what clients ask of a file of some size: a set of <<off, len>>
    MAX_OPENS, MAX_WRITES   \* bounds

Files == DOMAIN Sizes
ClusterSize == SECTOR_SIZE * SECTORS_PER_CLUSTER
EOC == -1                   \* 0xfff8 to 0xffff
FREE == 0
Clusters == 2..(NUM_CLUSTERS - 1)
Garbage == -1               \* a byte from behind a buffer

VARIABLES
    fat,        \* the FAT
    data,       \* the data clusters: [cluster -> [byte of the cluster -> value]]
    first,      \* directory entries: the first cluster of each file
    handles,    \* open files of the clients, in a sequence
    got,        \* the last answer to FS_READ_MSG: [file, off, data]
    status,     \* of the server: "up", or why it has stopped
    content,    \* ghost: what clients have written to each file
    writes      \* counts writes, whose number is what they write

vars == <<fat, data, first, handles, got, status, content, writes>>
NoAnswer == [file |-> CHOOSE f \in Files : TRUE, off |-> 0, data |-> <<>>]

\* A disk with the files on it, each in as many clusters as it needs, in any order.
Count(f) == (Sizes[f] + ClusterSize - 1) \div ClusterSize
Chains == {c \in [Files -> UNION {[1..n -> Clusters] : n \in {Count(f) : f \in Files}}] :
               /\ \A f \in Files : Len(c[f]) = Count(f)
               /\ \A f, g \in Files : \A i \in DOMAIN c[f], j \in DOMAIN c[g] : c[f][i] = c[g][j] => f = g /\ i = j}
FatOf(c) ==
    [n \in 0..(NUM_CLUSTERS - 1) |->
        IF n < 2 \/ \E f \in Files : n = Last(c[f]) THEN EOC
        ELSE IF \E f \in Files : n \in Range(c[f])
             THEN CHOOSE m \in Clusters : \E f \in Files : \E i \in 1..(Len(c[f]) - 1) : c[f][i] = n /\ c[f][i + 1] = m
        ELSE FREE]
Init ==
    /\ \E c \in Chains : fat = FatOf(c) /\ first = [f \in Files |-> c[f][1]]
    /\ data = [n \in Clusters |-> [i \in 0..(ClusterSize - 1) |-> 0]]
    /\ handles = <<>> /\ got = NoAnswer /\ status = "up" /\ writes = 0
    /\ content = [f \in Files |-> [i \in 0..(Sizes[f] - 1) |-> 0]]

-----------------------------------------------------------------------------
\* alloc_cluster: the first entry of each sector is looked at; 0 stands for its PANIC.
alloc_cluster ==
    LET free == {n \in Clusters : n % ENTRIES_PER_SECTOR = 0 /\ fat[n] = FREE}
    IN  IF free = {} THEN 0 ELSE Min(free)

\* The cluster after n in a chain: a read ends at the end of the chain, a write
\* allocates; a cluster that is not valid is an assertion that fails.
NextCluster(n, grow) ==
    LET next == fat[n]
    IN  IF next # EOC THEN IF next \in Clusters THEN [n |-> next, end |-> "no"] ELSE [n |-> n, end |-> "assert"]
        ELSE IF ~grow THEN [n |-> n, end |-> "eof"]
        ELSE IF alloc_cluster = 0 THEN [n |-> n, end |-> "panic"] ELSE [n |-> alloc_cluster, end |-> "no"]

\* Mutant of Traverse: one cluster too few.
Traverse_short(f, off, grow) ==
    FoldLeft(LAMBDA at, i : IF at.end = "no" THEN NextCluster(at.n, grow) ELSE at,
             [n |-> first[f], end |-> "no"], [i \in 1..((off \div ClusterSize) - 1) |-> i])

\* `Traverse the FAT table until the target cluster.'
Traverse(f, off, grow) ==
    FoldLeft(LAMBDA at, i : IF at.end = "no" THEN NextCluster(at.n, grow) ELSE at,
             [n |-> first[f], end |-> "no"], [i \in 1..(off \div ClusterSize) |-> i])

\* The two loops of fat_read and fat_write as the pieces that they copy:
\* <<[n, sector, from, len]>>, with the offset `from' that is used in the sector's
\* buffer, and how the loops end.
RECURSIVE Pieces(_, _, _, _, _, _)
Pieces(f, n, sector, from, remaining, grow) ==
    LET copy_len == Min({Sizes[f], remaining, SECTOR_SIZE})
        piece == [n |-> n, sector |-> sector, from |-> from, len |-> copy_len]
        next == NextCluster(n, grow)
        rest == IF sector + 1 < SECTORS_PER_CLUSTER THEN Pieces(f, n, sector + 1, from, remaining - copy_len, grow)
                ELSE IF next.end # "no" THEN [pieces |-> <<>>, end |-> next.end, len |-> remaining - copy_len]
                ELSE Pieces(f, next.n, 0, 0, remaining - copy_len, grow)
    IN  IF remaining <= SECTOR_SIZE THEN [pieces |-> <<piece>>, end |-> "done", len |-> copy_len]
        ELSE [rest EXCEPT !.pieces = <<piece>> \o @]

Walk(f, off, len, grow) ==
    LET at == Traverse(f, off, grow)
        in == off % ClusterSize
    IN  IF at.end # "no" THEN [pieces |-> <<>>, end |-> at.end, len |-> len]
        ELSE Pieces(f, at.n, in \div SECTOR_SIZE, in, len, grow)

-----------------------------------------------------------------------------
\* FS_OPEN_MSG, and FS_CREATE_MSG of a file that exists.
Open(f) ==
    /\ status = "up" /\ Len(handles) < MAX_OPENS /\ handles' = Append(handles, f)
    /\ UNCHANGED <<fat, data, first, got, status, content, writes>>

\* Bytes of a sector's buffer.
Buffer(p) ==
    [i \in 1..p.len |-> LET at == p.from + i - 1
                        IN  IF at < SECTOR_SIZE THEN data[p.n][p.sector * SECTOR_SIZE + at] ELSE Garbage]

\* FS_READ_MSG: the length of the last piece is the length of the answer.
Read(h, off, len) ==
    LET f == handles[h]
        w == Walk(f, off, len, FALSE)
        bytes == FlattenSeq([i \in DOMAIN w.pieces |-> Buffer(w.pieces[i])])
        count == IF w.end = "done" THEN w.len ELSE len - w.len
    IN  /\ status = "up"
        /\ status' = IF w.end \in {"done", "eof"} THEN "up" ELSE w.end
        /\ got' = [file |-> f, off |-> off, data |-> SubSeq(bytes, 1, count)]
        /\ UNCHANGED <<fat, data, first, handles, content, writes>>

\* What a write leaves in the data clusters: in each sector the bytes that fall
\* into its buffer.
Written(w, value) ==
    FoldLeft(LAMBDA d, p : [d EXCEPT ![p.n] = [i \in DOMAIN @ |->
                                IF i \div SECTOR_SIZE = p.sector /\ (i % SECTOR_SIZE) \in p.from..(p.from + p.len - 1)
                                THEN value ELSE @[i]]],
             data, w.pieces)

\* FS_WRITE_MSG: the size of a file stays what it was when it was opened.
Write(h, off, len) ==
    LET f == handles[h]
        w == Walk(f, off, len, TRUE)
    IN  /\ status = "up" /\ writes < MAX_WRITES /\ writes' = writes + 1
        /\ status' = IF w.end = "done" THEN "up" ELSE w.end
        /\ data' = Written(w, writes + 1)
        /\ content' = [content EXCEPT ![f] = [i \in DOMAIN @ |-> IF i \in off..(off + len - 1) THEN writes + 1 ELSE @[i]]]
        /\ UNCHANGED <<fat, first, handles, got>>

Next ==
    \/ \E f \in Files : Open(f)
    \/ \E h \in DOMAIN handles : \E r \in Requests(Sizes[handles[h]]) : Read(h, r[1], r[2]) \/ Write(h, r[1], r[2])
Spec == Init /\ [][Next]_vars

-----------------------------------------------------------------------------
\* The byte of a file that its chain leads to.
ByteAt(f, i) == data[FoldLeft(LAMBDA n, k : fat[n], first[f], [k \in 1..(i \div ClusterSize) |-> k])][i % ClusterSize]

\* fat_write: the disk holds what was written to each file, and no write to one
\* file shows in another, in whatever order their clusters are on the disk.
ContentKept == status = "up" => \A f \in Files : \A i \in DOMAIN content[f] : ByteAt(f, i) = content[f][i]

\* fat_read: an answer is a part of the file's contents from the offset on, of the
\* file as the last write left it.  (Answers may be shorter than asked for.)
ReadRight ==
    got' # got => \A i \in DOMAIN got'.data :
        /\ got'.off + i - 1 < Sizes[got'.file]
        /\ got'.data[i] = content[got'.file][got'.off + i - 1]

=============================================================================
