------------------------------ MODULE MCLinux -------------------------------
(***************************************************************************)
(* The Linux server minlin and the FAT file system for TLC. The initial    *)
(* state chooses one of the parts, which then has the variables v1, v2,    *)
(* ... to itself; so one run covers them all.                              *)
(***************************************************************************)
EXTENDS Integers, FiniteSets, SequencesExt, TLC

VARIABLES
    part,       \* the part of the system that a behaviour is about
    v1, v2, v3, v4, v5, v6, v7, v8, v9, v10, v11

vars == <<part, v1, v2, v3, v4, v5, v6, v7, v8, v9, v10, v11>>

\* Variables that a part does not use: vi and those after it.
Off == "off"
Off9 == v9 = Off /\ v10 = Off /\ v11 = Off
Off6 == v6 = Off /\ v7 = Off /\ v8 = Off /\ Off9
Off5 == v5 = Off /\ Off6
Off3 == v3 = Off /\ v4 = Off /\ Off5
Rest9 == <<v9, v10, v11>>
Rest6 == <<v6, v7, v8, Rest9>>
Rest5 == <<v5, Rest6>>
Rest3 == <<v3, v4, Rest5>>

FileSizes == ("/bin/sh" :> 2) @@ ("/etc/motd" :> 1)
\* The system calls that processes make in each part: an operation, two numbers
\* and a path.
Sys(op, fd, n, path) == [op |-> op, fd |-> fd, n |-> n, path |-> path]
Fork == Sys("fork", 0, 0, "")
Exit == Sys("exit", 0, 0, "")
Exec == Sys("execve", 0, 0, "/bin/sh")
ExecCalls == {Fork, Sys("wait4", 0, 0, ""), Exit, Exec}
ReadCalls == {Fork, Sys("read", 0, 1, ""), Sys("read", 0, 2, ""), Exit}
SegmentCalls == {Fork, Sys("arch_prctl", 1, 1, ""), Sys("arch_prctl", 0, 1, ""), Exec,
                 Sys("read", 0, 1, ""), Sys("execve", 0, 0, "missing")}
FileCalls ==
    {Sys("open", 0, 0, "/etc/motd"), Sys("open", 0, 0, "missing"), Sys("open", 0, 0, "/dev/null"),
     Sys("read", 3, 2, ""), Sys("read", 4, 1, ""), Sys("write", 3, 1, ""), Sys("writev", 4, 2, ""),
     Sys("close", 3, 0, ""), Sys("stat", 0, 0, "/etc/motd"), Sys("stat", 0, 0, "missing"),
     Sys("getpid", 0, 0, ""), Sys("execve", 0, 0, "/etc/motd"), Sys("access", 0, 0, ""),
     Sys("vfork", 0, 0, ""), Sys("mmap", 0, 0, ""), Fork, Sys("read", 9, 1, "")}

\* An executable: its headers, and a segment that starts and ends within pages.
Segments == <<[vaddr |-> 0, offset |-> 0, filesz |-> 0, memsz |-> 0],
              [vaddr |-> 3, offset |-> 1, filesz |-> 2, memsz |-> 5]>>
Bytes == <<3, 4, 5, 6>>

\* Two files, one of which needs two clusters of four bytes, and the requests that
\* start a cluster or lie in its first sector.
FatSizes == ("a" :> 7) @@ ("b" :> 3)
Aligned(size) ==
    {r \in (0..(size - 1)) \X (1..size) :
        r[1] + r[2] <= size /\ (r[1] % 4 = 0 \/ (r[1] % 4) + r[2] <= 2)}

\* A root directory and a directory D below it, with files in every order and room
\* for more, and names of one letter.
End == [name |-> <<>>, ext |-> <<>>, to |-> 0]
Fill(s) == [i \in 1..3 |-> IF i <= Len(s) THEN s[i] ELSE End]
Orders(S, n) == UNION {{s \in [1..k -> S] : \A i, j \in 1..k : s[i] = s[j] => i = j} : k \in 1..n}
FileEntry(name, ext) == [name |-> name, ext |-> ext, to |-> 9]
Some == {FileEntry(<<"A">>, <<"C">>), FileEntry(<<"B">>, <<"C">>), FileEntry(<<"A">>, <<"B">>)}
RoomyDisks ==
    {[dirs |-> (0 :> Fill(r)) @@ (2 :> Fill(d)), next |-> (0 :> -1) @@ (2 :> -1)] :
        r \in Orders(Some \cup {[name |-> <<"D">>, ext |-> <<>>, to |-> 2]}, 2), d \in Orders(Some, 2)}
Plain == {<<"a", ".", "c">>, <<"b", ".", "c">>, <<"a", ".", "b">>, <<"b", ".", "b">>}
PlainPaths == Plain \cup {<<"/">> \o p : p \in Plain} \cup {<<"D", "/">> \o p : p \in Plain}

-----------------------------------------------------------------------------
processes == INSTANCE Minlin WITH
    MAX_PROCS <- 3, FD_MAX <- 3, QUEUE_LEN <- 1, MAX_TYPED <- 0, Calls <- ExecCalls,
    Elfs <- {"/bin/sh"}, FileSize <- FileSizes,
    procs <- v1, proc <- v2, task <- v3, wait_wq <- v4, read_wq <- v5, tty <- v6,
    typed <- v7, taken <- v8, irq <- v9, delivered <- v10, server <- v11

terminal == INSTANCE Minlin WITH
    MAX_PROCS <- 3, FD_MAX <- 3, QUEUE_LEN <- 2, MAX_TYPED <- 2, Calls <- ReadCalls,
    Elfs <- {"/bin/sh"}, FileSize <- FileSizes,
    procs <- v1, proc <- v2, task <- v3, wait_wq <- v4, read_wq <- v5, tty <- v6,
    typed <- v7, taken <- v8, irq <- v9, delivered <- v10, server <- v11

segment == INSTANCE Minlin WITH
    MAX_PROCS <- 2, FD_MAX <- 3, QUEUE_LEN <- 1, MAX_TYPED <- 1, Calls <- SegmentCalls,
    Elfs <- {"/bin/sh"}, FileSize <- FileSizes,
    procs <- v1, proc <- v2, task <- v3, wait_wq <- v4, read_wq <- v5, tty <- v6,
    typed <- v7, taken <- v8, irq <- v9, delivered <- v10, server <- v11

descriptors == INSTANCE Minlin WITH
    MAX_PROCS <- 1, FD_MAX <- 5, QUEUE_LEN <- 1, MAX_TYPED <- 0, Calls <- FileCalls,
    Elfs <- {"/bin/sh"}, FileSize <- FileSizes,
    procs <- v1, proc <- v2, task <- v3, wait_wq <- v4, read_wq <- v5, tty <- v6,
    typed <- v7, taken <- v8, irq <- v9, delivered <- v10, server <- v11

memory == INSTANCE MinlinMm WITH
    PAGE_SIZE <- 2, Phdrs <- Segments, File <- Bytes, HEAP_ADDR <- 8, HEAP_END <- 12,
    STACK_ADDR <- 12, STACK_LEN <- 4, HEADER_ADDR <- 16, LEVELS <- 1, PROCS <- 1,
    MAX_BUFS <- 11, Touched <- {3, 4, 5, 7, 8, 12, 13}, Bad <- {},
    mm <- v1, brk <- v2, alive <- v3, ref <- v4, last <- v5

memory_fork == INSTANCE MinlinMm WITH
    PAGE_SIZE <- 2, Phdrs <- Segments, File <- Bytes, HEAP_ADDR <- 8, HEAP_END <- 12,
    STACK_ADDR <- 12, STACK_LEN <- 4, HEADER_ADDR <- 16, LEVELS <- 0, PROCS <- 2,
    MAX_BUFS <- 12, Touched <- {4, 8, 12}, Bad <- {2},
    mm <- v1, brk <- v2, alive <- v3, ref <- v4, last <- v5

arguments == INSTANCE MinlinStack WITH
    ARGV_MAX <- 5, PATH_MAX <- 3, STACK_TOP <- 4, STACK_STRBUF <- 22, STACK_LEN <- 30,
    Chars <- {1, 2},
    args <- v1, result <- v2

fatfs == INSTANCE Fat WITH
    SECTOR_SIZE <- 2, SECTORS_PER_CLUSTER <- 2, ENTRIES_PER_SECTOR <- 4,
    NUM_CLUSTERS <- 5, Sizes <- FatSizes, Requests <- Aligned, MAX_OPENS <- 2,
    MAX_WRITES <- 2,
    fat <- v1, data <- v2, first <- v3, handles <- v4, got <- v5, status <- v6,
    content <- v7, writes <- v8

fatfs_dirs == INSTANCE FatDir WITH
    NAME_LEN <- 2, EXT_LEN <- 1, NUM_ENTRIES <- 3, Disks <- RoomyDisks,
    Paths <- PlainPaths,
    disk <- v1, path <- v2, answer <- v3, listed <- v4

-----------------------------------------------------------------------------
Init ==
    \/ part = "processes" /\ processes!Init
    \/ part = "terminal" /\ terminal!Init
    \/ part = "segment" /\ segment!Init
    \/ part = "descriptors" /\ descriptors!Init
    \/ part = "memory" /\ memory!Init /\ Off6
    \/ part = "memory_fork" /\ memory_fork!Init /\ Off6
    \/ part = "arguments" /\ arguments!Init /\ Off3
    \/ part = "fatfs" /\ fatfs!Init /\ Off9
    \/ part = "fatfs_dirs" /\ fatfs_dirs!Init /\ Off5

ProcessesStep == part = "processes" /\ processes!Next /\ UNCHANGED part
TerminalStep == part = "terminal" /\ terminal!Next /\ UNCHANGED part
SegmentStep == part = "segment" /\ segment!Next /\ UNCHANGED part
DescriptorsStep == part = "descriptors" /\ descriptors!Next /\ UNCHANGED part
MemoryStep == part = "memory" /\ memory!Next /\ UNCHANGED <<part, Rest6>>
MemoryForkStep == part = "memory_fork" /\ memory_fork!Next /\ UNCHANGED <<part, Rest6>>
ArgumentsStep == part = "arguments" /\ arguments!Next /\ UNCHANGED <<part, Rest3>>
FatfsStep == part = "fatfs" /\ fatfs!Next /\ UNCHANGED <<part, Rest9>>
FatfsDirsStep == part = "fatfs_dirs" /\ fatfs_dirs!Next /\ UNCHANGED <<part, Rest5>>

\* The file system never stops; the other parts may stop at their bounds.
Stop == part # "fatfs" /\ UNCHANGED vars

Next ==
    ProcessesStep \/ TerminalStep \/ SegmentStep \/ DescriptorsStep \/ MemoryStep \/
    MemoryForkStep \/ ArgumentsStep \/ FatfsStep \/ FatfsDirsStep \/ Stop

Spec == Init /\ [][Next]_vars

-----------------------------------------------------------------------------
\* proc.c, syscall.c, waitqueue.c and tty.c: whoever sleeps is in the queue of its
\* call, characters are read once and in order, and a process keeps its segment
\* base (Minlin).
ProcessesRight ==
    /\ part = "processes" => processes!ProcessesRight
    /\ part = "terminal" => terminal!ProcessesRight
    /\ part = "segment" => segment!ProcessesRight
    /\ part = "descriptors" => descriptors!ProcessesRight

\* proc_try_wait: wait4 returns a child of the caller that has exited, once (Minlin).
WaitReturnsChild == [][part = "processes" => processes!WaitReturnsChild]_vars

\* mm.c: a process, its page table and the server agree on its memory, which no
\* other process has, after faults, brk, copies, fork and execve (MinlinMm).
MemoryRight ==
    /\ part = "memory" => memory!MemoryRight
    /\ part = "memory_fork" => memory_fork!MemoryRight

\* proc_execve: the new program finds the caller's arguments on its stack, and
\* nothing is written outside it (MinlinStack).
StackRight == part = "arguments" => arguments!StackRight

\* fat.c: each step leaves on the disk what was written to each file, a write to one
\* file shows in no other, and a read returns what was written last (Fat).
FilesRight == [][part = "fatfs" => fatfs!ContentKept' /\ fatfs!ReadRight]_vars

\* fat.c: a path leads to the entry it names, and to none if there is none; a
\* directory lists its entries once and in order (FatDir).
LookupRight == part = "fatfs_dirs" => fatfs_dirs!LookupRight
=============================================================================
