-------------------------------- MODULE FatDir --------------------------------
(***************************************************************************)
(* Directories of the FAT file system server (servers/fs/fatfs/fat.c):     *)
(* how a path is split into names, how a directory is read cluster by      *)
(* cluster, and how both lead to a file.  Names are sequences of letters,  *)
(* of at most NAME_LEN (8) and extensions of at most EXT_LEN (3).          *)
(***************************************************************************)
EXTENDS Integers, SequencesExt, FiniteSetsExt

CONSTANTS
    NAME_LEN, EXT_LEN,
    NUM_ENTRIES,    \* directory entries in a cluster
    Disks,          \* [dirs: [cluster -> NUM_ENTRIES entries], next: [cluster -> cluster]]; the root is 0
    Paths           \* sequences of letters, "." and "/"

EOC == -1           \* the mark of the last cluster of a chain; not 0
End == [name |-> <<>>, ext |-> <<>>, to |-> 0]      \* an entry whose name starts with 0
None == End
Upper(s) == [i \in DOMAIN s |-> CASE s[i] = "a" -> "A" [] s[i] = "b" -> "B" [] s[i] = "c" -> "C" [] OTHER -> s[i]]

VARIABLES disk, path, answer, listed

vars == <<disk, path, answer, listed>>
NotYet == [end |-> "pending", e |-> None]
Init == disk \in Disks /\ path \in Paths /\ answer = NotYet /\ listed = <<>>

-----------------------------------------------------------------------------
\* The number of characters of a path in front of one of some, at most n.
Span(s, stops, n) == Min({n, Len(s)} \cup {i - 1 : i \in {j \in DOMAIN s : s[j] \in stops}})
Drop(s, n) == SubSeq(s, n + 1, Len(s))

\* get_next_filename: the dot is skipped in the first loop, the slash in the second.
get_next_filename(s) ==
    LET n == Span(s, {"/", "."}, NAME_LEN)
        dot == n < NAME_LEN /\ n < Len(s) /\ s[n + 1] = "."
        t == Drop(s, IF dot THEN n + 1 ELSE n)
        m == Span(t, {"/"}, EXT_LEN)
    IN  [name |-> Upper(SubSeq(s, 1, n)), ext |-> Upper(SubSeq(t, 1, m)),
         rest |-> Drop(t, IF m < EXT_LEN /\ m < Len(t) THEN m + 1 ELSE m)]

\* Mutant of filename_equals: extensions are not compared.
filename_equals_name(e, name, ext) == IsPrefix(e.name, name)

\* filename_equals: strncmp, of the length that the entry's name has.
filename_equals(e, name, ext) == IsPrefix(e.name, name) /\ IsPrefix(e.ext, ext)

\* open_root_dir and opendir_from_dirent.
opendir(cluster) == [cluster |-> cluster, entries |-> disk.dirs[cluster], index |-> 0]

\* fat_readdir: when the last entry of a cluster has been read, the next cluster
\* takes the place of the entries, also of the one that is returned.  The mark at
\* the end of a chain is read as a cluster, which the disk does not have.
fat_readdir(d) ==
    LET e == d.entries[d.index + 1]
        next == disk.next[d.cluster]
        loaded == disk.dirs[next]
    IN  IF e = End THEN [e |-> None, dir |-> [d EXCEPT !.index = -1], end |-> "end"]
        ELSE IF d.index + 1 < NUM_ENTRIES THEN [e |-> e, dir |-> [d EXCEPT !.index = @ + 1], end |-> "no"]
        ELSE IF next = 0 THEN [e |-> e, dir |-> [d EXCEPT !.index = -1], end |-> "no"]
        ELSE IF next = EOC THEN [e |-> None, dir |-> d, end |-> "stopped"]
        ELSE [e |-> loaded[NUM_ENTRIES], dir |-> [cluster |-> next, entries |-> loaded, index |-> 0], end |-> "no"]

\* The search of `lookup' in one directory.
RECURSIVE Search(_, _, _)
Search(d, name, ext) ==
    IF d.index < 0 THEN [end |-> "none", e |-> None]
    ELSE LET r == fat_readdir(d)
         IN  IF r.end = "end" THEN [end |-> "none", e |-> None]
             ELSE IF r.end = "stopped" THEN [end |-> "stopped", e |-> None]
             ELSE IF filename_equals(r.e, name, ext) THEN [end |-> "found", e |-> r.e]
             ELSE Search(r.dir, name, ext)

\* lookup: a leading slash is skipped.
RECURSIVE LookupIn(_, _)
LookupIn(cluster, s) ==
    LET part == get_next_filename(s)
        found == Search(opendir(cluster), part.name, part.ext)
    IN  IF found.end # "found" \/ part.rest = <<>> THEN found
        ELSE LookupIn(found.e.to, part.rest)
lookup(s) == LookupIn(0, IF s # <<>> /\ s[1] = "/" THEN Tail(s) ELSE s)

\* FS_OPEN_MSG: fat_open.
Open == answer = NotYet /\ answer' = lookup(path) /\ UNCHANGED <<disk, path, listed>>

\* main: the entries of the root directory, as far as they can be read.
RECURSIVE ReadAll(_)
ReadAll(d) ==
    IF d.index < 0 THEN <<>>
    ELSE LET r == fat_readdir(d) IN IF r.end # "no" THEN <<>> ELSE <<r.e>> \o ReadAll(r.dir)
List == listed = <<>> /\ listed' = ReadAll(opendir(0)) /\ listed' # <<>> /\ UNCHANGED <<disk, path, answer>>

Next == Open \/ List
Spec == Init /\ [][Next]_vars

-----------------------------------------------------------------------------
(***************************************************************************)
(* The reference: what is in a directory and which entry a path names.     *)
(***************************************************************************)
RECURSIVE EntriesFrom(_)
EntriesFrom(cluster) ==
    SelectSeq(disk.dirs[cluster], LAMBDA e : e # End)
        \o IF disk.next[cluster] \in {0, EOC} THEN <<>> ELSE EntriesFrom(disk.next[cluster])

\* The parts of a path between slashes, each as name and extension.
RECURSIVE Parts(_)
Parts(s) == LET n == Span(s, {"/"}, Len(s)) IN <<SubSeq(s, 1, n)>> \o IF n < Len(s) THEN Parts(Drop(s, n + 1)) ELSE <<>>
NameOf(part) == Upper(SubSeq(part, 1, Span(part, {"."}, Len(part))))
ExtOf(part) == Upper(Drop(part, Span(part, {"."}, Len(part)) + 1))

RECURSIVE Resolve(_, _)
Resolve(cluster, parts) ==
    LET these == {e \in Range(EntriesFrom(cluster)) : e.name = NameOf(Head(parts)) /\ e.ext = ExtOf(Head(parts))}
    IN  IF these = {} \/ Tail(parts) = <<>> THEN these
        ELSE Resolve((CHOOSE e \in these : TRUE).to, Tail(parts))

\* lookup: a file is opened if and only if the path names it, and it is the file
\* that the path names.
OpenRight ==
    answer # NotYet =>
        LET named == Resolve(0, Parts(IF path # <<>> /\ path[1] = "/" THEN Tail(path) ELSE path))
        IN  IF named = {} THEN answer.end = "none" ELSE answer.end = "found" /\ answer.e \in named

\* fat_readdir: each entry is returned, once and in order.
AllListed == listed # <<>> => listed = EntriesFrom(0)

\* Paths lead to the entries they name, and directories list theirs.
LookupRight == OpenRight /\ AllListed
=============================================================================
