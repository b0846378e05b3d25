------------------------------- MODULE Lists --------------------------------
(***************************************************************************)
(* The linked lists of libs/common/include/list.h as the sequences of      *)
(* their elements: list_push_back is Append, list_pop_front is Head and    *)
(* Tail, and list_remove is below.                                         *)
(***************************************************************************)
EXTENDS Integers, Sequences, FiniteSetsExt

\* The neighbours of the i-th element become neighbours.
Unlink(q, i) == SubSeq(q, 1, i - 1) \o SubSeq(q, i + 1, Len(q))

\* list_remove does nothing if the element is not in a list.
list_remove(q, elem) ==
    LET at == {i \in 1..Len(q) : q[i] = elem}
    IN  IF at = {} THEN q ELSE Unlink(q, Min(at))
=============================================================================
