-------------------------------- MODULE Mbuf --------------------------------
(***************************************************************************)
(* The packet buffers of the TCP/IP server (servers/tcpip/mbuf.c).  A      *)
(* chain is a sequence of mbufs; an mbuf has its bytes up to offset_end,   *)
(* of which the first `offset' have been consumed.                         *)
(***************************************************************************)
EXTENDS Integers, SequencesExt

CONSTANTS
    MBUF_MAX_LEN,
    Garbage         \* the value of a byte nobody has written

mbuf_alloc == <<[data |-> <<>>, offset |-> 0]>>

\* Full mbufs, and one for the rest; at least one mbuf.
mbuf_new(bytes) ==
    LET n == IF bytes = <<>> THEN 1 ELSE (Len(bytes) + MBUF_MAX_LEN - 1) \div MBUF_MAX_LEN
    IN  [i \in 1..n |->
            [data |-> SubSeq(bytes, (i - 1) * MBUF_MAX_LEN + 1, Min({i * MBUF_MAX_LEN, Len(bytes)})),
             offset |-> 0]]

mbuf_len_one(m) == Len(m.data) - m.offset

\* The length of the first n mbufs of a chain.
LenTo(c, n) == FoldLeft(LAMBDA sum, m : sum + mbuf_len_one(m), 0, SubSeq(c, 1, n))

mbuf_len(c) == LenTo(c, Len(c))

\* The bytes of a chain that have not been consumed.
Bytes(c) == FlattenSeq([i \in DOMAIN c |-> SubSeq(c[i].data, c[i].offset + 1, Len(c[i].data))])

mbuf_append(c, tail) == c \o tail

\* The bytes go to the first mbuf if there is room in it, whatever follows it.
mbuf_append_bytes(c, bytes) ==
    IF Len(bytes) <= MBUF_MAX_LEN - Len(c[1].data)
    THEN [c EXCEPT ![1].data = @ \o bytes]
    ELSE mbuf_append(c, mbuf_new(bytes))

\* mbuf_discard, and the chain after mbuf_read: n bytes are consumed, and the
\* mbufs left empty at the front are deleted, except for the last one.
mbuf_discard(c, n) ==
    LET k == Min({n, mbuf_len(c)})
        i == Min({j \in DOMAIN c : LenTo(c, j) > k} \cup {Len(c)})
    IN  [SubSeq(c, i, Len(c)) EXCEPT ![1].offset = @ + k - LenTo(c, i - 1)]

\* The bytes that mbuf_read copies.
mbuf_read(c, n) == SubSeq(Bytes(c), 1, Min({n, mbuf_len(c)}))

\* mbuf_copy copies as many bytes as are left, but from the first byte of the
\* mbuf, consumed or not, so the last ones are not copied.
mbuf_copy(m) ==
    [m EXCEPT !.data = [j \in DOMAIN @ |-> IF j <= mbuf_len_one(m) THEN @[j] ELSE Garbage]]

\* A copy of the first n bytes.
mbuf_peek(c, n) ==
    LET stop == {j \in DOMAIN c : n <= LenTo(c, j)}
        i == IF stop = {} THEN Len(c) ELSE Min(stop)
        copy == [j \in 1..i |-> mbuf_copy(c[j])]
    IN  IF stop = {} THEN copy \o mbuf_alloc
        ELSE [copy EXCEPT ![i].data = SubSeq(@, 1, Len(@) - (LenTo(c, i) - n))]

=============================================================================
