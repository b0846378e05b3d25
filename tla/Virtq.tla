-------------------------------- MODULE Virtq --------------------------------
(***************************************************************************)
(* A virtqueue of the driver library (libs/virtio).  The code of           *)
(* virtio_legacy.c and virtio_modern.c is the same.  The driver owns the   *)
(* descriptors of the free list; it gives chains of them to the device in  *)
(* the ring `avail' and gets them back in the ring `used'.  The two        *)
(* counters of the rings are 16 bits wide in memory, last_used_index of    *)
(* the driver is an int.                                                   *)
(***************************************************************************)
EXTENDS Integers, FiniteSets, SequencesExt

CONSTANTS
    NUM_DESCS,      \* num_descs
    INDEX_MOD       \* 2^16, the range of the counters of the rings

Descs == 0..(NUM_DESCS - 1)

\* virtq_init: all descriptors are in the free list, in order.
virtq_init ==
    [descs |-> [i \in Descs |-> [addr |-> 0, next |-> (i + 1) % NUM_DESCS, more |-> FALSE]],
     free_head |-> 0, num_free |-> NUM_DESCS, last_used |-> 0,
     avail |-> [ring |-> [i \in Descs |-> 0], index |-> 0],
     used |-> [ring |-> [i \in Descs |-> 0], index |-> 0],
     seen |-> 0]    \* the device's own counter

\* The i-th descriptor (from 0) along the links from head.
Along(vq, head) ==
    LET step[i \in 0..NUM_DESCS] == IF i = 0 THEN head ELSE vq.descs[step[i - 1]].next
    IN  step

\* The chain from head: up to the first descriptor without VIRTQ_DESC_F_NEXT.
ChainLen(vq, head) ==
    LET step == Along(vq, head)
        ends == {i \in Descs : ~vq.descs[step[i]].more}
    IN  IF ends = {} THEN NUM_DESCS ELSE Min(ends) + 1
Chain(vq, head) == [i \in 1..ChainLen(vq, head) |-> Along(vq, head)[i - 1]]

\* The elements of `used' that the driver has not popped.
Unpopped(vq) == [i \in 1..((vq.used.index - vq.last_used) % INDEX_MOD) |-> vq.used.ring[(vq.last_used + i - 1) % NUM_DESCS]]

\* `Try freeing used descriptors' in virtq_push: the head of the free list becomes
\* the chain freed last, whose links are left as they are.
Reclaim(vq) ==
    LET freed == Unpopped(vq)
    IN  IF freed = <<>> THEN vq
        ELSE [vq EXCEPT !.free_head = Last(freed), !.last_used = vq.used.index,
                        !.num_free = @ + FoldFunction(+, 0, [i \in DOMAIN freed |-> ChainLen(vq, freed[i])])]

\* Takes the first descriptors of the free list for the buffers at addrs.
Link(vq, addrs) ==
    LET n == Len(addrs)
        step == Along(vq, vq.free_head)
        at(d) == {i \in 1..n : step[i - 1] = d}
        last == step[n - 1]
    IN  [vq EXCEPT
            !.descs = [d \in Descs |->
                IF at(d) = {} THEN @[d]
                ELSE [addr |-> addrs[Max(at(d))], next |-> IF d = last THEN 0 ELSE @[d].next, more |-> d # last]],
            !.free_head = vq.descs[last].next, !.num_free = @ - n,
            !.avail = [ring |-> [@.ring EXCEPT ![@.index % NUM_DESCS] = vq.free_head],
                       index |-> (@.index + 1) % INDEX_MOD]]

\* virtq_push: [vq, ok].
virtq_push(vq, addrs) ==
    LET room == IF Len(addrs) > vq.num_free THEN Reclaim(vq) ELSE vq
    IN  IF Len(addrs) > room.num_free THEN [vq |-> room, ok |-> FALSE]
        ELSE [vq |-> Link(room, addrs), ok |-> TRUE]

\* virtq_pop: [vq, addrs], without addresses for ERR_EMPTY and ERR_NO_MEMORY.  The
\* chain is put before the free list.
virtq_pop(vq, n) ==
    LET id == vq.used.ring[vq.last_used % NUM_DESCS]
        chain == Chain(vq, id)
    IN  IF vq.last_used = vq.used.index \/ Len(chain) > n THEN [vq |-> vq, addrs |-> <<>>]
        ELSE [vq |-> [vq EXCEPT !.descs[Last(chain)].next = vq.free_head, !.free_head = id,
                                !.num_free = @ + Len(chain), !.last_used = @ + 1],
              addrs |-> [i \in DOMAIN chain |-> vq.descs[chain[i]].addr]]

-----------------------------------------------------------------------------
(***************************************************************************)
(* The device's side, as the virtio specification has it.                  *)
(***************************************************************************)
Waiting(vq) == vq.seen # vq.avail.index
NextHead(vq) == vq.avail.ring[vq.seen % NUM_DESCS]
NextAddrs(vq) == LET chain == Chain(vq, NextHead(vq)) IN [i \in DOMAIN chain |-> vq.descs[chain[i]].addr]

\* The device is done with the next chain.
Complete(vq) ==
    [vq EXCEPT !.seen = (@ + 1) % INDEX_MOD,
               !.used = [ring |-> [@.ring EXCEPT ![@.index % NUM_DESCS] = NextHead(vq)],
                         index |-> (@.index + 1) % INDEX_MOD]]

-----------------------------------------------------------------------------
\* Every descriptor has one owner: the free list, a chain that the device has not
\* taken, or a chain that the driver has not popped; the free list is as long as
\* the driver thinks.
Owned(vq) ==
    LET free == [i \in 1..vq.num_free |-> Along(vq, vq.free_head)[i - 1]]
        given == [i \in 1..((vq.avail.index - vq.seen) % INDEX_MOD) |-> vq.avail.ring[(vq.seen + i - 1) % NUM_DESCS]]
        chains == given \o Unpopped(vq)
        owned == free \o FlattenSeq([i \in DOMAIN chains |-> Chain(vq, chains[i])])
    IN  vq.num_free \in 0..NUM_DESCS /\ IsInjective(owned) /\ Range(owned) = Descs
=============================================================================
