-------------------------------- MODULE HvBlk --------------------------------
(***************************************************************************)
(* The virtio block device that the hypervisor server emulates             *)
(* (servers/hv/virtio_blk.c) with a guest that drives it like libs/virtio: *)
(* the guest puts requests into the queue and notifies; the server, while  *)
(* the guest waits in its port access, serves all of them, one after the   *)
(* other, with calls to the disk driver.                                   *)
(***************************************************************************)
EXTENDS Virtq, TLC

CONSTANTS
    Sectors, Values,    \* of the disk
    MAX_REQS,           \* bound: requests of the guest
    MAX_SELECT          \* bound: queue numbers that the guest selects

VARIABLES
    vq,             \* the queue, in the guest's memory; vq.seen is not used
    noint,          \* the guest has set VIRTQ_AVAIL_F_NO_INTERRUPT
    mem,            \* the guest's buffers, by address
    reqs,           \* requests made so far: [type, sector, value]
    popped,         \* requests the guest got back
    pc,             \* "guest", "serving": the server is in handle_pending_requests; "isr", "pop": the guest's handler
    virtio,         \* struct virtio_blk_device: [avail_index, selected, nonexistent, sending]
    irq,            \* the IRQ is raised
    disk,           \* of the disk driver
    served          \* ghost: how often each request was completed, up to 2

vars == <<vq, noint, mem, reqs, popped, pc, virtio, irq, disk, served>>
Addrs == 1..(3 * MAX_REQS)
Nothing == [hdr |-> FALSE, req |-> 0, sectors |-> 0, tail |-> FALSE, w |-> FALSE, data |-> 0, status |-> FALSE]

Init ==
    /\ vq = virtq_init /\ noint = FALSE /\ mem = [a \in Addrs |-> Nothing] /\ reqs = <<>> /\ popped = <<>>
    /\ pc = "guest" /\ virtio = [avail_index |-> 0, selected |-> 0, nonexistent |-> FALSE, sending |-> FALSE]
    /\ irq = FALSE /\ disk \in [Sectors -> Values] /\ served = [r \in 1..MAX_REQS |-> 0]

\* The guest's buffers for a request: the header, the data and the status, the last
\* two in one or in two buffers.
Buffers(r, type, value, joined) ==
    LET base == [Nothing EXCEPT !.req = r]
        in == type = "IN"
        data == [base EXCEPT !.sectors = 1, !.w = in, !.data = IF in THEN 0 ELSE value]
        header == [base EXCEPT !.hdr = TRUE]
        status == [base EXCEPT !.tail = TRUE, !.w = TRUE]
    IN  IF joined THEN <<header, [data EXCEPT !.tail = TRUE]>> ELSE <<header, data, status>>

\* The guest makes a request; only reads can have data and status in one buffer.
Request(type, sector, value, joined) ==
    LET r == Len(reqs) + 1
        bufs == Buffers(r, type, value, joined)
        addrs == [i \in DOMAIN bufs |-> 3 * (r - 1) + i]
    IN  /\ pc = "guest" /\ r <= MAX_REQS /\ (joined => type = "IN") /\ Len(bufs) <= vq.num_free
        /\ reqs' = Append(reqs, [type |-> type, sector |-> sector, value |-> IF type = "IN" THEN 0 ELSE value])
        /\ mem' = [i \in {addrs[j] : j \in DOMAIN addrs} |-> bufs[i - 3 * (r - 1)]] @@ mem
        /\ vq' = virtq_push(vq, addrs).vq /\ UNCHANGED <<noint, popped, pc, virtio, irq, disk, served>>

\* VIRTIO_REG_QUEUE_NOTIFY of the only queue.
Notify ==
    /\ pc = "guest" /\ pc' = "serving" /\ UNCHANGED <<vq, noint, mem, reqs, popped, virtio, irq, disk, served>>

\* One buffer of a request, of which s is what has been done.
Buffer(s, a) ==
    LET b == s.mem[a]
        req == reqs[b.req]
        data == ~b.hdr \/ b.sectors > 0 \/ b.tail
        read == [s EXCEPT !.mem[a].data = IF b.sectors > 0 THEN s.disk[req.sector] ELSE @, !.mem[a].status = b.tail]
        write == [s EXCEPT !.disk[req.sector] = IF b.sectors > 0 THEN b.data ELSE @, !.mem[a].status = b.tail /\ b.w]
    IN  IF s.failed \/ ~data THEN s
        ELSE IF req.type = "OUT" THEN write ELSE IF b.w THEN read ELSE [s EXCEPT !.failed = TRUE]

\* The indices of the device go around at num_descs.
Advance(head) ==
    vq' = [vq EXCEPT !.used = [ring |-> [@.ring EXCEPT ![@.index] = head], index |-> (@.index + 1) % NUM_DESCS]]

\* Mutant of Serve: only the first data buffer is filled.
Serve_header ==
    LET head == vq.avail.ring[virtio.avail_index]
        done == Buffer([mem |-> mem, disk |-> disk, failed |-> FALSE], vq.descs[head].addr)
    IN  /\ pc = "serving" /\ virtio.avail_index # vq.avail.index /\ mem' = done.mem /\ disk' = done.disk /\ Advance(head)
        /\ virtio' = [virtio EXCEPT !.avail_index = (@ + 1) % NUM_DESCS]
        /\ served' = [served EXCEPT ![mem[vq.descs[head].addr].req] = Min({2, @ + 1})]
        /\ UNCHANGED <<noint, reqs, popped, pc, irq>>

\* One turn of handle_pending_requests; an unfit buffer ends it early.
Serve ==
    LET head == vq.avail.ring[virtio.avail_index]
        chain == Chain(vq, head)
        done == FoldLeft(Buffer, [mem |-> mem, disk |-> disk, failed |-> FALSE], [i \in DOMAIN chain |-> vq.descs[chain[i]].addr])
    IN  /\ pc = "serving" /\ virtio.avail_index # vq.avail.index /\ mem' = done.mem /\ disk' = done.disk
        /\ IF done.failed THEN pc' = "guest" /\ UNCHANGED <<vq, virtio, served>>
           ELSE /\ Advance(head) /\ virtio' = [virtio EXCEPT !.avail_index = (@ + 1) % NUM_DESCS]
                /\ served' = [served EXCEPT ![mem[vq.descs[head].addr].req] = Min({2, @ + 1})] /\ UNCHANGED pc
        /\ UNCHANGED <<noint, reqs, popped, irq>>

\* The end of handle_pending_requests: the guest is interrupted, unless it does not want it.
Finish ==
    /\ pc = "serving" /\ virtio.avail_index = vq.avail.index /\ pc' = "guest"
    /\ irq' = (irq \/ ~noint) /\ virtio' = [virtio EXCEPT !.sending = @ \/ ~noint]
    /\ UNCHANGED <<vq, noint, mem, reqs, popped, disk, served>>

\* The guest's handler: VIRTIO_REG_ISR_STATUS is cleared when it is read.
ReadIsr ==
    /\ pc = "guest" /\ irq /\ irq' = FALSE /\ pc' = IF virtio.sending THEN "pop" ELSE "guest"
    /\ virtio' = [virtio EXCEPT !.sending = FALSE]
    /\ UNCHANGED <<vq, noint, mem, reqs, popped, disk, served>>

\* The guest takes the requests that are done.
Pop ==
    /\ pc = "pop"
    /\ \E r \in {virtq_pop(vq, 3)} :
          IF r.addrs = <<>> THEN pc' = "guest" /\ UNCHANGED <<vq, popped>>
          ELSE pc' = pc /\ vq' = r.vq /\ popped' = Append(popped, mem[r.addrs[1]].req)
    /\ UNCHANGED <<noint, mem, reqs, virtio, irq, disk, served>>

\* The guest sets or clears its flag.
Suppress == pc = "guest" /\ noint' = ~noint /\ UNCHANGED <<vq, mem, reqs, popped, pc, virtio, irq, disk, served>>

\* VIRTIO_REG_QUEUE_SELECT while the guest looks for queues, before its first request,
\* and what VIRTIO_REG_NUM_DESCS is then; num_virtqueues is 1.
Select(value) ==
    /\ pc = "guest" /\ reqs = <<>>
    /\ virtio' = [virtio EXCEPT !.selected = IF value > 1 THEN @ ELSE value, !.nonexistent = value > 1]
    /\ UNCHANGED <<vq, noint, mem, reqs, popped, pc, irq, disk, served>>

RequestAny ==
    \E type \in {"IN", "OUT"}, sector \in Sectors, value \in Values, joined \in BOOLEAN :
        (type = "IN" => value = CHOOSE v \in Values : TRUE) /\ Request(type, sector, value, joined)
Next == RequestAny \/ Notify \/ Serve \/ Finish \/ ReadIsr \/ Pop \/ Suppress \/ \E value \in 0..MAX_SELECT : Select(value)
Spec == Init /\ [][Next]_vars

-----------------------------------------------------------------------------

\* Requests come back in order, once each, and only when they are done.
InOrder == \A i \in DOMAIN popped : popped[i] = i /\ served[i] = 1

\* What the requests before r have written to its sector; 0 if they have not.
Before(r) ==
    LET writes == {i \in 1..(r - 1) : reqs[i].type = "OUT" /\ reqs[i].sector = reqs[r].sector}
    IN  IF writes = {} THEN 0 ELSE reqs[Max(writes)].value

\* A request that is done has its status, and a read has what the last write before it wrote.
Served ==
    \A r \in DOMAIN reqs : served[r] > 0 =>
        /\ \E a \in Addrs : mem[a].req = r /\ mem[a].tail /\ mem[a].status
        /\ reqs[r].type = "IN" /\ Before(r) # 0 => \E a \in Addrs : mem[a].req = r /\ mem[a].sectors = 1 /\ mem[a].data = Before(r)

\* The guest's disk requests are carried out in order, once each.
RequestsRight == InOrder /\ Served
=============================================================================
