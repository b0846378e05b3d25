------------------------------ MODULE VirtioNet ------------------------------
(***************************************************************************)
(* The virtio network driver (servers/drivers/net/virtio_net) with its     *)
(* device.  The device works at any time, between any two steps of the     *)
(* driver.  Received packets go to the TCP/IP server one by one; packets   *)
(* to send come from it as asynchronous messages.  Packets are numbered.   *)
(***************************************************************************)
EXTENDS Virtq

CONSTANTS MAX_RX, MAX_TX    \* bounds: packets that arrive and that are sent

VARIABLES
    rx, tx,         \* the virtqueues
    rxbuf, txbuf,   \* the buffers: the packet in each
    arrived,        \* packets that the device has put into the queue
    delivered,      \* packets that the TCP/IP server got
    tx_ring_index,  \* packets the driver has handled for sending
    sent,           \* packets that the device has sent
    isr, irq,       \* the ISR status of the device; NOTIFY_IRQ is pending
    drv             \* the driver: [pc, addr] of the buffer in its hands

vars == <<rx, tx, rxbuf, txbuf, arrived, delivered, tx_ring_index, sent, isr, irq, drv>>
rxVars == <<rx, rxbuf, arrived, delivered>>
txVars == <<tx, txbuf, tx_ring_index, sent>>

\* main: the RX queue is filled with buffers.
Init ==
    /\ rx = FoldLeft(LAMBDA vq, addr : virtq_push(vq, <<addr>>).vq, virtq_init, [i \in 1..NUM_DESCS |-> i - 1])
    /\ tx = virtq_init /\ rxbuf = [i \in Descs |-> 0] /\ txbuf = [i \in Descs |-> 0]
    /\ arrived = 0 /\ delivered = <<>> /\ tx_ring_index = 0 /\ sent = <<>>
    /\ isr = FALSE /\ irq = FALSE /\ drv = [pc |-> "idle", addr |-> 0]

\* The device receives a packet, if it has a buffer, and interrupts.
Arrive ==
    /\ arrived < MAX_RX /\ Waiting(rx)
    /\ rxbuf' = [rxbuf EXCEPT ![NextAddrs(rx)[1]] = arrived + 1] /\ rx' = Complete(rx)
    /\ arrived' = arrived + 1 /\ isr' = TRUE /\ irq' = TRUE
    /\ UNCHANGED <<delivered, txVars, drv>>

\* The device sends what is in the buffer of the next chain.
Send ==
    /\ Waiting(tx) /\ sent' = Append(sent, txbuf[NextAddrs(tx)[1]]) /\ tx' = Complete(tx)
    /\ isr' = TRUE /\ irq' = TRUE /\ UNCHANGED <<rxVars, txbuf, tx_ring_index, drv>>

\* driver_handle_interrupt: read_isr_status clears the status.
Interrupt ==
    /\ drv.pc = "idle" /\ irq /\ irq' = FALSE /\ isr' = FALSE
    /\ drv' = [drv EXCEPT !.pc = IF isr THEN "pop" ELSE "idle"] /\ UNCHANGED <<rxVars, txVars>>

\* virtq_pop, and receive: a message to the TCP/IP server.
Pop ==
    /\ drv.pc = "pop"
    /\ \E r \in {virtq_pop(rx, 1)} :
          IF r.addrs = <<>> THEN drv' = [drv EXCEPT !.pc = "idle"] /\ UNCHANGED <<rx, delivered>>
          ELSE /\ rx' = r.vq /\ delivered' = Append(delivered, rxbuf[r.addrs[1]])
               /\ drv' = [pc |-> "push", addr |-> r.addrs[1]]
    /\ UNCHANGED <<rxbuf, arrived, txVars, isr, irq>>

\* `Enqueue the buffer back into the virtq', and the next turn of the loop.
Push ==
    /\ drv.pc = "push" /\ drv' = [drv EXCEPT !.pc = "pop"] /\ rx' = virtq_push(rx, <<drv.addr>>).vq
    /\ UNCHANGED <<rxbuf, arrived, delivered, txVars, isr, irq>>

\* transmit: the buffer is filled before it is known whether there is a descriptor.
Transmit ==
    LET index == tx_ring_index % NUM_DESCS
    IN  /\ drv.pc = "idle" /\ tx_ring_index < MAX_TX
        /\ txbuf' = [txbuf EXCEPT ![index] = tx_ring_index + 1] /\ tx' = virtq_push(tx, <<index>>).vq
        /\ tx_ring_index' = tx_ring_index + 1 /\ UNCHANGED <<rxVars, sent, isr, irq, drv>>

Next == Arrive \/ Send \/ Interrupt \/ Pop \/ Push \/ Transmit
Spec == Init /\ [][Next]_vars

-----------------------------------------------------------------------------

\* Whatever the device does meanwhile, every descriptor of the RX queue has one
\* owner, and every buffer is in one chain or in the driver's hands.
RxOwned ==
    /\ Owned(rx)
    /\ LET posted == {d \in Descs : \A i \in 1..rx.num_free : Along(rx, rx.free_head)[i - 1] # d}
           held == IF drv.pc = "push" THEN {drv.addr} ELSE {}
       IN  /\ \A d, e \in posted : d # e => rx.descs[d].addr # rx.descs[e].addr
           /\ {rx.descs[d].addr : d \in posted} \cup held = Descs

\* The TCP/IP server gets what arrived, in order, once each.
RxFifo == Len(delivered) <= arrived /\ \A i \in DOMAIN delivered : delivered[i] = i

\* The device sends what the TCP/IP server gave, in order, once each.
TxFifo == Len(sent) <= tx_ring_index /\ \A i \in DOMAIN sent : sent[i] = i

\* Every descriptor of the TX queue has one owner: `Enqueue the chain back into the
\* free list' leaves a list of the free descriptors.
TxOwned == Owned(tx)

\* Packets go through both queues once and in order, and buffers have one owner.
PacketsFifo == RxFifo /\ RxOwned /\ TxFifo /\ TxOwned
=============================================================================
