-------------------------------- MODULE E1000 --------------------------------
(***************************************************************************)
(* The driver of the e1000 network card (servers/drivers/net/e1000) with   *)
(* its device, which works at any time between two steps of the driver.    *)
(* Received packets go to the TCP/IP server one by one in blocking sends;  *)
(* packets to send come from it as asynchronous messages, one for each     *)
(* pull, and NOTIFY_ASYNC is set again while there are more.  Packets are  *)
(* numbered.                                                               *)
(***************************************************************************)
EXTENDS Integers, Sequences

CONSTANTS
    NUM_RX_DESCS, NUM_TX_DESCS,
    MAX_RX, MAX_TX,     \* bounds: packets that arrive and that are queued for sending
    MAX_AHEAD           \* how many packets the TCP/IP server is ahead of the wire

VARIABLES
    rx_descs, tx_descs,         \* [done, pkt] and pkt: descriptors with their buffers
    rx_current, tx_current,     \* the driver's places in the rings
    rdh, rdt, tdh, tdt,         \* registers: heads, the device's places, and tails, the driver's
    icr, notifications,         \* the cause RXT0; the driver's pending notifications
    pc,                         \* the driver: where it is, and notifications that it still handles
    arrived, delivered,         \* packets put into the ring; packets the TCP/IP server got
    queued, outbox, sent        \* packets of the TCP/IP server, those not pulled, those on the wire

rxVars == <<rx_descs, rx_current, rdh, rdt, icr, arrived, delivered>>
txVars == <<tx_descs, tx_current, tdh, tdt, queued, outbox, sent>>
vars == <<rxVars, txVars, notifications, pc>>
Idle == [at |-> "idle", todo |-> {}]

\* e1000_init: the tail is one past the ring.
Init ==
    /\ rx_descs = [i \in 0..(NUM_RX_DESCS - 1) |-> [done |-> FALSE, pkt |-> 0]]
    /\ tx_descs = [i \in 0..(NUM_TX_DESCS - 1) |-> 0]
    /\ rx_current = 0 /\ tx_current = 0 /\ rdh = 0 /\ rdt = NUM_RX_DESCS /\ tdh = 0 /\ tdt = 0
    /\ icr = FALSE /\ notifications = {} /\ pc = Idle
    /\ arrived = 0 /\ delivered = <<>> /\ queued = 0 /\ outbox = <<>> /\ sent = <<>>

-----------------------------------------------------------------------------
(***************************************************************************)
(* The device and the TCP/IP server.                                       *)
(***************************************************************************)
\* A packet is written to the descriptor at the head unless the head has
\* reached the tail; the head wraps when it is used.
Arrive ==
    LET at == rdh % NUM_RX_DESCS
    IN  /\ arrived < MAX_RX /\ rdh # rdt /\ at # rdt
        /\ rx_descs' = [rx_descs EXCEPT ![at] = [done |-> TRUE, pkt |-> arrived + 1]]
        /\ rdh' = at + 1 /\ arrived' = arrived + 1 /\ icr' = TRUE /\ notifications' = notifications \cup {"IRQ"}
        /\ UNCHANGED <<rx_current, rdt, delivered, txVars, pc>>

\* A packet goes from the ring to the wire.
Send ==
    /\ tdh # tdt /\ sent' = Append(sent, tx_descs[tdh]) /\ tdh' = (tdh + 1) % NUM_TX_DESCS
    /\ UNCHANGED <<rxVars, tx_descs, tx_current, tdt, queued, outbox, notifications, pc>>

\* async_send of the TCP/IP server.
Queue ==
    /\ queued < MAX_TX /\ queued - Len(sent) < MAX_AHEAD
    /\ queued' = queued + 1 /\ outbox' = Append(outbox, queued + 1) /\ notifications' = notifications \cup {"ASYNC"}
    /\ UNCHANGED <<rxVars, tx_descs, tx_current, tdh, tdt, sent, pc>>

-----------------------------------------------------------------------------
(***************************************************************************)
(* The driver.                                                             *)
(***************************************************************************)

\* main: all pending notifications are received at once; IRQs come first.
Main ==
    /\ pc = Idle /\ notifications # {} /\ notifications' = {}
    /\ pc' = [at |-> IF "IRQ" \in notifications THEN "cause" ELSE "async", todo |-> notifications]
    /\ UNCHANGED <<rxVars, txVars>>

\* e1000_handle_interrupt: reading the cause clears it.
Cause ==
    /\ pc.at = "cause" /\ icr' = FALSE /\ pc' = [pc EXCEPT !.at = IF icr THEN "rx" ELSE "async"]
    /\ UNCHANGED <<rx_descs, rx_current, rdh, rdt, arrived, delivered, txVars, notifications>>

\* The next packet, if there is one, is sent to the TCP/IP server.
Receive ==
    /\ pc.at = "rx" /\ rx_descs[rx_current].done /\ delivered' = Append(delivered, rx_descs[rx_current].pkt)
    /\ pc' = [pc EXCEPT !.at = "ack"]
    /\ UNCHANGED <<rx_descs, rx_current, rdh, rdt, icr, arrived, txVars, notifications>>
NoMore ==
    /\ pc.at = "rx" /\ ~rx_descs[rx_current].done /\ pc' = [pc EXCEPT !.at = "async"]
    /\ UNCHANGED <<rxVars, txVars, notifications>>

\* The descriptor becomes the tail.
Ack ==
    /\ pc.at = "ack" /\ rx_descs' = [rx_descs EXCEPT ![rx_current].done = FALSE]
    /\ rdt' = rx_current /\ rx_current' = (rx_current + 1) % NUM_RX_DESCS
    /\ pc' = [pc EXCEPT !.at = "rx"] /\ UNCHANGED <<rdh, icr, arrived, delivered, txVars, notifications>>

\* Mutant of Transmit: always the first buffer.
Transmit_first ==
    /\ pc.at = "async" /\ "ASYNC" \in pc.todo /\ pc' = Idle /\ outbox # <<>> /\ outbox' = Tail(outbox)
    /\ tx_descs' = [tx_descs EXCEPT ![0] = Head(outbox)]
    /\ tx_current' = (tx_current + 1) % NUM_TX_DESCS /\ tdt' = tx_current'
    /\ notifications' = IF Len(outbox) > 1 THEN notifications \cup {"ASYNC"} ELSE notifications
    /\ UNCHANGED <<rxVars, tdh, queued, sent>>

\* transmit and e1000_transmit: one message is pulled and written to the ring,
\* whether or not the device is done with the descriptor.
Transmit ==
    /\ pc.at = "async" /\ "ASYNC" \in pc.todo /\ pc' = Idle /\ outbox # <<>> /\ outbox' = Tail(outbox)
    /\ tx_descs' = [tx_descs EXCEPT ![tx_current] = Head(outbox)]
    /\ tx_current' = (tx_current + 1) % NUM_TX_DESCS /\ tdt' = tx_current'
    /\ notifications' = IF Len(outbox) > 1 THEN notifications \cup {"ASYNC"} ELSE notifications
    /\ UNCHANGED <<rxVars, tdh, queued, sent>>
NoAsync ==
    /\ pc.at = "async" /\ "ASYNC" \notin pc.todo /\ pc' = Idle /\ UNCHANGED <<rxVars, txVars, notifications>>

Driver == Main \/ Cause \/ Receive \/ NoMore \/ Ack \/ Transmit \/ NoAsync
Next == Arrive \/ Send \/ Queue \/ Driver
Spec == Init /\ [][Next]_vars

-----------------------------------------------------------------------------

\* e1000_handle_interrupt: every packet that arrives is delivered once, in order,
\* however often the ring wraps and whenever interrupts are merged.
RxFifo == Len(delivered) <= arrived /\ \A i \in DOMAIN delivered : delivered[i] = i

\* While a packet is on its way to the TCP/IP server, which may take long, the
\* device does not write to its buffer.
RxOwned == pc.at = "ack" => rx_descs[rx_current] = [done |-> TRUE, pkt |-> delivered[Len(delivered)]]

\* The pull of a message that a notification announced finds one (ASSERT_OK in
\* transmit).
PullFinds == pc.at = "async" /\ "ASYNC" \in pc.todo => outbox # <<>>

\* Packets of the TCP/IP server are sent once, in order.
TxFifo == \A i \in DOMAIN sent : sent[i] = i

\* Packets go through both rings once and in order.
PacketsFifo == RxFifo /\ RxOwned /\ PullFinds /\ TxFifo
=============================================================================
