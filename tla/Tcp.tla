-------------------------------- MODULE Tcp --------------------------------
(***************************************************************************)
(* Two hosts that both run the TCP of servers/tcpip/tcp.c: host "a" opens  *)
(* a connection to a port on which host "b" listens, and they exchange     *)
(* data over a link that may lose packets, and duplicate or reorder them.  *)
(* The bytes a host writes are 1, 2, 3, ...                                *)
(*                                                                         *)
(* The server's main loop handles one message, then calls tcp_flush, which *)
(* offers every socket the chance to transmit: each action below ends with *)
(* it.  Sequence numbers are taken modulo SEQ (2^32 in the code).          *)
(***************************************************************************)
EXTENDS Mbuf, TLC

CONSTANTS
    SEQ,            \* sequence numbers are in 0..SEQ - 1
    TCP_RX_BUF_SIZE,
    Writes,         \* what the hosts write: [Hosts -> Seq(Nat)], lengths in order
    ReadLen,        \* the most an application reads at once
    CLOSES,         \* host "a" closes its side once its data is acknowledged
    Losable,        \* the kinds of packets that the link may lose
    MAX_LOSS,       \* bound on the packets lost
    MAX_DUP,        \* bound on the packets delivered twice
    MAX_LINK,       \* bound: no retransmission while so many packets are on their way
    ORDERED         \* packets arrive in the order in which they were sent

Hosts == {"a", "b"}
Peer(h) == IF h = "a" THEN "b" ELSE "a"

VARIABLES
    sock,           \* each host's socket; "b"'s is its listening one until a SYN
    link,           \* host -> the packets on their way to it
    writes,         \* host -> number of writes done
    written,        \* host -> number of bytes written
    got,            \* host -> bytes its application has read
    lost,           \* number of packets lost
    dups            \* number of packets delivered twice

vars == <<sock, link, writes, written, got, lost, dups>>

\* tcp_new; remote_winsize is not set.
tcp_new ==
    [state |-> "CLOSED", pend |-> {}, next_seqno |-> 0, last_seqno |-> 0, last_ack |-> 0,
     local_winsize |-> TCP_RX_BUF_SIZE, remote_winsize |-> 0,
     rx |-> mbuf_alloc, tx |-> mbuf_alloc, timer |-> FALSE]

Init ==
    /\ sock = [h \in Hosts |-> IF h = "b" THEN [tcp_new EXCEPT !.state = "LISTEN"] ELSE tcp_new]
    /\ link = [h \in Hosts |-> <<>>]
    /\ writes = [h \in Hosts |-> 0] /\ written = [h \in Hosts |-> 0]
    /\ got = [h \in Hosts |-> <<>>] /\ lost = 0 /\ dups = 0

-----------------------------------------------------------------------------
(***************************************************************************)
(* tcp_transmit: the packet, and the socket afterwards.  `timer' says that *)
(* retransmit_at lies ahead.                                               *)
(***************************************************************************)
Sends(s) == s.state \in {"ESTABLISHED", "CLOSE_WAIT"}

Payload(s) == IF Sends(s) THEN mbuf_peek(s.tx, s.remote_winsize) ELSE <<>>

Flags(s) ==
    (IF mbuf_len(Payload(s)) > 0 THEN {"ACK", "PSH"} ELSE {})
    \cup (IF s.state = "SYN_RECVED" THEN {"SYN", "ACK"} ELSE {}) \cup s.pend

\* Nothing to send, or it is not yet time.
Silent(s) == s.timer \/ Flags(s) = {}

Packet(s) ==
    [flags |-> Flags(s), seq |-> s.next_seqno,
     ack |-> IF "ACK" \in Flags(s) THEN s.last_ack ELSE 0,
     win |-> s.local_winsize, data |-> Bytes(Payload(s))]

\* Mutant of AfterTransmit: what was sent is not kept for a retransmission.
AfterTransmit_forget(s) ==
    IF s.timer THEN s
    ELSE IF Flags(s) = {} THEN [s EXCEPT !.pend = {}]
    ELSE [s EXCEPT !.pend = {}, !.timer = TRUE, !.last_seqno = s.next_seqno, !.tx = mbuf_alloc]

\* tcp_clear_pendings; the timer is set if something was sent.
AfterTransmit(s) ==
    IF s.timer THEN s
    ELSE IF Flags(s) = {} THEN [s EXCEPT !.pend = {}]
    ELSE [s EXCEPT !.pend = {}, !.timer = TRUE, !.last_seqno = s.next_seqno]

\* Host h's socket becomes s and tcp_flush is called; `left' are the packets
\* still on their way to h.
Flush(h, s, left) ==
    \E t \in {s} :
        /\ sock' = [sock EXCEPT ![h] = AfterTransmit(t)]
        /\ link' = [link EXCEPT ![h] = left, ![Peer(h)] = IF Silent(t) THEN @ ELSE Append(@, Packet(t))]

-----------------------------------------------------------------------------
(***************************************************************************)
(* tcp_process.                                                            *)
(***************************************************************************)
\* A SYN for the listening socket: a new socket, which replaces it here since
\* all later packets are for the new one.
Opened(p) ==
    [tcp_new EXCEPT !.state = "SYN_RECVED", !.last_ack = (p.seq + 1) % SEQ, !.pend = {"ACK"}]

\* What the window (the 16 bits of which are read as 32) and the
\* acknowledgement number tell the socket.
Acked(s, p) ==
    LET t == [s EXCEPT !.remote_winsize = p.win * 65536]
        acked_len == (p.ack - s.next_seqno) % SEQ
    IN  IF s.state # "ESTABLISHED" \/ acked_len = 0 THEN t
        ELSE [t EXCEPT !.tx = mbuf_discard(@, acked_len), !.next_seqno = p.ack]

Fin(s, p) ==
    IF "FIN" \notin p.flags THEN s
    ELSE [s EXCEPT !.pend = @ \cup {"ACK"}, !.state = "CLOSE_WAIT", !.timer = FALSE,
                   !.last_ack = (@ + 1) % SEQ]

\* Data is acknowledged, and dropped if there is no room for it.
Received(s, p) ==
    LET n == Len(p.data)
        t == [s EXCEPT !.pend = @ \cup {"ACK"}]
    IN  IF n = 0 THEN s
        ELSE IF s.local_winsize < n THEN t
        ELSE [t EXCEPT !.rx = mbuf_append(@, mbuf_new(p.data)),
                       !.last_ack = (@ + n) % SEQ, !.local_winsize = @ - n]

\* The switch over the state.
InState(s, p) ==
    CASE s.state = "SYN_SENT" /\ p.flags \cap {"SYN", "ACK"} # {} ->
            [s EXCEPT !.next_seqno = p.ack, !.last_ack = (p.seq + 1) % SEQ,
                      !.state = "ESTABLISHED", !.timer = FALSE]
      [] s.state = "SYN_RECVED" /\ "ACK" \in p.flags ->
            [s EXCEPT !.next_seqno = p.ack, !.last_ack = p.seq,
                      !.state = "ESTABLISHED", !.timer = FALSE]
      [] s.state = "ESTABLISHED" -> Received(Fin(s, p), p)
      [] s.state = "LAST_ACK" /\ "ACK" \in p.flags -> [s EXCEPT !.state = "CLOSED"]
      [] OTHER -> s

\* The end of tcp_process.
Finish(s) ==
    IF s.state = "CLOSE_WAIT" /\ mbuf_len(s.tx) = 0
    THEN [s EXCEPT !.pend = @ \cup {"FIN"}, !.state = "LAST_ACK"] ELSE s

\* Mutant of tcp_process: the sequence number is not looked at.
tcp_process_any(s, p) ==
    IF s.state = "LISTEN" THEN IF "SYN" \in p.flags THEN Opened(p) ELSE s
    ELSE Finish(InState(Acked(s, p), p))

tcp_process(s, p) ==
    IF s.state = "LISTEN" THEN IF "SYN" \in p.flags THEN Opened(p) ELSE s
    ELSE IF s.state # "SYN_SENT" /\ p.seq # s.last_ack THEN s
    ELSE Finish(InState(Acked(s, p), p))

-----------------------------------------------------------------------------
(***************************************************************************)
(* The hosts.                                                              *)
(***************************************************************************)
\* TCPIP_CONNECT_MSG.
Connect ==
    /\ sock["a"].state = "CLOSED"
    /\ Flush("a", [sock["a"] EXCEPT !.state = "SYN_SENT", !.pend = {"SYN"}], link["a"])
    /\ UNCHANGED <<writes, written, got, lost, dups>>

Open(h) == sock[h].state \in {"ESTABLISHED", "CLOSE_WAIT"}

\* TCPIP_WRITE_MSG: tcp_write.
Write(h) ==
    /\ Open(h) /\ writes[h] < Len(Writes[h])
    /\ LET n == Writes[h][writes[h] + 1]
           s == [sock[h] EXCEPT !.tx = mbuf_append_bytes(@, [i \in 1..n |-> written[h] + i]),
                                !.timer = FALSE]
       IN  Flush(h, s, link[h]) /\ written' = [written EXCEPT ![h] = @ + n]
    /\ writes' = [writes EXCEPT ![h] = @ + 1]
    /\ UNCHANGED <<got, lost, dups>>

\* TCPIP_READ_MSG: tcp_read.
Read(h) ==
    /\ mbuf_len(sock[h].rx) > 0
    /\ LET bytes == mbuf_read(sock[h].rx, ReadLen)
           s == [sock[h] EXCEPT !.rx = mbuf_discard(@, ReadLen),
                                !.local_winsize = @ + Len(bytes)]
       IN  Flush(h, s, link[h]) /\ got' = [got EXCEPT ![h] = @ \o bytes]
    /\ UNCHANGED <<writes, written, lost, dups>>

\* NOTIFY_TIMER: the time of the retransmission has come.
Timer(h) ==
    /\ sock[h].timer /\ Len(link[Peer(h)]) < MAX_LINK
    /\ Flush(h, [sock[h] EXCEPT !.timer = FALSE], link[h])
    /\ UNCHANGED <<writes, written, got, lost, dups>>

\* NET_RX_MSG: the i-th packet on its way is received; `again' keeps a copy.
Receive(h, i, again) ==
    /\ i \in DOMAIN link[h] /\ (ORDERED => i = 1) /\ (again => dups < MAX_DUP)
    /\ Flush(h, tcp_process(sock[h], link[h][i]), IF again THEN link[h] ELSE RemoveAt(link[h], i))
    /\ dups' = IF again THEN dups + 1 ELSE dups
    /\ UNCHANGED <<writes, written, got, lost>>

\* The link loses a packet.
Kind(p) == IF "SYN" \in p.flags THEN "syn" ELSE IF "FIN" \in p.flags THEN "fin" ELSE "data"
Lose(h) ==
    /\ link[h] # <<>> /\ lost < MAX_LOSS /\ Kind(Head(link[h])) \in Losable
    /\ link' = [link EXCEPT ![h] = Tail(@)] /\ lost' = lost + 1
    /\ UNCHANGED <<sock, writes, written, got, dups>>

\* A host whose TCP has an active close sends its FIN (tcp.c has none).
Close ==
    /\ CLOSES /\ sock["a"].state = "ESTABLISHED" /\ writes["a"] = Len(Writes["a"])
    /\ sock["a"].next_seqno = (written["a"] + 1) % SEQ /\ sock["a"].last_ack = 1
    /\ sock' = [sock EXCEPT !["a"].state = "FIN_WAIT1"]
    /\ link' = [link EXCEPT !["b"] = Append(@, [flags |-> {"FIN", "ACK"}, data |-> <<>>,
                    seq |-> sock["a"].next_seqno, ack |-> sock["a"].last_ack, win |-> TCP_RX_BUF_SIZE])]
    /\ UNCHANGED <<writes, written, got, lost, dups>>

\* It acknowledges all that it receives from then on.
CloseAck ==
    /\ sock["a"].state = "FIN_WAIT1" /\ link["a"] # <<>> /\ Len(link["b"]) < MAX_LINK
    /\ LET p == Head(link["a"])
           n == Len(p.data) + (IF "FIN" \in p.flags THEN 1 ELSE 0)
           ack == IF p.seq = sock["a"].last_ack THEN (p.seq + n) % SEQ ELSE sock["a"].last_ack
       IN  /\ sock' = [sock EXCEPT !["a"].last_ack = ack]
           /\ link' = [link EXCEPT !["a"] = Tail(@),
                 !["b"] = IF n = 0 THEN @
                          ELSE Append(@, [flags |-> {"ACK"}, data |-> <<>>,
                                 seq |-> (sock["a"].next_seqno + 1) % SEQ, ack |-> ack,
                                 win |-> TCP_RX_BUF_SIZE])]
    /\ UNCHANGED <<writes, written, got, lost, dups>>

Next ==
    \/ Connect \/ Close \/ CloseAck
    \/ \E h \in Hosts :
        \/ Write(h) \/ Read(h) \/ Timer(h) \/ Lose(h)
        \/ \E i \in DOMAIN link[h], again \in BOOLEAN :
             sock[h].state # "FIN_WAIT1" /\ Receive(h, i, again)

Spec == Init /\ [][Next]_vars

-----------------------------------------------------------------------------
(***************************************************************************)
(* Properties.                                                             *)
(***************************************************************************)

\* The receive window is the room in the receive buffer.
WindowExact ==
    \A h \in Hosts : sock[h].local_winsize + mbuf_len(sock[h].rx) = TCP_RX_BUF_SIZE

Established == \A h \in Hosts : sock[h].state = "ESTABLISHED"

\* `The first byte of unacknwoledged by the remote.' and `The last byte received
\* from the remote.' (tcp.h): what a host takes to be acknowledged the other one
\* has received, and what that one waits for next is not yet out of the buffer.
SeqAgree ==
    Established => \A h \in Hosts :
        LET s == sock[h]
            r == sock[Peer(h)]
        IN  /\ s.next_seqno <= r.last_ack
            /\ r.last_ack <= s.next_seqno + mbuf_len(s.tx)
            /\ s.next_seqno + mbuf_len(s.tx) = written[h] + 1

\* What an application reads is what the other one wrote, in order.
ReadPrefix ==
    \A h \in Hosts :
        LET bytes == got[h] \o Bytes(sock[h].rx) IN bytes = [i \in DOMAIN bytes |-> i]

\* What is read, the window and the sequence numbers are right, with packets
\* lost and doubled.
StreamRight == ReadPrefix /\ WindowExact /\ SeqAgree

\* All that h may write is written and has been read.
AllRead(h) == writes[h] = Len(Writes[h]) /\ Len(got[Peer(h)]) = written[h]
=============================================================================
