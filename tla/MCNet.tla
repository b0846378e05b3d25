------------------------------- MODULE MCNet --------------------------------
(***************************************************************************)
(* The network stack for TLC: the TCP/IP server and the network drivers.   *)
(* The initial state chooses one of the parts, which then has the          *)
(* variables v1, v2, ... to itself; so one run covers them all.            *)
(***************************************************************************)
EXTENDS Integers, FiniteSets, SequencesExt, TLC

VARIABLES
    part,       \* the part of the system that a behaviour is about
    v1, v2, v3, v4, v5, v6, v7, v8, v9, v10, v11, v12, v13, v14, v15, v16

vars == <<part, v1, v2, v3, v4, v5, v6, v7, v8, v9, v10, v11, v12, v13, v14, v15, v16>>

\* Variables that a part does not use: vi and those after it.
Off == "off"
Off12 == v12 = Off /\ v13 = Off /\ v14 = Off /\ v15 = Off /\ v16 = Off
Off10 == v10 = Off /\ v11 = Off /\ Off12
Off8 == v8 = Off /\ v9 = Off /\ Off10
Off7 == v7 = Off /\ Off8
Off4 == v4 = Off /\ v5 = Off /\ v6 = Off /\ Off7
Rest12 == <<v12, v13, v14, v15, v16>>
Rest10 == <<v10, v11, Rest12>>
Rest8 == <<v8, v9, Rest10>>
Rest7 == <<v7, Rest8>>
Rest4 == <<v4, v5, v6, Rest7>>

\* Both hosts write one buffer of two bytes.
BothOnce == [h \in {"a", "b"} |-> <<2>>]
\* What remote hosts send to the web server: whole requests, one in two segments,
\* and one that is not a request.
Mixed == ("h1" :> <<"end", "end">>) @@ ("h2" :> <<"part", "end">>)
Bad == ("h1" :> <<"bad">>) @@ ("h2" :> <<"end">>)

-----------------------------------------------------------------------------
tcp == INSTANCE Tcp WITH
    MBUF_MAX_LEN <- 4, Garbage <- 0, SEQ <- 256, TCP_RX_BUF_SIZE <- 4, ReadLen <- 3,
    Writes <- BothOnce, CLOSES <- TRUE, Losable <- {"data"}, MAX_LOSS <- 2,
    MAX_DUP <- 1, MAX_LINK <- 2, ORDERED <- TRUE,
    sock <- v1, link <- v2, writes <- v3, written <- v4, got <- v5, lost <- v6,
    dups <- v7

arp == INSTANCE Arp WITH
    ARP_ENTRIES_MAX <- 4, Local <- {"g", "h"}, Remote <- {"r"}, Gateway <- "g",
    LEASED <- FALSE, MAX_PKTS <- 4, MAX_TIME <- 1,
    entries <- v1, uptime <- v2, leased <- v3, dst <- v4, out <- v5, asked <- v6

arp_full == INSTANCE Arp WITH
    ARP_ENTRIES_MAX <- 2, Local <- {"g", "h", "i"}, Remote <- {"r"}, Gateway <- "g",
    LEASED <- TRUE, MAX_PKTS <- 3, MAX_TIME <- 1,
    entries <- v1, uptime <- v2, leased <- v3, dst <- v4, out <- v5, asked <- v6

dhcp == INSTANCE Dhcp WITH
    Links <- {1, 2}, Served <- {1, 2}, MAX_LOSS <- 1, MAX_RETRIES <- 1,
    devices <- v1, wire <- v2, lost <- v3

dns == INSTANCE Dns WITH
    Tasks <- {"t", "u"}, Names <- {"n1", "n2"}, IDS <- 8, DEVICE <- "unleased",
    MAX_QUERIES <- 4, MAX_LOSS <- 1, MAX_DUP <- 1,
    device <- v1, requests <- v2, next_id <- v3, asking <- v4, answer <- v5,
    queries <- v6, answers <- v7, count <- v8, lost <- v9, dups <- v10, panicked <- v11

tcpip == INSTANCE Tcpip WITH
    TCP_SOCKETS_MAX <- 4, BACKLOG <- 1, Requests <- Mixed, FINS <- FALSE,
    EXITS <- FALSE, CONNECTS <- 1,
    socks <- v1, handles <- v2, task <- v3, events <- v4, app <- v5, clients <- v6,
    host <- v7, stray <- v8, died <- v9

tcpip_exit == INSTANCE Tcpip WITH
    TCP_SOCKETS_MAX <- 4, BACKLOG <- 2, Requests <- Bad, FINS <- TRUE, EXITS <- TRUE,
    CONNECTS <- 0,
    socks <- v1, handles <- v2, task <- v3, events <- v4, app <- v5, clients <- v6,
    host <- v7, stray <- v8, died <- v9

e1000 == INSTANCE E1000 WITH
    NUM_RX_DESCS <- 3, NUM_TX_DESCS <- 3, MAX_RX <- 7, MAX_TX <- 5, MAX_AHEAD <- 2,
    rx_descs <- v1, tx_descs <- v2, rx_current <- v3, tx_current <- v4, rdh <- v5,
    rdt <- v6, tdh <- v7, tdt <- v8, icr <- v9, notifications <- v10, pc <- v11,
    arrived <- v12, delivered <- v13, queued <- v14, outbox <- v15, sent <- v16

virtio_net == INSTANCE VirtioNet WITH
    NUM_DESCS <- 3, INDEX_MOD <- 12, MAX_RX <- 7, MAX_TX <- 3,
    rx <- v1, tx <- v2, rxbuf <- v3, txbuf <- v4, arrived <- v5, delivered <- v6,
    tx_ring_index <- v7, sent <- v8, isr <- v9, irq <- v10, drv <- v11

-----------------------------------------------------------------------------
Init ==
    \/ part = "tcp" /\ tcp!Init /\ Off8
    \/ part = "arp" /\ arp!Init /\ Off7
    \/ part = "arp_full" /\ arp_full!Init /\ Off7
    \/ part = "dhcp" /\ dhcp!Init /\ Off4
    \/ part = "dns" /\ dns!Init /\ Off12
    \/ part = "tcpip" /\ tcpip!Init /\ Off10
    \/ part = "tcpip_exit" /\ tcpip_exit!Init /\ Off10
    \/ part = "e1000" /\ e1000!Init
    \/ part = "virtio_net" /\ virtio_net!Init /\ Off12

TcpStep == part = "tcp" /\ tcp!Next /\ UNCHANGED <<part, Rest8>>
ArpStep == part = "arp" /\ arp!Next /\ UNCHANGED <<part, Rest7>>
ArpFullStep == part = "arp_full" /\ arp_full!Next /\ UNCHANGED <<part, Rest7>>
DhcpStep == part = "dhcp" /\ dhcp!Next /\ UNCHANGED <<part, Rest4>>
DnsStep == part = "dns" /\ dns!Next /\ UNCHANGED <<part, Rest12>>
TcpipStep == part = "tcpip" /\ tcpip!Next /\ UNCHANGED <<part, Rest10>>
TcpipExitStep == part = "tcpip_exit" /\ tcpip_exit!Next /\ UNCHANGED <<part, Rest10>>
E1000Step == part = "e1000" /\ e1000!Next /\ UNCHANGED part
VirtioNetStep == part = "virtio_net" /\ virtio_net!Next /\ UNCHANGED <<part, Rest12>>

Next ==
    TcpStep \/ ArpStep \/ ArpFullStep \/ DhcpStep \/ DnsStep \/ TcpipStep \/
    TcpipExitStep \/ E1000Step \/ VirtioNetStep

Spec == Init /\ [][Next]_vars

-----------------------------------------------------------------------------
\* tcp.c: what an application reads is what the other one wrote, in order; the
\* window is the room in the buffer and sequence numbers agree (Tcp).
StreamRight == part = "tcp" => tcp!StreamRight

\* arp.c and ethernet.c: an address has one entry, and a packet leaves once, in
\* order, to the host or the router; none is forgotten unless the table is full (Arp).
PacketsRight ==
    /\ part = "arp" => arp!PacketsRight /\ arp!NoneForgotten
    /\ part = "arp_full" => arp_full!OneEntry /\ arp_full!RightHop

\* dhcp.c: a device takes the address its link's server keeps for it (Dhcp).
OwnAddress == part = "dhcp" => dhcp!OwnAddress

\* dns.c: a task gets the address of the name it has asked for (Dns).
AnswersRight == part = "dns" => dns!AnswersRight

\* main.c with webapi: handles stand for different sockets, which know them, also
\* when the web server exits and is started again; a connection is announced once
\* (Tcpip).
SocketsRight ==
    /\ part = "tcpip" => tcpip!HandlesOwn /\ tcpip!AnnouncedOnce
    /\ part = "tcpip_exit" => tcpip_exit!HandlesOwn

\* e1000.c and virtio_net: packets pass both ways once and in order, however
\* device and driver interleave, and a buffer has one owner (E1000, VirtioNet).
PacketsFifo ==
    /\ part = "e1000" => e1000!PacketsFifo
    /\ part = "virtio_net" => virtio_net!PacketsFifo
=============================================================================
