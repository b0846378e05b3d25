-------------------------------- MODULE Arp --------------------------------
(***************************************************************************)
(* How the TCP/IP server sends an IPv4 packet by a network device:         *)
(* servers/tcpip/ethernet.c and arp.c.  A packet whose next hop has an     *)
(* unknown MAC address waits in the ARP table until that hop answers an    *)
(* ARP request.  Packets are numbered in the order of ipv4_transmit; a     *)
(* host's MAC address is written as its IP address.                        *)
(***************************************************************************)
EXTENDS Integers, SequencesExt

CONSTANTS
    ARP_ENTRIES_MAX,
    Local,          \* the addresses of the hosts on the device's link
    Remote,         \* addresses of hosts elsewhere
    Gateway,        \* the router, one of Local
    LEASED,         \* whether the device has its address from the start
    MAX_PKTS,       \* bound on the packets
    MAX_TIME        \* bound on the clock

Broadcast == "broadcast"
Dsts == Local \cup Remote \cup {Broadcast}
Slots == 1..ARP_ENTRIES_MAX

VARIABLES
    entries,        \* the ARP table
    uptime,
    leased,         \* device->ipaddr, netmask and gateway are set
    dst,            \* the destination of every packet so far
    out,            \* packet -> the MAC addresses it was sent to
    asked           \* the addresses that ARP requests were sent for

vars == <<entries, uptime, leased, dst, out, asked>>

Init ==
    /\ entries = [i \in Slots |->
         [in_use |-> FALSE, resolved |-> FALSE, ipaddr |-> Broadcast, queue |-> <<>>, time |-> 0]]
    /\ uptime = 0 /\ leased = LEASED
    /\ dst = <<>> /\ out = <<>> /\ asked = {}

-----------------------------------------------------------------------------
\* The entry for an address, as a set of at most one slot.
arp_lookup(table, addr) ==
    LET found == {i \in Slots : table[i].in_use /\ table[i].ipaddr = addr}
    IN  IF found = {} THEN {} ELSE {Min(found)}

\* A slot that is not in use, or the first of those accessed the longest ago.
alloc_entry(table) ==
    LET unused == {i \in Slots : ~table[i].in_use}
        oldest == {i \in Slots : \A j \in Slots : table[i].time <= table[j].time}
    IN  IF unused # {} THEN Min(unused) ELSE Min(oldest)

\* The slot for addr, a new one with an empty queue if there is none.
SlotFor(table, addr) ==
    LET found == arp_lookup(table, addr)
    IN  IF found # {} THEN CHOOSE i \in found : TRUE ELSE alloc_entry(table)

QueueFor(table, addr) ==
    IF arp_lookup(table, addr) = {} THEN <<>> ELSE table[SlotFor(table, addr)].queue

\* device_dst_is_gateway: as long as there is no lease, the netmask is 0.
device_dst_is_gateway(addr) == leased /\ addr \notin Local

Hop(addr) == IF addr # Broadcast /\ device_dst_is_gateway(addr) THEN Gateway ELSE addr

Resolved(table, addr) ==
    addr = Broadcast \/ \E i \in arp_lookup(table, addr) : table[i].resolved

\* arp_resolve updates the time of the entry it uses.
Touched(table, addr) ==
    [i \in Slots |-> IF addr # Broadcast /\ i \in arp_lookup(table, addr)
                     THEN [table[i] EXCEPT !.time = uptime] ELSE table[i]]

\* Mutant of arp_enqueue: a packet replaces the one that waits.
arp_enqueue_one(table, addr, p) ==
    [table EXCEPT ![SlotFor(table, addr)] =
        IF arp_lookup(table, addr) # {} THEN [@ EXCEPT !.queue = <<p>>]
        ELSE [in_use |-> TRUE, resolved |-> FALSE, ipaddr |-> addr, queue |-> <<p>>, time |-> uptime]]

arp_enqueue(table, addr, p) ==
    [table EXCEPT ![SlotFor(table, addr)] =
        IF arp_lookup(table, addr) # {} THEN [@ EXCEPT !.queue = Append(@, p)]
        ELSE [in_use |-> TRUE, resolved |-> FALSE, ipaddr |-> addr, queue |-> <<p>>, time |-> uptime]]

\* arp_transmit: an ARP request is broadcast.
arp_request(addr) == asked' = asked \cup {addr}

\* ethernet_transmit.
ethernet_transmit(p, addr) ==
    IF Resolved(entries, Hop(addr))
    THEN /\ out' = Append(out, <<Hop(addr)>>)
         /\ entries' = Touched(entries, Hop(addr)) /\ UNCHANGED asked
    ELSE /\ entries' = arp_enqueue(entries, Hop(addr), p)
         /\ arp_request(Hop(addr)) /\ out' = Append(out, <<>>)

\* ipv4_transmit.
Transmit(addr) ==
    /\ Len(dst) < MAX_PKTS
    /\ dst' = Append(dst, addr)
    /\ ethernet_transmit(Len(dst) + 1, addr)
    /\ UNCHANGED <<uptime, leased>>

\* The entry is resolved, and the packets that wait in it are transmitted
\* again: the next hop is computed anew.
arp_register_macaddr(addr) ==
    /\ entries' = [entries EXCEPT ![SlotFor(entries, addr)] =
            [in_use |-> TRUE, resolved |-> TRUE, ipaddr |-> addr, queue |-> <<>>, time |-> uptime]]
    /\ out' = [p \in DOMAIN out |->
            IF p \in ToSet(QueueFor(entries, addr)) THEN Append(out[p], Hop(addr)) ELSE out[p]]

\* ARP_OP_REPLY: a host of the link answers, perhaps late or more than once.
\* (An ARP_OP_REQUEST for the device's own address changes nothing here.)
arp_receive(addr) ==
    /\ addr \in asked \cap Local
    /\ arp_register_macaddr(addr)
    /\ UNCHANGED <<uptime, leased, dst, asked>>

\* device_set_ip_addrs: the device gets its address.
device_set_ip_addrs ==
    /\ ~leased /\ leased' = TRUE
    /\ UNCHANGED <<entries, uptime, dst, out, asked>>

\* NOTIFY_TIMER.
Tick ==
    /\ uptime < MAX_TIME /\ uptime' = uptime + 1
    /\ UNCHANGED <<entries, leased, dst, out, asked>>

Next ==
    \/ Tick \/ device_set_ip_addrs
    \/ \E addr \in Dsts : Transmit(addr)
    \/ \E addr \in Local : arp_receive(addr)

Spec == Init /\ [][Next]_vars

-----------------------------------------------------------------------------
Waiting == UNION {ToSet(entries[i].queue) : i \in {j \in Slots : entries[j].in_use}}

\* An address has one entry, so that what waits for it is found when it answers.
OneEntry ==
    \A i, j \in Slots :
        entries[i].in_use /\ entries[j].in_use /\ entries[i].ipaddr = entries[j].ipaddr => i = j

\* A packet leaves at most once, and goes to its destination, or to the router
\* if that is elsewhere.
RightHop ==
    \A p \in DOMAIN dst : \/ out[p] = <<>>
                          \/ out[p] = <<dst[p]>>
                          \/ dst[p] \in Remote /\ out[p] = <<Gateway>>

\* Packets for a host of the link do not overtake one another in the ARP queue.
InOrder ==
    \A p, q \in DOMAIN dst :
        (p < q /\ dst[p] = dst[q] /\ dst[p] \in Local /\ out[q] # <<>>) => out[p] # <<>>

\* The queue keeps a packet `to send it later' (ethernet.c): none is forgotten.
NoneForgotten == \A p \in DOMAIN dst : out[p] # <<>> \/ p \in Waiting

\* Packets wait for the right address, and go there once.
PacketsRight == OneEntry /\ RightHop /\ InOrder
=============================================================================
