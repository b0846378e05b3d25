-------------------------------- MODULE Dhcp --------------------------------
(***************************************************************************)
(* The DHCP client of the TCP/IP server: register_device and deferred_work *)
(* of main.c, device.c, dhcp.c, and the UDP sockets (udp.c) under them.    *)
(* Every device is on a link of its own, with a DHCP server if the link is *)
(* one of Served.  Other hosts that use DHCP at the same time are left out. *)
(* Servers broadcast their answers, as flags 0x8000 asks them to.          *)
(***************************************************************************)
EXTENDS Integers, FiniteSets, SequencesExt

CONSTANTS
    Links,          \* 1..n: the i-th device that is registered is on link i
    Served,         \* the links that have a DHCP server
    MAX_RETRIES,    \* how often DISCOVER is sent again: 3
    MAX_LOSS        \* bound on the packets lost

None == <<>>

\* The address that the server of link l gives to the hardware address h.
Addr(l, h) == <<l, h>>

VARIABLES
    devices,        \* the devices registered: leased, ip, retries, waited
    wire,           \* the packets on the links
    lost

vars == <<devices, wire, lost>>

Init == devices = <<>> /\ wire = {} /\ lost = 0

\* device_lookup.  A device without a lease has the netmask 0 and matches
\* every address; a device with one only its own link.
device_lookup(devs, local) ==
    LET match == {d \in DOMAIN devs : devs[d].ip = None \/ d = local}
        routers == {d \in DOMAIN devs : devs[d].ip # None}
    IN  IF match # {} THEN {Min(match)} ELSE IF routers # {} THEN {Min(routers)} ELSE {}

\* No device is on the link of the broadcast address, or of a remote one.
Elsewhere == 0

\* udp_transmit and ipv4_transmit: the packet leaves by the device that
\* device_lookup finds for the broadcast address.
udp_transmit(devs, p) == {[p EXCEPT !.link = l] : l \in device_lookup(devs, Elsewhere)}

\* (n tells apart packets that are alike.)
dhcp_transmit(devs, d, type, addr, n) ==
    udp_transmit(devs, [link |-> Elsewhere, type |-> type, chaddr |-> d, addr |-> addr, n |-> n])

\* register_device, with device_new and device_enable_dhcp.
register_device ==
    /\ Len(devices) < Cardinality(Links)
    /\ LET d == Len(devices) + 1
           devs == Append(devices, [leased |-> FALSE, ip |-> None, retries |-> 0, waited |-> 0])
       IN  devices' = devs /\ wire' = wire \cup dhcp_transmit(devs, d, "DISCOVER", None, 0)
    /\ UNCHANGED lost

\* More than 200 ms have passed since the last DISCOVER of d, with this tick.
Due(d) == ~devices[d].leased /\ devices[d].retries < MAX_RETRIES /\ devices[d].waited = 1

\* NOTIFY_TIMER: 200 ms pass, and deferred_work sends what is due.
Tick ==
    /\ devices' = [d \in DOMAIN devices |->
            IF Due(d) THEN [devices[d] EXCEPT !.retries = @ + 1, !.waited = 0]
            ELSE [devices[d] EXCEPT !.waited = 1]]
    /\ wire' = wire \cup UNION {dhcp_transmit(devices, d, "DISCOVER", None, devices'[d].retries)
                                 : d \in {e \in DOMAIN devices : Due(e)}}
    /\ UNCHANGED lost

\* Mutant of dhcp_process: the address offered is taken without a request.
dhcp_process_offer(d, p) ==
    /\ devices' = [devices EXCEPT ![d].leased = TRUE, ![d].ip = p.addr]
    /\ wire' = wire \ {p}

\* The answers are not told apart by xid or client_hwaddr.
dhcp_process(d, p) ==
    \/ /\ p.type = "OFFER"
       /\ wire' = (wire \ {p}) \cup dhcp_transmit(devices, d, "REQUEST", p.addr, p.n)
       /\ UNCHANGED devices
    \/ /\ p.type = "ACK"
       /\ devices' = [devices EXCEPT ![d].leased = TRUE, ![d].ip = p.addr]
       /\ wire' = wire \ {p}
    \/ /\ p.type = "NAK"
       /\ wire' = wire \ {p} /\ UNCHANGED devices

\* NET_RX_MSG of the driver of device d: ipv4_receive, udp_receive, dhcp_receive.
dhcp_receive(d, p) ==
    /\ d \in DOMAIN devices /\ p \in wire /\ p.link = d /\ p.type \in {"OFFER", "ACK", "NAK"}
    /\ dhcp_process(d, p)
    /\ UNCHANGED lost

-----------------------------------------------------------------------------
(***************************************************************************)
(* The links.                                                              *)
(***************************************************************************)
\* A server offers a hardware address the address it keeps for it, and
\* confirms that address only.
Serve(p) ==
    /\ p \in wire /\ p.link \in Served /\ p.type \in {"DISCOVER", "REQUEST"}
    /\ LET mine == Addr(p.link, p.chaddr)
           type == IF p.type = "DISCOVER" THEN "OFFER" ELSE IF p.addr = mine THEN "ACK" ELSE "NAK"
       IN  wire' = (wire \ {p}) \cup {[p EXCEPT !.type = type, !.addr = mine]}
    /\ UNCHANGED <<devices, lost>>

Lose(p) ==
    /\ lost < MAX_LOSS /\ lost' = lost + 1
    /\ wire' = wire \ {p}
    /\ UNCHANGED devices

Next ==
    \/ register_device \/ Tick
    \/ \E p \in wire : Serve(p) \/ Lose(p) \/ \E d \in Links : dhcp_receive(d, p)

Spec == Init /\ [][Next]_vars

-----------------------------------------------------------------------------

\* A device takes the address that the server of its link keeps for it and for
\* nobody else.
OwnAddress == \A d \in DOMAIN devices : devices[d].ip \in {None, Addr(d, d)}

=============================================================================
