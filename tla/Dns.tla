-------------------------------- MODULE Dns --------------------------------
(***************************************************************************)
(* Name resolution by the TCP/IP server: TCPIP_DNS_RESOLVE_MSG of main.c   *)
(* and dns.c, over the UDP sockets of udp.c.  The server does not answer a *)
(* task that asks until an answer to its query, which it knows by its ID,  *)
(* comes back; meanwhile it serves others.                                 *)
(***************************************************************************)
EXTENDS Integers, SequencesExt

CONSTANTS
    Tasks,          \* the tasks that ask (in ipc_call, so one question at a time)
    Names,
    IDS,            \* query IDs are in 0..IDS - 1 (2^16 in the code)
    DEVICE,         \* the network device at the start: "none", "unleased" or "leased"
    MAX_QUERIES,    \* bound on the queries
    MAX_LOSS,       \* bound on the packets lost
    MAX_DUP         \* bound on the packets delivered twice

VARIABLES
    device,         \* the network device; a lease also sets the name server
    requests,       \* dns_requests: a sequence of [id, task]
    next_id,        \* next_dns_query_id
    asking,         \* task -> the name it waits for, or Nothing
    answer,         \* task -> the last answer: [name, addr]
    queries,        \* the queries on their way to the name server
    answers,        \* the answers on their way back: [id, addr, n]
    count, lost, dups,
    panicked        \* an assertion of the server has failed

vars == <<device, requests, next_id, asking, answer, queries, answers, count, lost, dups, panicked>>

Nothing == "nothing"
AddrOf(name) == name

Init ==
    /\ device = DEVICE /\ requests = <<>> /\ next_id = 1
    /\ asking = [t \in Tasks |-> Nothing]
    /\ answer = [t \in Tasks |-> [name |-> Nothing, addr |-> Nothing]]
    /\ queries = {} /\ answers = {} /\ count = 0 /\ lost = 0 /\ dups = 0 /\ panicked = FALSE

\* The network device is registered, and gets its lease.
NextDevice ==
    /\ device # "leased" /\ device' = IF device = "none" THEN "unleased" ELSE "leased"
    /\ UNCHANGED <<requests, next_id, asking, answer, queries, answers, count, lost, dups, panicked>>

\* udp_sendto_mbuf and udp_transmit.  The address of the name server is 0 until
\* there is a lease: a device without one takes it for an address of its link,
\* and arp_resolve asserts that it is not 0.  Without a device there is no route.
udp_transmit(q) ==
    CASE device = "leased" -> queries' = queries \cup {q} /\ UNCHANGED panicked
      [] device = "unleased" -> panicked' = TRUE /\ UNCHANGED queries
      [] device = "none" -> UNCHANGED <<queries, panicked>>

\* Mutant of Resolve: all queries have the same ID.
Resolve_same(t, name) ==
    /\ ~panicked /\ asking[t] = Nothing /\ count < MAX_QUERIES
    /\ asking' = [asking EXCEPT ![t] = name]
    /\ requests' = Append(requests, [id |-> next_id, task |-> t])
    /\ next_id' = next_id
    /\ udp_transmit([id |-> next_id, name |-> name])
    /\ count' = count + 1
    /\ UNCHANGED <<device, answer, answers, lost, dups>>

\* TCPIP_DNS_RESOLVE_MSG, dns_query.
Resolve(t, name) ==
    /\ ~panicked /\ asking[t] = Nothing /\ count < MAX_QUERIES
    /\ asking' = [asking EXCEPT ![t] = name]
    /\ requests' = Append(requests, [id |-> next_id, task |-> t])
    /\ next_id' = (next_id + 1) % IDS
    /\ udp_transmit([id |-> next_id, name |-> name])
    /\ count' = count + 1
    /\ UNCHANGED <<device, answer, answers, lost, dups>>

\* DNS_GOT_ANSWER: every request with that ID is answered and removed.
sys_process_event(a) ==
    LET done == {requests[i].task : i \in {j \in DOMAIN requests : requests[j].id = a.id}}
    IN  /\ answer' = [t \in Tasks |-> IF t \in done THEN [name |-> asking[t], addr |-> a.addr]
                                      ELSE answer[t]]
        /\ asking' = [t \in Tasks |-> IF t \in done THEN Nothing ELSE asking[t]]
        /\ requests' = SelectSeq(requests, LAMBDA r : r.id # a.id)

\* NET_RX_MSG: udp_receive, dns_receive, dns_process.
dns_receive(a, again) ==
    /\ ~panicked /\ a \in answers /\ (again => dups < MAX_DUP)
    /\ sys_process_event(a)
    /\ answers' = IF again THEN answers ELSE answers \ {a}
    /\ dups' = IF again THEN dups + 1 ELSE dups
    /\ UNCHANGED <<device, next_id, queries, count, lost, panicked>>

\* The name server answers a query.
ServerAnswers(q) ==
    /\ q \in queries
    /\ queries' = queries \ {q} /\ answers' = answers \cup {[id |-> q.id, addr |-> AddrOf(q.name)]}
    /\ UNCHANGED <<device, requests, next_id, asking, answer, count, lost, dups, panicked>>

Lose ==
    /\ lost < MAX_LOSS /\ lost' = lost + 1
    /\ \/ \E q \in queries : queries' = queries \ {q} /\ UNCHANGED answers
       \/ \E a \in answers : answers' = answers \ {a} /\ UNCHANGED queries
    /\ UNCHANGED <<device, requests, next_id, asking, answer, count, dups, panicked>>

Next ==
    \/ NextDevice \/ Lose
    \/ \E t \in Tasks, name \in Names : Resolve(t, name)
    \/ \E q \in queries : ServerAnswers(q)
    \/ \E a \in answers, again \in BOOLEAN : dns_receive(a, again)

Spec == Init /\ [][Next]_vars

-----------------------------------------------------------------------------
\* The requests that wait are those of the tasks that wait, one for each.
Waiting ==
    /\ {requests[i].task : i \in DOMAIN requests} = {t \in Tasks : asking[t] # Nothing}
    /\ \A i, j \in DOMAIN requests : requests[i].task = requests[j].task => i = j

\* A task gets the address of the name it has asked for, however the answers are
\* delayed, reordered or doubled.
RightAnswer == \A t \in Tasks : answer[t].addr = answer[t].name

\* Questions and answers match.
AnswersRight == Waiting /\ RightAnswer
=============================================================================
