-------------------------------- MODULE Async --------------------------------
(***************************************************************************)
(* Asynchronous messages (libs/resea/async.c): a server keeps the messages *)
(* it owes its clients in a hash table of queues and sets NOTIFY_ASYNC; a  *)
(* client that sees the notification pulls one message with ASYNC_MSG.     *)
(* The notification is one bit, so several sends may be seen as one: it is *)
(* async_reply that keeps count.                                           *)
(*                                                                         *)
(* The server and its clients are the main loops of docs/userspace/        *)
(* async-message-passing.md; a client has one server it pulls from.        *)
(***************************************************************************)
EXTENDS Integers, FiniteSets, Lists

CONSTANTS
    NUM_BUCKETS,
    Dsts,       \* the clients' task IDs
    MAX_SENT    \* bound on the messages sent to one client

ASSUME AsyncAssumption ==
    NUM_BUCKETS \in Nat \ {0} /\ Dsts \subseteq Nat /\ MAX_SENT \in Nat

Msgs == 1..MAX_SENT

VARIABLES
    queues,     \* the hash table: index -> sequence of [dst, m]
    notified,   \* the clients whose NOTIFY_ASYNC bit is set
    state,      \* what a client does: "recv", or "pull" in async_recv, or
                \* "stuck" in an async_recv that the server did not answer
    sent,       \* the number of messages sent to a client so far
    last        \* the message a client has received last

vars == <<queues, notified, state, sent, last>>

NoMsg == 0

Init ==
    /\ queues = [i \in 0..(NUM_BUCKETS - 1) |-> <<>>]
    /\ notified = {}
    /\ state = [d \in Dsts |-> "recv"]
    /\ sent = [d \in Dsts |-> 0]
    /\ last = [d \in Dsts |-> NoMsg]

Index(d) == d % NUM_BUCKETS
get_queue(d) == queues[Index(d)]

\* The positions of d's messages in its bucket, and the messages.
For(d) == {i \in DOMAIN get_queue(d) : get_queue(d)[i].dst = d}
Pending(d) ==
    LET mine == SelectSeq(get_queue(d), LAMBDA am : am.dst = d)
    IN  [i \in DOMAIN mine |-> mine[i].m]

\* The server sends d its next message.
async_send(d) ==
    /\ sent[d] < MAX_SENT
    /\ sent' = [sent EXCEPT ![d] = @ + 1]
    /\ queues' = [queues EXCEPT ![Index(d)] = Append(@, [dst |-> d, m |-> sent[d] + 1])]
    /\ notified' = notified \cup {d}
    /\ UNCHANGED <<state, last>>

\* The client's ipc_recv(IPC_ANY) returns the notification and the client
\* calls async_recv: its request is on the way to the server.
async_recv(d) ==
    /\ state[d] = "recv" /\ d \in notified
    /\ notified' = notified \ {d}
    /\ state' = [state EXCEPT ![d] = "pull"]
    /\ UNCHANGED <<queues, sent, last>>

\* Mutant of Found: the loop stops at the first message of the bucket.
Found_head(d) ==
    LET i == 1
        am == get_queue(d)[i]
    IN  /\ queues' = [queues EXCEPT ![Index(d)] = Unlink(@, i)]
        /\ last' = [last EXCEPT ![d] = am.m]
        /\ notified' = IF For(d) = {i} THEN notified ELSE notified \cup {d}
        /\ state' = [state EXCEPT ![d] = "recv"]

\* The loop of async_reply: the first message of d's is sent and removed, any
\* other one makes it notify d again.
Found(d) ==
    LET i == Min(For(d))
        am == get_queue(d)[i]
    IN  /\ queues' = [queues EXCEPT ![Index(d)] = Unlink(@, i)]
        /\ last' = [last EXCEPT ![d] = am.m]
        /\ notified' = IF For(d) = {i} THEN notified ELSE notified \cup {d}
        /\ state' = [state EXCEPT ![d] = "recv"]

\* ERR_NOT_FOUND: the servers ignore it, and the client stays in ipc_call.
NotFound(d) ==
    /\ state' = [state EXCEPT ![d] = "stuck"]
    /\ UNCHANGED <<queues, notified, last>>

\* The server handles ASYNC_MSG from d.
async_reply(d) ==
    /\ state[d] = "pull"
    /\ IF For(d) = {} THEN NotFound(d) ELSE Found(d)
    /\ UNCHANGED sent

\* Every message that may be sent has been: the servers wait for ever.
Done ==
    /\ \A d \in Dsts : sent[d] = MAX_SENT /\ state[d] = "recv" /\ d \notin notified
    /\ UNCHANGED vars

Next == (\E d \in Dsts : async_send(d) \/ async_recv(d) \/ async_reply(d)) \/ Done

\* The kernel runs every runnable task, so a client takes its notification and
\* the server answers a request that it has received.
Fairness == \A d \in Dsts : WF_vars(async_recv(d)) /\ WF_vars(async_reply(d))

Spec == Init /\ [][Next]_vars /\ Fairness

-----------------------------------------------------------------------------
(***************************************************************************)
(* Properties.                                                             *)
(***************************************************************************)
\* Asynchronous messages are a mailbox per client: in order, none lost, none
\* twice, each eventually delivered, although clients share a bucket and
\* notifications merge.
mailbox == INSTANCE Mailbox WITH box <- [d \in Dsts |-> Pending(d)]

ImplementsMailbox == mailbox!Spec
=============================================================================
