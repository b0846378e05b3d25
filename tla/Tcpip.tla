-------------------------------- MODULE Tcpip --------------------------------
(***************************************************************************)
(* The sockets of the TCP/IP server (servers/tcpip/main.c, tcp.c) and the  *)
(* web server that uses them (servers/apps/webapi/main.c).  The web server *)
(* listens; remote hosts connect, send a request in a few segments, and    *)
(* perhaps close.  The TCP/IP server tells the web server by asynchronous  *)
(* messages (module Async), and the web server calls back: one step of the *)
(* model is one message that the TCP/IP server handles.                    *)
(***************************************************************************)
EXTENDS Integers, FiniteSets, SequencesExt

CONSTANTS
    TCP_SOCKETS_MAX,
    BACKLOG,        \* 16 in webapi
    Requests,       \* remote host -> its segments: "part", "end" (of a request) or "bad"
    FINS,           \* remote hosts close their side after the last segment
    EXITS,          \* the web server may exit, and is started again, once
    CONNECTS        \* the number of connections that another task opens

Hosts == DOMAIN Requests
Slots == 1..TCP_SOCKETS_MAX
NoClient == [task |-> 0, handle |-> 0]
NoHost == "none"
Server == "server"  \* the host that the other task connects to

VARIABLES
    socks,          \* the table of sockets
    handles,        \* handle -> slot, of the web server's present task
    task,           \* the web server's task: 1, then 2 if it was started again
    events,         \* asynchronous messages to it: [type, handle]
    app,            \* what it does: [pc, handle]
    clients,        \* its list of clients: handle -> [done, cut, seen]
    host,           \* remote host -> [state, sent, answered]
    stray,          \* a message was sent to a task that does not own the socket
    died            \* the TCP/IP server used a socket it could not allocate

vars == <<socks, handles, task, events, app, clients, host, stray, died>>

Unused == [in_use |-> FALSE, state |-> "CLOSED", port |-> 0, remote |-> NoHost,
           client |-> NoClient, listener |-> 0, backlog |-> <<>>, rx |-> <<>>]

\* The web server has made its socket: TCPIP_LISTEN_MSG.
Listening(t) ==
    [Unused EXCEPT !.in_use = TRUE, !.state = "LISTEN", !.port = 80,
                   !.client = [task |-> t, handle |-> 1]]

Init ==
    /\ socks = [s \in Slots |-> IF s = 1 THEN Listening(1) ELSE Unused]
    /\ handles = <<1>> /\ task = 1 /\ events = <<>> /\ clients = <<>>
    /\ app = [pc |-> "recv", handle |-> 0]
    /\ host = [h \in Hosts |-> [state |-> "new", sent |-> 0, answered |-> FALSE]]
    /\ stray = FALSE /\ died = FALSE

-----------------------------------------------------------------------------
\* tcp_new: a free slot.  `client' keeps the value it had.
Free == {s \in Slots : ~socks[s].in_use}

\* tcp_lookup: the socket of the connection, or one that listens.
tcp_lookup(h) ==
    LET own == {s \in Slots : socks[s].in_use /\ socks[s].remote = h}
        local == {s \in Slots : socks[s].in_use /\ socks[s].state = "LISTEN"}
    IN  IF own # {} THEN own ELSE local

\* sys_process_event: async_send to the task of the client, if there is one.
sys_process_event(type, c) ==
    IF c = NoClient THEN UNCHANGED <<events, stray>>
    ELSE IF c.task = task THEN events' = Append(events, [type |-> type, handle |-> c.handle]) /\ UNCHANGED stray
    ELSE stray' = TRUE /\ UNCHANGED events

\* A SYN for a socket that listens.  tcp_process uses what tcp_new returns.
Syn(h) ==
    \E s \in tcp_lookup(h) :
        /\ host[h].state = "new" /\ socks[s].state = "LISTEN"
        /\ Len(socks[s].backlog) < BACKLOG
        /\ IF Free = {} THEN died' = TRUE /\ UNCHANGED <<socks, host>>
           ELSE LET n == Min(Free)
                IN  /\ socks' = [socks EXCEPT
                          ![n] = [Unused EXCEPT !.in_use = TRUE, !.state = "SYN_RECVED", !.port = 80,
                                    !.remote = h, !.listener = s, !.client = socks[n].client],
                          ![s].backlog = Append(@, n)]
                    /\ host' = [host EXCEPT ![h].state = "syn"] /\ UNCHANGED died
        /\ UNCHANGED <<handles, task, events, app, clients, stray>>

\* The ACK that ends the handshake: TCP_NEW_CLIENT to the client of listen_sock.
Ack(h) ==
    \E s \in tcp_lookup(h) :
        /\ host[h].state = "syn" /\ socks[s].state = "SYN_RECVED"
        /\ socks' = [socks EXCEPT ![s].state = "ESTABLISHED"]
        /\ host' = [host EXCEPT ![h].state = "open"]
        /\ sys_process_event("NEW_CLIENT", socks[socks[s].listener].client)
        /\ UNCHANGED <<handles, task, app, clients, died>>

\* A segment: TCP_RECEIVED, unless the connection was `not yet accepted'.
Data(h) ==
    \E s \in tcp_lookup(h) :
        /\ host[h].state = "open" /\ socks[s].state = "ESTABLISHED" /\ host[h].sent < Len(Requests[h])
        /\ socks' = [socks EXCEPT ![s].rx = Append(@, Requests[h][host[h].sent + 1])]
        /\ host' = [host EXCEPT ![h].sent = @ + 1]
        /\ sys_process_event("RECEIVED", socks[s].client)
        /\ UNCHANGED <<handles, task, app, clients, died>>

\* The host closes: CLOSE_WAIT, LAST_ACK, CLOSED.  Nobody is told.
Fin(h) ==
    \E s \in tcp_lookup(h) :
        /\ FINS /\ host[h].state = "open" /\ socks[s].state = "ESTABLISHED"
        /\ host[h].sent = Len(Requests[h])
        /\ socks' = [socks EXCEPT ![s].state = "CLOSED"]
        /\ host' = [host EXCEPT ![h].state = "closed"]
        /\ UNCHANGED <<handles, task, events, app, clients, stray, died>>

-----------------------------------------------------------------------------
(***************************************************************************)
(* The web server.                                                         *)
(***************************************************************************)
Goto(pc, h) == app' = [pc |-> pc, handle |-> h]

\* NOTIFY_ASYNC: the next message, or the end of the task if the client it is
\* about is not in the list (`ASSERT(client != NULL)').
Event ==
    /\ app.pc = "recv" /\ events # <<>> /\ events' = Tail(events)
    /\ LET e == Head(events)
       IN  IF e.type = "NEW_CLIENT" THEN Goto("accept", e.handle)
           ELSE IF e.handle \in DOMAIN clients THEN Goto("read", e.handle) ELSE Goto("dead", e.handle)
    /\ UNCHANGED <<socks, handles, task, clients, host, stray, died>>

NewClient == [done |-> FALSE, cut |-> FALSE, seen |-> FALSE]

\* The head of the backlog, or 0 if there is none or it is not ESTABLISHED: then
\* it goes to the end.
tcp_accept(queue) ==
    IF queue = <<>> THEN [sock |-> 0, backlog |-> queue]
    ELSE IF socks[Head(queue)].state # "ESTABLISHED"
    THEN [sock |-> 0, backlog |-> Append(Tail(queue), Head(queue))]
    ELSE [sock |-> Head(queue), backlog |-> Tail(queue)]

\* Mutant of Accept: the client gets the handle of the socket that listens.
Accept_handle ==
    /\ app.pc = "accept"
    /\ LET l == handles[app.handle]
           r == tcp_accept(socks[l].backlog)
           h == Len(handles) + 1
       IN  IF r.sock = 0
           THEN /\ socks' = [socks EXCEPT ![l].backlog = r.backlog]
                /\ Goto("dead", app.handle) /\ UNCHANGED <<handles, clients>>
           ELSE /\ socks' = [socks EXCEPT ![l].backlog = r.backlog,
                                          ![r.sock].client = [task |-> task, handle |-> app.handle]]
                /\ handles' = Append(handles, r.sock)
                /\ clients' = [c \in DOMAIN clients \cup {h} |->
                                   IF c = h THEN NewClient ELSE clients[c]]
                /\ Goto("read", h)
    /\ UNCHANGED <<task, events, host, stray, died>>

\* TCPIP_ACCEPT_MSG; the web server asserts that it succeeds, and then reads what
\* has come so far.
Accept ==
    /\ app.pc = "accept"
    /\ LET l == handles[app.handle]
           r == tcp_accept(socks[l].backlog)
           h == Len(handles) + 1
       IN  IF r.sock = 0
           THEN /\ socks' = [socks EXCEPT ![l].backlog = r.backlog]
                /\ Goto("dead", app.handle) /\ UNCHANGED <<handles, clients>>
           ELSE /\ socks' = [socks EXCEPT ![l].backlog = r.backlog,
                                          ![r.sock].client = [task |-> task, handle |-> h]]
                /\ handles' = Append(handles, r.sock)
                /\ clients' = [c \in DOMAIN clients \cup {h} |->
                                   IF c = h THEN NewClient ELSE clients[c]]
                /\ Goto("read", h)
    /\ UNCHANGED <<task, events, host, stray, died>>

\* process: what was read is appended to the request, and one byte that is not
\* written, which may end the string there (nul).  Returns where to go.
Complete(c, data) == c.seen \/ (~c.cut /\ ToSet(data) \cap {"end", "bad"} # {})

process(c, data, nul) ==
    IF c.done THEN [client |-> c, pc |-> "recv"]
    ELSE IF ~Complete(c, data) THEN [client |-> [c EXCEPT !.cut = @ \/ nul], pc |-> "recv"]
    ELSE IF "bad" \in ToSet(data) THEN [client |-> [c EXCEPT !.seen = TRUE], pc |-> "close"]
    ELSE [client |-> [c EXCEPT !.seen = TRUE, !.done = TRUE], pc |-> "write"]

\* TCPIP_READ_MSG: all that is in the receive buffer, also if that is nothing.
ReadReply(h) == socks[handles[h]].rx

\* tcp_read of the web server.
Read(nul) ==
    /\ app.pc = "read"
    /\ LET s == handles[app.handle]
           r == process(clients[app.handle], ReadReply(app.handle), nul)
       IN  /\ socks' = [socks EXCEPT ![s].rx = <<>>]
           /\ clients' = [clients EXCEPT ![app.handle] = r.client]
           /\ Goto(r.pc, app.handle)
    /\ UNCHANGED <<handles, task, events, host, stray, died>>

\* write_response: TCPIP_WRITE_MSG.
Write ==
    /\ app.pc = "write" /\ Goto("recv", 0)
    /\ LET h == socks[handles[app.handle]].remote
       IN  host' = IF h \in Hosts THEN [host EXCEPT ![h].answered = TRUE] ELSE host
    /\ UNCHANGED <<socks, handles, task, events, clients, stray, died>>

\* TCPIP_CLOSE_MSG: tcp_close, and no reply.
Close ==
    /\ app.pc = "close" /\ Goto("stuck", app.handle)
    /\ socks' = [socks EXCEPT ![handles[app.handle]].in_use = FALSE]
    /\ UNCHANGED <<handles, task, events, clients, host, stray, died>>

\* The web server exits: TASK_EXITED_MSG, handle_free_all, free_handle.  The
\* sockets in a backlog have no handle.
Exit ==
    /\ EXITS /\ task = 1 /\ app.pc = "recv" /\ Goto("exited", 0)
    /\ socks' = [s \in Slots |-> IF s \in ToSet(handles) THEN [socks[s] EXCEPT !.in_use = FALSE]
                                 ELSE socks[s]]
    /\ handles' = <<>> /\ clients' = <<>> /\ events' = <<>> /\ task' = 2
    /\ UNCHANGED <<host, stray, died>>

\* It is started again.
Restart ==
    /\ app.pc = "exited" /\ Free # {} /\ Goto("recv", 0)
    /\ socks' = [socks EXCEPT ![Min(Free)] = Listening(task)]
    /\ handles' = <<Min(Free)>>
    /\ UNCHANGED <<task, events, clients, host, stray, died>>

\* TCPIP_CONNECT_MSG of another task: the first port from 1000 on that no socket
\* without a remote host is bound to (tcp_lookup_local).
Connected == {s \in Slots : socks[s].in_use /\ socks[s].remote = Server}

Connect ==
    /\ Cardinality(Connected) < CONNECTS /\ Free # {}
    /\ LET bound == {socks[s].port : s \in {r \in Slots : socks[r].in_use /\ socks[r].remote = NoHost}}
           port == CHOOSE p \in 1000..(1000 + CONNECTS) :
                      p \notin bound /\ \A q \in 1000..(p - 1) : q \in bound
       IN  socks' = [socks EXCEPT ![Min(Free)] =
                [Unused EXCEPT !.in_use = TRUE, !.state = "SYN_SENT", !.port = port, !.remote = Server]]
    /\ UNCHANGED <<handles, task, events, app, clients, host, stray, died>>

Next ==
    \/ \E h \in Hosts : Syn(h) \/ Ack(h) \/ Data(h) \/ Fin(h)
    \/ Event \/ Accept \/ Write \/ Close \/ Exit \/ Restart \/ Connect
    \/ \E nul \in BOOLEAN : Read(nul)

Spec == Init /\ [][Next]_vars

-----------------------------------------------------------------------------

\* A connection is announced once: for each socket that is ESTABLISHED and waits
\* in the backlog there is a message, or the web server is about to accept.
AnnouncedOnce ==
    app.pc \notin {"exited", "dead", "stuck"} =>
        Cardinality({s \in ToSet(socks[handles[1]].backlog) : socks[s].state = "ESTABLISHED"})
          = Cardinality({i \in DOMAIN events : events[i].type = "NEW_CLIENT"})
            + (IF app.pc = "accept" THEN 1 ELSE 0)

\* Different handles of a task stand for different sockets, and each of these
\* knows its handle.
HandlesOwn ==
    app.pc # "stuck" => \A h \in DOMAIN handles :
        socks[handles[h]].in_use /\ socks[handles[h]].client = [task |-> task, handle |-> h]

=============================================================================
