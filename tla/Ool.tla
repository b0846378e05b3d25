--------------------------------- MODULE Ool ---------------------------------
(***************************************************************************)
(* Out-of-line payloads: the wrappers of libs/resea/ipc.c around sys_ipc,  *)
(* and the vm server that copies payloads between tasks (servers/vm/ool.c  *)
(* and its cases in servers/vm/main.c).                                    *)
(*                                                                         *)
(* A task that wants to receive registers a buffer (ool.recv); a sender    *)
(* asks vm to copy its payload into the receiver's buffer (ool.send), then *)
(* sends the message; the receiver asks vm whether the payload is genuine  *)
(* (ool.verify).  vm handles one message at a time and its replies do not  *)
(* block, so each of its handlers is one step.  vm receives payloads too:  *)
(* it registers its own buffer by a function call before each receive.     *)
(*                                                                         *)
(* Programs: a task that is not a server calls servers; a server receives  *)
(* a request, may call another server, replies, and receives again.  A     *)
(* payload is a value; all payloads have one length, which fits.           *)
(***************************************************************************)
EXTENDS Integers, FiniteSets, Lists

CONSTANTS
    Tasks,      \* all tasks but vm
    VM,         \* vm's task ID
    Calls,      \* <<c, s>>: c calls s
    Sends,      \* <<c, s>>: c sends s one-way messages
    OolTo,      \* <<t, u>>: the messages t sends to u carry a payload
    Bufs,       \* the addresses malloc() returns
    Payloads,
    Mortal,     \* the tasks that may exit
    Faulting    \* the tasks whose pages vm may be unable to allocate

NULL == 0
ANY == -1
All == Tasks \cup {VM}
Servers == {s \in Tasks : \E c \in Tasks : <<c, s>> \in Calls \cup Sends}

VARIABLES
    \* vm: struct task
    in_use, ool_buf, received_ool, ool_sender_queue,
    \* libresea: ool_ptr of each task, and the contents of the buffers
    ool_ptr, mem,
    \* what each task is doing (`pc'), the operation it is in, the message it
    \* has received, the client it is serving, whether it has called since
    pc, op, msg, client, called,
    vm_panic    \* an assertion of vm has failed

vmvars == <<in_use, ool_buf, received_ool, ool_sender_queue, vm_panic>>
taskvars == <<op, msg, client, called>>
vars == <<vmvars, ool_ptr, mem, pc, taskvars>>

Ops == [kind : {"none", "call", "send", "reply", "recv"}, peer : All \cup {NULL, ANY},
        ool : BOOLEAN, payload : Payloads \cup {NULL}, id : Bufs \cup {NULL}]
NoOp == [kind |-> "none", peer |-> NULL, ool |-> FALSE, payload |-> NULL, id |-> NULL]
NotReceived == [from |-> NULL, buf |-> NULL]

\* vm waits in its main loop, its buffer registered.
Init ==
    /\ in_use = [t \in All |-> TRUE]
    /\ \E b \in Bufs : /\ ool_buf = [t \in All |-> IF t = VM THEN b ELSE NULL]
                       /\ ool_ptr = [t \in All |-> IF t = VM THEN b ELSE NULL]
    /\ received_ool = [t \in All |-> NotReceived]
    /\ ool_sender_queue = [t \in All |-> <<>>]
    /\ mem = [t \in All |-> [b \in Bufs |-> NULL]]
    /\ pc = [t \in Tasks |-> "idle"]
    /\ op = [t \in Tasks |-> NoOp] /\ msg = [t \in Tasks |-> NoOp]
    /\ client = [t \in Tasks |-> NULL] /\ called = [t \in Tasks |-> FALSE]
    /\ vm_panic = FALSE

-----------------------------------------------------------------------------
(***************************************************************************)
(* libs/resea/ipc.c.                                                       *)
(***************************************************************************)
Op(kind, t, u, p) ==
    [kind |-> kind, peer |-> u, ool |-> <<t, u>> \in OolTo /\ kind # "recv",
     payload |-> IF <<t, u>> \in OolTo /\ kind # "recv" THEN p ELSE NULL, id |-> NULL]

\* Where a task is once its receive buffer is registered: at pre_send's call
\* of ool_send, in sys_ipc with something to send, or receiving.
Registered(o) == IF o.kind = "recv" THEN "recv" ELSE IF o.ool THEN "copy" ELSE "send"

\* pre_recv runs in ipc_recv and ipc_call, and so in ool_send's call of vm.
NeedsBuffer(o) == o.kind \in {"call", "recv"} \/ o.ool

\* pre_recv: if there is no buffer, allocate one and call ool_recv.
pre_recv(t, o) ==
    \E b \in Bufs :
        IF ool_ptr[t] = NULL /\ NeedsBuffer(o)
        THEN ool_ptr' = [ool_ptr EXCEPT ![t] = b] /\ pc' = [pc EXCEPT ![t] = "reg"]
        ELSE UNCHANGED ool_ptr /\ pc' = [pc EXCEPT ![t] = Registered(o)]

\* Task t enters an ipc_* function.
Enter(t, o) ==
    /\ op' = [op EXCEPT ![t] = o]
    /\ pre_recv(t, o)
    /\ UNCHANGED <<vmvars, mem, msg>>

ipc_call(t, s) ==
    /\ \/ pc[t] = "idle" /\ t \notin Servers
       \/ pc[t] = "serve" /\ ~called[t]
    /\ <<t, s>> \in Calls
    /\ \E p \in Payloads : Enter(t, Op("call", t, s, p))
    /\ called' = [called EXCEPT ![t] = TRUE]
    /\ UNCHANGED client

ipc_send(t, s) ==
    /\ pc[t] = "idle" /\ t \notin Servers
    /\ <<t, s>> \in Sends
    /\ \E p \in Payloads : Enter(t, Op("send", t, s, p))
    /\ UNCHANGED <<client, called>>

ipc_reply(t) ==
    /\ pc[t] = "serve"
    /\ \E p \in Payloads : Enter(t, Op("reply", t, client[t], p))
    /\ UNCHANGED <<client, called>>

ipc_recv(t) ==
    /\ pc[t] = "idle" /\ t \in Servers
    /\ Enter(t, Op("recv", t, ANY, NULL))
    /\ called' = [called EXCEPT ![t] = FALSE]
    /\ UNCHANGED client

\* Where t continues when the operation o returns.
Return(t, o) ==
    IF \/ o.kind = "recv" /\ msg'[t].kind = "call"
       \/ o.kind = "call" /\ client[t] # NULL
    THEN "serve" ELSE "idle"

\* The client t serves when the operation o has returned.
ClientAfter(t, o) ==
    CASE o.kind = "recv" /\ msg'[t].kind = "call" -> msg'[t].peer
      [] o.kind = "reply" -> NULL
      [] OTHER -> client[t]

\* sys_ipc (kernel/ipc.c): the message of s meets the receive of d.  The
\* message carries its sender in `peer'.
Ready(s, d) ==
    /\ pc[d] = "recv"
    /\ op[d].kind = "recv" \/ op[d].peer = s

Deliver(s, d) ==
    /\ pc[s] = "send" /\ op[s].peer = d /\ Ready(s, d)
    /\ msg' = [msg EXCEPT ![d] = [op[s] EXCEPT !.peer = s]]
    /\ pc' = [pc EXCEPT ![s] = IF op[s].kind = "call" THEN "recv" ELSE "idle",
                        ![d] = IF op[s].ool THEN "verify" ELSE Return(d, op[d])]
    /\ client' = [client EXCEPT ![s] = ClientAfter(s, op[s]),
                                ![d] = IF op[s].ool THEN @ ELSE ClientAfter(d, op[d])]
    /\ UNCHANGED <<vmvars, ool_ptr, mem, op, called>>

\* A reply does not wait: IPC_NOBLOCK fails if the client is not receiving.
\* A send to a task that has exited fails.
SendFails(s) ==
    /\ pc[s] = "send" /\ op[s].peer # VM
    /\ \/ op[s].kind = "reply" /\ ~Ready(s, op[s].peer)
       \/ ~in_use[op[s].peer]
    /\ pc' = [pc EXCEPT ![s] = IF op[s].kind = "call" /\ client[s] # NULL
                               THEN "serve" ELSE "idle"]
    /\ client' = [client EXCEPT ![s] = IF op[s].kind = "reply" THEN NULL ELSE @]
    /\ UNCHANGED <<vmvars, ool_ptr, mem, op, msg, called>>

\* A server or an application exits: vm's EXCEPTION_MSG case kills it.
Exit(t) ==
    /\ t \in Mortal /\ pc[t] \in {"idle", "serve"} /\ ~vm_panic
    /\ pc' = [pc EXCEPT ![t] = "dead"]
    /\ in_use' = [in_use EXCEPT ![t] = FALSE]
    /\ UNCHANGED <<ool_buf, received_ool, ool_sender_queue, vm_panic, ool_ptr, mem, taskvars>>

-----------------------------------------------------------------------------
(***************************************************************************)
(* servers/vm: ool.c and main.c.                                           *)
(***************************************************************************)
\* vm is in ipc_recv, its own buffer registered.
VmReady == ~vm_panic /\ ool_ptr[VM] # NULL

\* What vaddr2paddr may find while s's payload is copied into d's buffer.
CopyOutcomes(s, d) ==
    {"ok"} \cup (IF s \in Faulting THEN {"src"} ELSE {})
           \cup (IF d \in Faulting THEN {"dst"} ELSE {})

\* Mutant of Copied: the buffer stays registered after the copy.
Copied_twice(s, d, b) ==
    /\ received_ool' = [received_ool EXCEPT ![d] = [from |-> s, buf |-> b]]
    /\ ool_buf' = [ool_buf EXCEPT ![d] = b]
    /\ mem' = [mem EXCEPT ![d][b] = op[s].payload]
    /\ op' = [op EXCEPT ![s].id = b]

\* The end of handle_ool_send: s's payload is in d's buffer b.
Copied(s, d, b) ==
    /\ received_ool' = [received_ool EXCEPT ![d] = [from |-> s, buf |-> b]]
    /\ ool_buf' = [ool_buf EXCEPT ![d] = NULL]
    /\ mem' = [mem EXCEPT ![d][b] = op[s].payload]
    /\ op' = [op EXCEPT ![s].id = b]

\* pc once s's payload has been copied to d or has not: an error makes the
\* sender's ASSERT_OK fail, and task_kill destroys the task that lacks a page.
After(o, s, d) ==
    [t \in Tasks |->
        IF t = s THEN [ok |-> "send", src |-> "dead", dst |-> "panic"][o]
        ELSE IF t = d /\ o = "dst" THEN "dead"
        ELSE IF t = d /\ pc[d] = "reg" THEN Registered(op[d]) ELSE pc[t]]

\* handle_ool_send from `size_t len' on: d's buffer is b.
Copy(s, d, b) ==
    \E o \in CopyOutcomes(s, d) :
        /\ IF o = "ok" THEN Copied(s, d, b)
           ELSE /\ ool_buf' = [ool_buf EXCEPT ![d] = b]
                /\ UNCHANGED <<received_ool, mem, op>>
        /\ in_use' = [t \in All |-> IF <<t, o>> \in {<<s, "src">>, <<d, "dst">>}
                                    THEN FALSE ELSE in_use[t]]
        /\ pc' = After(o, s, d)

\* task_lookup asserts that the task is in use.
task_lookup_fails ==
    /\ vm_panic' = TRUE
    /\ UNCHANGED <<in_use, ool_buf, received_ool, ool_sender_queue, mem, pc, op>>

\* OOL_SEND_MSG from s: d has no buffer (s waits for its next ool.recv), or
\* has one.
handle_ool_send(s) ==
    LET d == op[s].peer
    IN  /\ VmReady /\ pc[s] = "copy" /\ s \notin Range(ool_sender_queue[d])
        /\ IF ~in_use[d] THEN task_lookup_fails
           ELSE IF ool_buf[d] = NULL
           THEN /\ ool_sender_queue' = [ool_sender_queue EXCEPT ![d] = Append(@, s)]
                /\ UNCHANGED <<in_use, ool_buf, received_ool, vm_panic, mem, pc, op>>
           ELSE Copy(s, d, ool_buf[d]) /\ UNCHANGED <<ool_sender_queue, vm_panic>>
        /\ UNCHANGED <<ool_ptr, msg, client, called>>

\* Mutant of Register: the last sender is served first.
Register_lifo(d, b) ==
    IF ool_sender_queue[d] = <<>>
    THEN /\ ool_buf' = [ool_buf EXCEPT ![d] = b]
         /\ pc' = [t \in Tasks |-> IF t = d THEN Registered(op[d]) ELSE pc[t]]
         /\ UNCHANGED <<in_use, received_ool, ool_sender_queue, vm_panic, mem, op>>
    ELSE IF ~in_use[ool_sender_queue[d][Len(ool_sender_queue[d])]] THEN task_lookup_fails
    ELSE /\ ool_sender_queue' = [ool_sender_queue EXCEPT ![d] = SubSeq(@, 1, Len(@) - 1)]
         /\ Copy(ool_sender_queue[d][Len(ool_sender_queue[d])], d, b)
         /\ UNCHANGED vm_panic

\* handle_ool_recv past its early return: the first waiting sender is served.
Register(d, b) ==
    IF ool_sender_queue[d] = <<>>
    THEN /\ ool_buf' = [ool_buf EXCEPT ![d] = b]
         /\ pc' = [t \in Tasks |-> IF t = d THEN Registered(op[d]) ELSE pc[t]]
         /\ UNCHANGED <<in_use, received_ool, ool_sender_queue, vm_panic, mem, op>>
    ELSE IF ~in_use[Head(ool_sender_queue[d])] THEN task_lookup_fails
    ELSE /\ ool_sender_queue' = [ool_sender_queue EXCEPT ![d] = Tail(@)]
         /\ Copy(Head(ool_sender_queue[d]), d, b)
         /\ UNCHANGED vm_panic

\* OOL_RECV_MSG from d; the error fails the ASSERT_OK of ool_recv.
handle_ool_recv(d) ==
    /\ VmReady /\ pc[d] = "reg"
    /\ IF ool_buf[d] # NULL
       THEN pc' = [pc EXCEPT ![d] = "panic"] /\ UNCHANGED <<vmvars, mem, op>>
       ELSE Register(d, ool_ptr[d])
    /\ UNCHANGED <<ool_ptr, msg, client, called>>

Genuine(t, m) == received_ool[t] = [from |-> m.peer, buf |-> m.id]

\* The payload is the task's now: the next receive needs another buffer.
Claimed(t) ==
    /\ received_ool' = [received_ool EXCEPT ![t] = NotReceived]
    /\ ool_ptr' = [ool_ptr EXCEPT ![t] = NULL]

\* OOL_VERIFY_MSG from d, and post_recv after it: INVALID_MSG on failure.
handle_ool_verify(d) ==
    /\ VmReady /\ pc[d] = "verify"
    /\ UNCHANGED msg
    /\ IF Genuine(d, msg[d])
       THEN /\ Claimed(d)
            /\ pc' = [pc EXCEPT ![d] = Return(d, op[d])]
            /\ client' = [client EXCEPT ![d] = ClientAfter(d, op[d])]
       ELSE /\ pc' = [pc EXCEPT ![d] = IF client[d] = NULL THEN "idle" ELSE "serve"]
            /\ UNCHANGED <<received_ool, ool_ptr, client>>
    /\ UNCHANGED <<in_use, ool_buf, ool_sender_queue, vm_panic, mem, op, called>>

\* vm receives a request that carries a payload (discovery.serve and the
\* like), verifies it by a function call and replies.
VmServes(c) ==
    /\ VmReady /\ pc[c] = "send" /\ op[c].peer = VM
    /\ msg' = [msg EXCEPT ![c] = NoOp]
    /\ IF ~op[c].ool THEN UNCHANGED <<received_ool, ool_ptr, vm_panic>>
       ELSE IF Genuine(VM, [op[c] EXCEPT !.peer = c]) THEN Claimed(VM) /\ UNCHANGED vm_panic
       ELSE vm_panic' = TRUE /\ UNCHANGED <<received_ool, ool_ptr>>
    /\ pc' = [pc EXCEPT ![c] = Return(c, op[c])]
    /\ UNCHANGED <<in_use, ool_buf, ool_sender_queue, mem, op, client, called>>

\* The pre_recv of vm's main loop.
VmRegisters ==
    /\ ~vm_panic /\ ool_ptr[VM] = NULL
    /\ \E b \in Bufs : ool_ptr' = [ool_ptr EXCEPT ![VM] = b] /\ Register(VM, b)
    /\ UNCHANGED <<msg, client, called>>

-----------------------------------------------------------------------------
TaskStep(t) ==
    \/ ipc_reply(t) \/ ipc_recv(t) \/ SendFails(t)
    \/ \E u \in Tasks : Deliver(t, u)

VmStep(t) ==
    handle_ool_send(t) \/ handle_ool_recv(t) \/ handle_ool_verify(t) \/ VmServes(t)

Next ==
    \/ VmRegisters
    \/ \E t \in Tasks :
         \/ TaskStep(t) \/ VmStep(t) \/ Exit(t)
         \/ \E s \in All : ipc_call(t, s) \/ ipc_send(t, s)

Spec == Init /\ [][Next]_vars

-----------------------------------------------------------------------------
(***************************************************************************)
(* Properties.                                                             *)
(***************************************************************************)
\* A payload in a buffer is never overwritten or mixed up before its receiver
\* has claimed it: from the copy until ool_verify, the sender's message names
\* the buffer that holds the sender's payload, whatever other senders do.
PayloadIntact ==
    /\ \A s \in Tasks : pc[s] = "send" /\ op[s].ool /\ in_use[op[s].peer] =>
          LET d == op[s].peer
          IN  /\ received_ool[d] = [from |-> s, buf |-> op[s].id]
              /\ mem[d][op[s].id] = op[s].payload
    /\ \A d \in Tasks : pc[d] = "verify" =>
          /\ Genuine(d, msg[d])
          /\ mem[d][msg[d].id] = msg[d].payload

\* vm's idea of a receive buffer and the library's agree: a registered or a
\* filled buffer is the one in ool_ptr, never both, so that ool_recv never
\* finds a buffer already registered and no sender writes to freed memory.
BufferOwned ==
    \A t \in All : in_use[t] =>
        /\ ool_buf[t] \in {NULL, ool_ptr[t]}
        /\ received_ool[t].buf \in {NULL, ool_ptr[t]}
        /\ ool_buf[t] = NULL \/ received_ool[t] = NotReceived
        /\ t \in Tasks => pc[t] # "panic"

\* A sender waits in vm's queue only while the receiver's buffer is taken.
QueuedSendersWait ==
    \A d \in All : \A s \in Range(ool_sender_queue[d]) :
        in_use[d] => ool_buf[d] = NULL /\ pc[s] = "copy" /\ op[s].peer = d

\* No assertion of vm fails: every task it looks up is in use
\* (`ASSERT(task->in_use)' in task_lookup), every payload sent to it is
\* genuine.
VmLives == ~vm_panic

\* "If the client calls the server with ipc_call, these APIs should success"
\* (docs/userspace/ipc.md on ipc_reply): a server never has to wait until a
\* client, which itself waits for the reply, gets a new receive buffer.
ReplyNeverWaits ==
    \A s \in Tasks :
        ~(/\ op[s].kind = "reply" /\ s \in Range(ool_sender_queue[op[s].peer])
          /\ pc[op[s].peer] = "recv" /\ op[op[s].peer].peer = s)

\* The four together: from ipc_send to ool_verify a payload has one buffer, and
\* vm, the library, senders and receivers agree on whose it is.
BuffersRight == PayloadIntact /\ BufferOwned /\ QueuedSendersWait /\ VmLives

\* A task is in ipc_send with a payload, and is out of it.
InCall(t) == pc[t] \in {"copy", "send"}
OutOfCall(t) == pc[t] \in {"idle", "serve"}
=============================================================================
