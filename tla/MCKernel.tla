------------------------------ MODULE MCKernel ------------------------------
(***************************************************************************)
(* Kernel for TLC: the sets that a configuration file cannot write down.   *)
(***************************************************************************)
EXTENDS Kernel

\* ipc_send, ipc_recv, ipc_call of libs/resea.
BlockingCalls == {{"SEND"}, {"RECV"}, {"SEND", "RECV"}}
\* ipc_call, ipc_recv and ipc_reply.
PagerCalls == {{"SEND", "RECV"}, {"RECV"}, {"SEND", "NOBLOCK"}}
\* ipc_send and ipc_recv.
SendRecv == {{"SEND"}, {"RECV"}}
\* ipc_recv.
RecvOnly == {{"RECV"}}
\* ipc_recv and ipc_reply.
RecvReply == {{"RECV"}, {"SEND", "NOBLOCK"}}
\* The blocking calls and ipc_replyrecv.
AllCalls == BlockingCalls \cup {{"SEND", "RECV", "NOBLOCK"}}

\* States that differ only in values the kernel overwrites before it reads
\* them again are the same: src of a task that is not blocked, and the message
\* buffer of a task that has not been given a message to copy out.
Live ==
    LET received(t) == frame[t].pc = "recv_wake" /\ state[t] = "runnable"
    IN  <<state, notifications, senders, timeout, pager, ref_count, priority,
          caps, sched, irq_owners, stacks, owed,
          [t \in Tasks |-> IF state[t] = "blocked" THEN src[t] ELSE IPC_DENY],
          [t \in Tasks |-> IF received(t) THEN m[t] ELSE NoMessage]>>
=============================================================================
