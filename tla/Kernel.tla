------------------------------- MODULE Kernel -------------------------------
(***************************************************************************)
(* The Resea microkernel: tasks, the scheduler, synchronous message        *)
(* passing, notifications, page faults and interrupts (kernel/task.c,      *)
(* kernel/ipc.c, kernel/syscall.c).                                        *)
(*                                                                         *)
(* The kernel is not preemptible and runs on one CPU under the big lock,   *)
(* so tasks interleave in two places only: where the code calls            *)
(* task_switch(), and where a copy from or to user memory page faults and  *)
(* the fault handler itself does an IPC to the pager.  An action is the    *)
(* code between two such places.  What a task that is inside the kernel    *)
(* still has to do is its `frame': pc says where it stopped.  A page fault *)
(* taken inside a system call parks the interrupted frame in `saved'.      *)
(*                                                                         *)
(* User programs are unconstrained: in user mode a task may issue any      *)
(* system call with any arguments from the sets below (only a receive from *)
(* itself, which never returns, is left out).                              *)
(***************************************************************************)
EXTENDS Integers, FiniteSets, Lists

CONSTANTS
    NUM_TASKS,      \* CONFIG_NUM_TASKS
    NUM_BOOT,       \* tasks 1..NUM_BOOT exist initially, paged by INIT_TASK
    PRIORITY_MAX,   \* TASK_PRIORITY_MAX
    TIME_SLICE,     \* TASK_TIME_SLICE, in ticks
    MAX_TIMEOUT,    \* bound on the argument of timer_set
    IRQ_MAX,        \* IRQ lines 1..IRQ_MAX
    FASTPATH,       \* CONFIG_IPC_FASTPATH
    FASTFAULT,      \* whether the copy from the user in the fastpath may fault
    DISCIPLINED,    \* whether task_create/task_destroy callers keep Discipline
    FAULTING,       \* the tasks whose memory may be unmapped
    ABI_EMU,        \* the tasks that run under ABI emulation
    USER_FLAGS,     \* the IPC flags user programs pass
    USER_TYPES,     \* the message types user programs send
    USER_NOTIFY,    \* the notifications user programs send
    BOOT_CAPS,      \* the initial tasks that have TASK_ALL_CAPS
    CREATE_CAPS     \* whether new tasks are given TASK_ALL_CAPS

Tasks == 1..NUM_TASKS
Prios == 0..(PRIORITY_MAX - 1)
Irqs == 1..IRQ_MAX

INIT_TASK == 1
IDLE_TASK == 0
KERNEL_TASK == 0
NULL == 0
IPC_ANY == 0
IPC_DENY == -1

Notifications == {"TIMER", "IRQ", "ABORTED", "ASYNC"}
IpcFlags == {"SEND", "RECV", "NOBLOCK"}
MsgTypes == {"none", "data", "page_fault", "page_fault_reply", "abi_hook",
             "abi_hook_reply", "exception", "notifications"}
Messages == [type : MsgTypes, src : Tasks \cup {KERNEL_TASK}]

ASSUME ConstantsAssumption ==
    /\ NUM_TASKS \in Nat /\ NUM_BOOT \in 1..NUM_TASKS
    /\ PRIORITY_MAX \in Nat \ {0} /\ TIME_SLICE \in Nat
    /\ MAX_TIMEOUT \in Nat /\ IRQ_MAX \in Nat
    /\ FASTPATH \in BOOLEAN /\ FASTFAULT \in BOOLEAN /\ DISCIPLINED \in BOOLEAN
    /\ FAULTING \subseteq Tasks /\ ABI_EMU \subseteq Tasks
    /\ USER_FLAGS \subseteq SUBSET IpcFlags
    /\ USER_TYPES \subseteq MsgTypes
    /\ USER_NOTIFY \subseteq Notifications
    /\ BOOT_CAPS \subseteq Tasks /\ CREATE_CAPS \subseteq BOOLEAN

VARIABLES
    \* struct task, one variable per field
    state, src, m, notifications, senders, timeout, pager, ref_count,
    priority, caps,
    \* the scheduler: run queues, CURRENT and CURRENT's remaining quantum
    runqueues, current, quantum,
    irq_owners,
    \* the kernel stacks: the frame each task executes, and the frame of the
    \* system call that a page fault has interrupted
    frame, saved,
    \* history: owed[s] is the set of tasks whose call s has received and not
    \* answered yet
    owed

sched == <<runqueues, current, quantum>>
stacks == <<frame, saved>>
vars == <<state, src, m, notifications, senders, timeout, pager, ref_count,
          priority, caps, runqueues, current, quantum, irq_owners, frame,
          saved, owed>>

(***************************************************************************)
(* Frames.                                                                 *)
(***************************************************************************)
Ops == {"none", "ipc", "fault", "abi", "exit", "create"}

Pcs == {"user",       \* in user mode
        "copyin",     \* ipc_slowpath: about to copy the user's message
        "fastcopy",   \* ipc: about to copy the user's message into dst->m
        "send",       \* ipc_slowpath: the (kernel) message is in tmp_m
        "send_wake",  \* ipc_slowpath: in task_switch() of the send phase
        "recv",       \* ipc_slowpath: at the receive phase
        "recv_wake",  \* in task_switch() of the receive phase
        "copyout",    \* about to copy the message to the user
        "create",     \* sys_task_create: about to copy the task's name
        "exiting",    \* task_exit: the pager has been told
        "exited"}     \* task_exit: waiting to be destroyed

Frames == [op : Ops, pc : Pcs, dst : Tasks \cup {NULL},
           src : Tasks \cup {IPC_ANY},
           flags : SUBSET (IpcFlags \cup {"CAPS"}), m : Messages]

NoMessage == [type |-> "none", src |-> KERNEL_TASK]

USER == [op |-> "none", pc |-> "user", dst |-> NULL, src |-> IPC_ANY,
         flags |-> {}, m |-> NoMessage]

\* The frame f once its arguments are no longer used.
Past(f, pc) == [USER EXCEPT !.op = f.op, !.pc = pc]

KernelFrame(op, t, flags, type) ==
    [op |-> op, pc |-> "send", dst |-> pager[t], src |-> pager[t],
     flags |-> flags, m |-> [type |-> type, src |-> KERNEL_TASK]]

FaultFrame(t) == KernelFrame("fault", t, {"SEND", "RECV"}, "page_fault")
AbiFrame(t) == KernelFrame("abi", t, {"SEND", "RECV"}, "abi_hook")
ExitFrame(t) == KernelFrame("exit", t, {"SEND"}, "exception")

ReplyType(op) == IF op = "fault" THEN "page_fault_reply" ELSE "abi_hook_reply"

Running(t, pc) == current = t /\ frame[t].pc = pc

(***************************************************************************)
(* The scheduler.                                                          *)
(***************************************************************************)
\* Mutants of enqueue_task: the task goes to the front; the priority is ignored.
enqueue_task_lifo(rq, t) == [rq EXCEPT ![priority[t]] = <<t>> \o @]
enqueue_task_last(rq, t) == [rq EXCEPT ![PRIORITY_MAX - 1] = Append(@, t)]

enqueue_task(rq, t) == [rq EXCEPT ![priority[t]] = Append(@, t)]

\* scheduler() and task_switch(); rq is the run queues with CURRENT already
\* appended if it is still runnable.
task_switch(rq) ==
    /\ quantum' = TIME_SLICE
    /\ \/ /\ \A p \in Prios : rq[p] = <<>>
          /\ current' = IDLE_TASK
          /\ runqueues' = rq
       \/ \E p \in Prios :
            /\ rq[p] # <<>>
            /\ \A q \in Prios : q < p => rq[q] = <<>>
            /\ current' = Head(rq[p])
            /\ runqueues' = [q \in Prios |-> IF q = p THEN Tail(rq[q]) ELSE rq[q]]

(***************************************************************************)
(* Message passing.                                                        *)
(***************************************************************************)
\* Mutant of ReceiverReady: whom the receiver waits for is not checked.
ReceiverReady_any(d, t) == state[d] = "blocked"

ReceiverReady(d, t) == state[d] = "blocked" /\ src[d] \in {IPC_ANY, t}

\* Whether t's frame calls its destination: it sends and then waits, without
\* a way out, for that very task.
IsCall(t) ==
    /\ {"SEND", "RECV"} \subseteq frame[t].flags
    /\ "NOBLOCK" \notin frame[t].flags \/ frame[t].pc = "fastcopy"
    /\ frame[t].src = frame[t].dst

\* The message and the bookkeeping of a delivery from t to frame[t].dst.
SendMessage(t) ==
    LET f == frame[t]
        from == IF f.op = "ipc" THEN t ELSE KERNEL_TASK
    IN  /\ m' = [m EXCEPT ![f.dst] = [type |-> f.m.type, src |-> from]]
        /\ owed' = [owed EXCEPT ![t] = @ \ {f.dst},
                                ![f.dst] = IF IsCall(t) THEN @ \cup {t} ELSE @]

\* The frame and the saved frame of t when its ipc() returns with an error or
\* (for a frame that does not receive) with success.
IpcReturns(t, err) ==
    LET op == frame[t].op
    IN  /\ frame' = [frame EXCEPT ![t] =
                        CASE op = "exit" -> Past(frame[t], "exiting")
                          [] op \in {"fault", "abi"} /\ err -> ExitFrame(t)
                          [] OTHER -> USER]
        /\ saved' = [saved EXCEPT ![t] = USER]

AfterSend(t) ==
    IF "RECV" \in frame[t].flags
    THEN /\ frame' = [frame EXCEPT ![t] = [@ EXCEPT !.pc = "recv",
                                           !.dst = NULL, !.m = NoMessage]]
         /\ UNCHANGED saved
    ELSE IpcReturns(t, FALSE)

Deliver(t) ==
    LET d == frame[t].dst
    IN  /\ SendMessage(t)
        /\ state' = [state EXCEPT ![d] = "runnable"]
        /\ runqueues' = enqueue_task(runqueues, d)
        /\ AfterSend(t)
        /\ UNCHANGED <<src, senders, timeout, pager, ref_count, priority, caps,
                       current, quantum, irq_owners>>

AtSend(t) == Running(t, "copyin") \/ Running(t, "send")

SendReady(t) ==
    /\ AtSend(t)
    /\ ReceiverReady(frame[t].dst, t)
    /\ Deliver(t)
    /\ UNCHANGED notifications

SendWouldBlock(t) ==
    /\ AtSend(t)
    /\ ~ReceiverReady(frame[t].dst, t)
    /\ "NOBLOCK" \in frame[t].flags
    /\ IpcReturns(t, TRUE)
    /\ UNCHANGED <<state, src, m, notifications, senders, timeout, pager,
                   ref_count, priority, caps, sched, irq_owners, owed>>

SendBlock(t) ==
    /\ AtSend(t)
    /\ ~ReceiverReady(frame[t].dst, t)
    /\ "NOBLOCK" \notin frame[t].flags
    /\ src' = [src EXCEPT ![t] = IPC_DENY]
    /\ state' = [state EXCEPT ![t] = "blocked"]
    /\ senders' = [senders EXCEPT ![frame[t].dst] = Append(@, t)]
    /\ frame' = [frame EXCEPT ![t].pc = "send_wake"]
    /\ task_switch(runqueues)
    /\ UNCHANGED <<m, notifications, timeout, pager, ref_count, priority, caps,
                   irq_owners, saved, owed>>

\* A sender that its receiver has resumed, back from task_switch().
SendWake(t) ==
    /\ Running(t, "send_wake")
    /\ "ABORTED" \notin notifications[t]
    /\ Deliver(t)
    /\ UNCHANGED notifications

SendAborted(t) ==
    /\ Running(t, "send_wake")
    /\ "ABORTED" \in notifications[t]
    /\ notifications' = [notifications EXCEPT ![t] = @ \ {"ABORTED"}]
    /\ IpcReturns(t, TRUE)
    /\ UNCHANGED <<state, src, m, senders, timeout, pager, ref_count, priority,
                   caps, sched, irq_owners, owed>>

RecvPending(t) ==
    /\ Running(t, "recv")
    /\ frame[t].src = IPC_ANY
    /\ notifications[t] # {}
    /\ notifications' = [notifications EXCEPT ![t] = {}]
    /\ frame' = [frame EXCEPT ![t] = Past(@, "copyout")]
    /\ UNCHANGED <<state, src, m, senders, timeout, pager, ref_count, priority,
                   caps, sched, irq_owners, saved, owed>>

NothingPending(t) == frame[t].src # IPC_ANY \/ notifications[t] = {}

RecvWouldBlock(t) ==
    /\ Running(t, "recv")
    /\ NothingPending(t)
    /\ "NOBLOCK" \in frame[t].flags
    /\ IpcReturns(t, TRUE)
    /\ UNCHANGED <<state, src, m, notifications, senders, timeout, pager,
                   ref_count, priority, caps, sched, irq_owners, owed>>

\* Mutant of Acceptable: an open receive does not look at the queue.
Acceptable_closed(r, s) == {x \in Range(senders[r]) : s = x}

\* The senders waiting for r that a receive from s accepts.
Acceptable(r, s) == {x \in Range(senders[r]) : s \in {IPC_ANY, x}}

FirstAcceptable(r, s) == IF s = IPC_ANY THEN Head(senders[r]) ELSE s

\* resume_sender(t, s), task_block(t), task_switch(): the tail that both
\* paths share.  st and rq are the task states and run queues before it.
ReceiveFrom(t, s, st, rq) ==
    \/ /\ Acceptable(t, s) = {}
       /\ src' = [src EXCEPT ![t] = s]
       /\ state' = [st EXCEPT ![t] = "blocked"]
       /\ task_switch(rq)
       /\ UNCHANGED senders
    \/ /\ Acceptable(t, s) # {}
       /\ LET w == FirstAcceptable(t, s)
          IN  /\ src' = [src EXCEPT ![t] = w]
              /\ state' = [st EXCEPT ![w] = "runnable", ![t] = "blocked"]
              /\ senders' = [senders EXCEPT ![t] = list_remove(@, w)]
              /\ task_switch(enqueue_task(rq, w))

RecvBlock(t) ==
    /\ Running(t, "recv")
    /\ NothingPending(t)
    /\ "NOBLOCK" \notin frame[t].flags
    /\ frame' = [frame EXCEPT ![t] = Past(@, "recv_wake")]
    /\ ReceiveFrom(t, frame[t].src, state, runqueues)
    /\ UNCHANGED <<m, notifications, timeout, pager, ref_count, priority, caps,
                   irq_owners, saved, owed>>

\* ipc(): the fastpath, from the user copy to its task_switch().
FastCall(t) ==
    /\ Running(t, "fastcopy")
    /\ SendMessage(t)
    /\ frame' = [frame EXCEPT ![t] = Past(@, "recv_wake")]
    /\ ReceiveFrom(t, frame[t].src,
                   [state EXCEPT ![frame[t].dst] = "runnable"],
                   enqueue_task(runqueues, frame[t].dst))
    /\ UNCHANGED <<notifications, timeout, pager, ref_count, priority, caps,
                   irq_owners, saved>>

\* A receiver that a message or a notification has resumed.  A system call
\* goes on to copy the message out; handle_page_fault and abi_emu_hook check
\* the reply and return to what they interrupted, or exit the task.
RecvWake(t) ==
    /\ Running(t, "recv_wake")
    /\ \/ /\ frame[t].op = "ipc"
          /\ frame' = [frame EXCEPT ![t] = Past(@, "copyout")]
          /\ UNCHANGED saved
       \/ /\ frame[t].op # "ipc"
          /\ m[t].type = ReplyType(frame[t].op)
          /\ frame' = [frame EXCEPT ![t] = saved[t]]
          /\ saved' = [saved EXCEPT ![t] = USER]
       \/ /\ frame[t].op # "ipc"
          /\ m[t].type # ReplyType(frame[t].op)
          /\ frame' = [frame EXCEPT ![t] = ExitFrame(t)]
          /\ saved' = [saved EXCEPT ![t] = USER]
    /\ UNCHANGED <<state, src, m, notifications, senders, timeout, pager,
                   ref_count, priority, caps, sched, irq_owners, owed>>

CopyOut(t) ==
    /\ Running(t, "copyout")
    /\ frame' = [frame EXCEPT ![t] = USER]
    /\ UNCHANGED <<state, src, m, notifications, senders, timeout, pager,
                   ref_count, priority, caps, sched, irq_owners, saved, owed>>

(***************************************************************************)
(* Page faults, ABI hooks and exits: the IPCs the kernel makes on behalf   *)
(* of a task.  INIT_TASK has no pager: its memory is mapped at boot.       *)
(***************************************************************************)
UserCopies == {"copyin", "fastcopy", "copyout", "create"}

handle_page_fault(t) ==
    /\ current = t
    /\ frame[t].pc \in {"user"} \cup UserCopies
    /\ frame[t].pc = "fastcopy" => FASTFAULT
    /\ t \in FAULTING /\ pager[t] # NULL
    /\ frame' = [frame EXCEPT ![t] = FaultFrame(t)]
    /\ saved' = [saved EXCEPT ![t] = frame[t]]
    /\ UNCHANGED <<state, src, m, notifications, senders, timeout, pager,
                   ref_count, priority, caps, sched, irq_owners, owed>>

abi_emu_hook(t) ==
    /\ Running(t, "user")
    /\ t \in ABI_EMU /\ pager[t] # NULL
    /\ frame' = [frame EXCEPT ![t] = AbiFrame(t)]
    /\ UNCHANGED <<state, src, m, notifications, senders, timeout, pager,
                   ref_count, priority, caps, sched, irq_owners, saved, owed>>

\* The exit system call, an exception in user mode, or a user copy that is
\* given a kernel address.
task_exit(t) ==
    /\ current = t
    /\ frame[t].pc \in {"user"} \cup UserCopies
    /\ pager[t] # NULL
    /\ frame' = [frame EXCEPT ![t] = ExitFrame(t)]
    /\ UNCHANGED <<state, src, m, notifications, senders, timeout, pager,
                   ref_count, priority, caps, sched, irq_owners, saved, owed>>

ExitBlock(t) ==
    /\ Running(t, "exiting")
    /\ state' = [state EXCEPT ![t] = "blocked"]
    /\ src' = [src EXCEPT ![t] = IPC_DENY]
    /\ frame' = [frame EXCEPT ![t].pc = "exited"]
    /\ task_switch(runqueues)
    /\ UNCHANGED <<m, notifications, senders, timeout, pager, ref_count,
                   priority, caps, irq_owners, saved, owed>>

(***************************************************************************)
(* System calls.                                                           *)
(***************************************************************************)
\* Mutant of FastpathTaken: pending notifications do not matter.
FastpathTaken_eager(t, d, f) ==
    FASTPATH /\ f \ {"NOBLOCK"} = {"SEND", "RECV"} /\ ReceiverReady(d, t)

FastpathTaken(t, d, f) ==
    /\ FASTPATH
    /\ f \ {"NOBLOCK"} = {"SEND", "RECV"}
    /\ ReceiverReady(d, t)
    /\ notifications[t] = {}

\* sys_ipc and the entry of ipc(); d is NULL unless the call sends.
sys_ipc(t, d, s, f, type) ==
    /\ Running(t, "user")
    /\ IF "SEND" \in f THEN d \in Tasks \ {t} /\ state[d] # "unused"
                       ELSE d = NULL
    /\ LET fast == FastpathTaken(t, d, f)
       IN  frame' = [frame EXCEPT ![t] =
             [op |-> "ipc",
              pc |-> IF fast THEN "fastcopy"
                     ELSE IF "SEND" \in f THEN "copyin" ELSE "recv",
              dst |-> d, src |-> IF "RECV" \in f THEN s ELSE IPC_ANY,
              flags |-> f,
              m |-> IF "SEND" \in f
                    THEN [type |-> type, src |-> KERNEL_TASK] ELSE NoMessage]]
    /\ UNCHANGED <<state, src, m, notifications, senders, timeout, pager,
                   ref_count, priority, caps, sched, irq_owners, saved, owed>>

\* Mutant of TakesNotification: a closed receive takes it as well.
TakesNotification_closed(d) == state[d] = "blocked" /\ src[d] # IPC_DENY

TakesNotification(d) == state[d] = "blocked" /\ src[d] = IPC_ANY

\* notify(): bits n for task d.
notify(d, n) ==
    \/ /\ TakesNotification(d)
       /\ m' = [m EXCEPT ![d] = [type |-> "notifications", src |-> KERNEL_TASK]]
       /\ notifications' = [notifications EXCEPT ![d] = {}]
       /\ state' = [state EXCEPT ![d] = "runnable"]
    \/ /\ ~TakesNotification(d)
       /\ notifications' = [notifications EXCEPT ![d] = @ \cup {n}]
       /\ UNCHANGED <<m, state>>

\* The run queues after notify(d, n).
Notified(d) ==
    IF TakesNotification(d) THEN enqueue_task(runqueues, d) ELSE runqueues

sys_notify(t, d, n) ==
    /\ Running(t, "user")
    /\ state[d] # "unused"
    /\ notify(d, n)
    /\ runqueues' = Notified(d)
    /\ UNCHANGED <<src, senders, timeout, pager, ref_count, priority, caps,
                   current, quantum, irq_owners, stacks, owed>>

sys_timer_set(t, v) ==
    /\ Running(t, "user")
    /\ timeout' = [timeout EXCEPT ![t] = v]
    /\ UNCHANGED <<state, src, m, notifications, senders, pager, ref_count,
                   priority, caps, sched, irq_owners, stacks, owed>>

sys_task_schedule(t, r, p) ==
    /\ Running(t, "user")
    /\ caps[t] /\ r # t
    /\ priority' = [priority EXCEPT ![r] = p]
    /\ runqueues' =
         IF state[r] = "runnable"
         THEN [q \in Prios |-> LET rest == list_remove(runqueues[q], r)
                               IN  IF q = p THEN Append(rest, r) ELSE rest]
         ELSE runqueues
    /\ UNCHANGED <<state, src, m, notifications, senders, timeout, pager,
                   ref_count, caps, current, quantum, irq_owners, stacks, owed>>

\* Discipline of the callers.  Every caller of task_create (servers/vm,
\* servers/minlin, servers/hv) passes itself as the pager.  A task is not
\* destroyed while a sender that it has resumed is still on its way: the vm
\* server and minlin destroy tasks that are waiting for an answer to their own
\* request or fault, with one exception (servers/vm/ool.c:139).
OnItsWay(s) == frame[s].pc = "send_wake" /\ state[s] = "runnable"

sys_task_create(t, n, p, c) ==
    /\ Running(t, "user")
    /\ caps[t] /\ n # t
    /\ state[p] # "unused"
    /\ DISCIPLINED => p = t
    /\ frame' = [frame EXCEPT ![t] =
                   [op |-> "create", pc |-> "create", dst |-> n, src |-> p,
                    flags |-> IF c THEN {"CAPS"} ELSE {}, m |-> NoMessage]]
    /\ UNCHANGED <<state, src, m, notifications, senders, timeout, pager,
                   ref_count, priority, caps, sched, irq_owners, saved, owed>>

\* Mutant of RefsWithNew: the new task does not hold its pager.
RefsWithNew_unheld(n, p) == [ref_count EXCEPT ![n] = 0]

\* The reference counts once n has been created with pager p.
RefsWithNew(n, p) == [ref_count EXCEPT ![n] = 0, ![p] = @ + 1]

\* task_create, once the name has been copied in.
task_create(t) ==
    LET n == frame[t].dst
        p == frame[t].src
        prio == PRIORITY_MAX - 1
    IN  /\ Running(t, "create")
        /\ state[n] = "unused"
        /\ state' = [state EXCEPT ![n] = "runnable"]
        /\ notifications' = [notifications EXCEPT ![n] = {}]
        /\ pager' = [pager EXCEPT ![n] = p]
        /\ src' = [src EXCEPT ![n] = IPC_DENY]
        /\ timeout' = [timeout EXCEPT ![n] = 0]
        /\ priority' = [priority EXCEPT ![n] = prio]
        /\ ref_count' = RefsWithNew(n, p)
        /\ caps' = [caps EXCEPT ![n] = "CAPS" \in frame[t].flags]
        /\ senders' = [senders EXCEPT ![n] = <<>>]
        /\ runqueues' = [runqueues EXCEPT ![prio] = Append(@, n)]
        /\ frame' = [frame EXCEPT ![n] = USER, ![t] = USER]
        /\ saved' = [saved EXCEPT ![n] = USER]
        /\ owed' = [owed EXCEPT ![n] = {}]
        /\ UNCHANGED <<m, current, quantum, irq_owners>>

\* task_create fails: the task exists already, the flags are not allowed, or
\* arch_task_create rejects the entry point.
CreateFails(t) ==
    /\ Running(t, "create")
    /\ frame' = [frame EXCEPT ![t] = USER]
    /\ UNCHANGED <<state, src, m, notifications, senders, timeout, pager,
                   ref_count, priority, caps, sched, irq_owners, saved, owed>>

\* Mutant of QueuesWithout: a destroyed task stays in the run queue.
QueuesWithout_linked(r) == runqueues

\* The run queues and the IRQ owners once r has been destroyed.
QueuesWithout(r) == [p \in Prios |-> list_remove(runqueues[p], r)]

OwnersWithout(r) ==
    [i \in Irqs |-> IF irq_owners[i] = r THEN NULL ELSE irq_owners[i]]

\* task_destroy.  The senders waiting for r are blocked with src = IPC_DENY,
\* so notify() sets their ABORTED bit and does not resume them.
sys_task_destroy(t, r) ==
    /\ Running(t, "user")
    /\ caps[t] /\ r # t /\ r # INIT_TASK
    /\ state[r] # "unused"
    /\ ref_count[r] = 0
    /\ DISCIPLINED => \A s \in Tasks : ~(OnItsWay(s) /\ frame[s].dst = r)
    /\ state' = [state EXCEPT ![r] = "unused"]
    /\ runqueues' = QueuesWithout(r)
    /\ senders' = [x \in Tasks |-> IF x = r THEN <<>>
                                   ELSE list_remove(senders[x], r)]
    /\ notifications' =
         [x \in Tasks |-> IF x \in Range(senders[r])
                          THEN notifications[x] \cup {"ABORTED"}
                          ELSE notifications[x]]
    /\ ref_count' = IF pager[r] = NULL THEN ref_count
                    ELSE [ref_count EXCEPT ![pager[r]] = @ - 1]
    /\ irq_owners' = OwnersWithout(r)
    /\ frame' = [frame EXCEPT ![r] = USER]
    /\ saved' = [saved EXCEPT ![r] = USER]
    /\ owed' = [x \in Tasks |-> IF x = r THEN {} ELSE owed[x] \ {r}]
    /\ UNCHANGED <<src, m, timeout, pager, priority, caps, current, quantum>>

sys_irq_acquire(t, i) ==
    /\ Running(t, "user")
    /\ caps[t] /\ irq_owners[i] = NULL
    /\ irq_owners' = [irq_owners EXCEPT ![i] = t]
    /\ UNCHANGED <<state, src, m, notifications, senders, timeout, pager,
                   ref_count, priority, caps, sched, stacks, owed>>

sys_irq_release(t, i) ==
    /\ Running(t, "user")
    /\ caps[t]
    /\ irq_owners' = [irq_owners EXCEPT ![i] = NULL]
    /\ UNCHANGED <<state, src, m, notifications, senders, timeout, pager,
                   ref_count, priority, caps, sched, stacks, owed>>

(***************************************************************************)
(* Interrupts, taken in user mode or by the idle task.                     *)
(***************************************************************************)
InterruptsEnabled == current # IDLE_TASK => frame[current].pc = "user"

\* The one listing of the tasks S in the order of the task table.
InTableOrder(S) ==
    {q \in [1..Cardinality(S) -> S] :
        /\ \A i, j \in DOMAIN q : i < j => q[i] < q[j]
        /\ Range(q) = S}

\* What enqueue_task appends to run queue p for the tasks S; and to each queue.
Listing(S, p) == InTableOrder({t \in S : priority[t] = p})

Batches(S) == {b \in [Prios -> UNION {Listing(S, p) : p \in Prios}] :
                  \A p \in Prios : b[p] \in Listing(S, p)}

SliceOver == quantum - 1 < 0

TimerSwitches(expired) == SliceOver \/ (current = IDLE_TASK /\ expired # {})

handle_timer_irq ==
    LET ticking == {t \in Tasks : state[t] # "unused" /\ timeout[t] > 0}
        expired == {t \in ticking : timeout[t] = 1}
        woken == {t \in expired : TakesNotification(t)}
    IN  /\ InterruptsEnabled
        /\ timeout' = [t \in Tasks |-> IF t \in ticking THEN timeout[t] - 1
                                       ELSE timeout[t]]
        /\ m' = [t \in Tasks |->
                   IF t \in woken
                   THEN [type |-> "notifications", src |-> KERNEL_TASK]
                   ELSE m[t]]
        /\ notifications' =
             [t \in Tasks |-> IF t \in woken THEN {}
                              ELSE IF t \in expired
                                   THEN notifications[t] \cup {"TIMER"}
                                   ELSE notifications[t]]
        /\ state' = [t \in Tasks |-> IF t \in woken THEN "runnable"
                                     ELSE state[t]]
        /\ \E b \in Batches(woken) :
             LET rq == [p \in Prios |-> runqueues[p] \o b[p]]
             IN  IF TimerSwitches(expired)
                 THEN task_switch(IF current = IDLE_TASK THEN rq
                                  ELSE enqueue_task(rq, current))
                 ELSE /\ quantum' = quantum - 1
                      /\ runqueues' = rq
                      /\ UNCHANGED current
        /\ UNCHANGED <<src, senders, pager, ref_count, priority, caps,
                       irq_owners, stacks, owed>>

\* handle_irq leaves the running task alone, unless that is the idle task.
IrqSwitches == current = IDLE_TASK

handle_irq(i) ==
    /\ InterruptsEnabled
    /\ irq_owners[i] # NULL
    /\ notify(irq_owners[i], "IRQ")
    /\ IF IrqSwitches
       THEN task_switch(Notified(irq_owners[i]))
       ELSE /\ runqueues' = Notified(irq_owners[i])
            /\ UNCHANGED <<current, quantum>>
    /\ UNCHANGED <<src, senders, timeout, pager, ref_count, priority, caps,
                   irq_owners, stacks, owed>>

(***************************************************************************)
(* The specification.  Initially INIT_TASK has created the tasks up to     *)
(* NUM_BOOT, as servers/vm does when it spawns the servers.                *)
(***************************************************************************)
Booted == 1..NUM_BOOT

Init ==
    /\ state = [t \in Tasks |-> IF t \in Booted THEN "runnable" ELSE "unused"]
    /\ src = [t \in Tasks |-> IPC_DENY]
    /\ m = [t \in Tasks |-> NoMessage]
    /\ notifications = [t \in Tasks |-> {}]
    /\ senders = [t \in Tasks |-> <<>>]
    /\ timeout = [t \in Tasks |-> 0]
    /\ pager = [t \in Tasks |-> IF t \in Booted \ {INIT_TASK} THEN INIT_TASK
                                ELSE NULL]
    /\ ref_count = [t \in Tasks |-> IF t = INIT_TASK THEN NUM_BOOT - 1 ELSE 0]
    /\ priority = [t \in Tasks |-> PRIORITY_MAX - 1]
    /\ caps = [t \in Tasks |-> t \in BOOT_CAPS]
    /\ runqueues = [p \in Prios |-> IF p = PRIORITY_MAX - 1
                                    THEN [i \in 1..(NUM_BOOT - 1) |-> i + 1]
                                    ELSE <<>>]
    /\ current = INIT_TASK
    /\ quantum = TIME_SLICE
    /\ irq_owners = [i \in Irqs |-> NULL]
    /\ frame = [t \in Tasks |-> USER]
    /\ saved = [t \in Tasks |-> USER]
    /\ owed = [t \in Tasks |-> {}]

\* What CURRENT does inside the kernel: it runs without being preempted.
KernelStep(t) ==
    \/ SendReady(t) \/ SendWouldBlock(t) \/ SendBlock(t)
    \/ SendWake(t) \/ SendAborted(t)
    \/ RecvPending(t) \/ RecvWouldBlock(t) \/ RecvBlock(t) \/ RecvWake(t)
    \/ FastCall(t) \/ CopyOut(t) \/ ExitBlock(t)
    \/ task_create(t) \/ CreateFails(t)

\* What the user program of CURRENT, or its memory, makes happen.
UserStep(t) ==
    \/ \E f \in USER_FLAGS, d \in Tasks \cup {NULL},
          s \in (Tasks \ {t}) \cup {IPC_ANY}, type \in USER_TYPES :
            sys_ipc(t, d, s, f, type)
    \/ \E d \in Tasks, n \in USER_NOTIFY : sys_notify(t, d, n)
    \/ \E v \in 0..MAX_TIMEOUT : sys_timer_set(t, v)
    \/ \E r \in Tasks, p \in Prios : sys_task_schedule(t, r, p)
    \/ \E n, p \in Tasks, c \in CREATE_CAPS : sys_task_create(t, n, p, c)
    \/ \E r \in Tasks : sys_task_destroy(t, r)
    \/ \E i \in Irqs : sys_irq_acquire(t, i) \/ sys_irq_release(t, i)
    \/ handle_page_fault(t) \/ abi_emu_hook(t) \/ task_exit(t)

Interrupt == handle_timer_irq \/ \E i \in Irqs : handle_irq(i)

Next == (\E t \in Tasks : KernelStep(t) \/ UserStep(t)) \/ Interrupt

Spec == Init /\ [][Next]_vars

\* The kernel never stops in the middle of a system call, and the timer keeps
\* ticking: an interrupt raised during a system call stays pending in the
\* interrupt controller until the return to user mode, so strong fairness is
\* what the hardware gives.  Nothing is assumed of user programs.
FairSpec ==
    /\ Spec
    /\ WF_vars(\E t \in Tasks : KernelStep(t))
    /\ SF_vars(handle_timer_irq)

-----------------------------------------------------------------------------
(***************************************************************************)
(* Safety.                                                                 *)
(***************************************************************************)
\* Every field has its type (struct task and the scheduler's variables).
TypeOK ==
    /\ state \in [Tasks -> {"unused", "runnable", "blocked"}]
    /\ src \in [Tasks -> Tasks \cup {IPC_ANY, IPC_DENY}]
    /\ m \in [Tasks -> Messages]
    /\ notifications \in [Tasks -> SUBSET Notifications]
    /\ senders \in [Tasks -> Seq(Tasks)]
    /\ timeout \in [Tasks -> 0..MAX_TIMEOUT]
    /\ pager \in [Tasks -> Tasks \cup {NULL}]
    /\ ref_count \in [Tasks -> Int]
    /\ priority \in [Tasks -> Prios]
    /\ caps \in [Tasks -> BOOLEAN]
    /\ runqueues \in [Prios -> Seq(Tasks)]
    /\ current \in Tasks \cup {IDLE_TASK}
    /\ quantum \in 0..TIME_SLICE
    /\ irq_owners \in [Irqs -> Tasks \cup {NULL}]
    /\ frame \in [Tasks -> Frames]
    /\ saved \in [Tasks -> Frames]
    /\ owed \in [Tasks -> SUBSET Tasks]

\* "A queue of runnable tasks excluding currently running tasks" (task.c:14):
\* a runnable task is either CURRENT or linked in the run queue of its
\* priority, once; nothing else is linked in a run queue.
RunQueueExact ==
    /\ current # IDLE_TASK => state[current] = "runnable"
    /\ \A p \in Prios :
         /\ IsInjective(runqueues[p])
         /\ \A t \in Tasks :
              t \in Range(runqueues[p]) <=>
                  state[t] = "runnable" /\ t # current /\ priority[t] = p

\* The point of no return (ipc.c:84-87): a sender that its receiver has
\* resumed finds the receiver still blocked and waiting for this sender, so
\* task_resume(dst) never meets a task that is not blocked.  The same holds
\* when the fastpath has copied the message.
ReceiverHolds ==
    \A t \in Tasks :
        LET d == frame[t].dst
        IN  /\ OnItsWay(t) => state[d] = "blocked" /\ src[d] = t
            /\ Running(t, "fastcopy") => ReceiverReady(d, t)

\* No missed rendezvous: while a task waits for a message, no task that it
\* would accept a message from sleeps in its sender queue.
NoMissedRendezvous ==
    \A r, s \in Tasks :
        state[r] = "blocked" /\ s \in Range(senders[r]) =>
            src[r] \notin {IPC_ANY, s}

\* No lost wakeup: a task waiting for anything has no pending notification.
NoLostWakeup ==
    \A t \in Tasks :
        state[t] = "blocked" /\ src[t] = IPC_ANY => notifications[t] = {}

\* A caller whose request has reached its server is blocked for the server's
\* answer whenever another task runs.  This is what makes the non-blocking
\* ipc_reply() of libs/resea/ipc.c sound.
CallersWait ==
    \A s \in Tasks : \A c \in owed[s] :
        c # current => state[c] = "blocked" /\ src[c] = s

\* ref_count counts the live tasks that name the task as their pager, so
\* task_destroy keeps every pager alive as long as it is needed.
RefCountExact ==
    \A p \in Tasks :
        LET clients == {t \in Tasks : state[t] # "unused" /\ pager[t] = p}
        IN  /\ state[p] # "unused" => ref_count[p] = Cardinality(clients)
            /\ clients # {} => state[p] # "unused"

\* The idle task runs only when no task is runnable: a task that an interrupt
\* makes runnable does not wait for the idle task's quantum.
WorkConserving ==
    current = IDLE_TASK => \A p \in Prios : runqueues[p] = <<>>

\* An interrupt is only ever delivered to a live task.
IrqOwnersLive ==
    \A i \in Irqs : irq_owners[i] # NULL => state[irq_owners[i]] # "unused"

(***************************************************************************)
(* Action properties.                                                      *)
(***************************************************************************)
\* A task that waits for one particular task is resumed by that task only: no
\* other sender, no notification and no timeout ends a closed receive.
ClosedReceive ==
    [][\A t \in Tasks :
          state[t] = "blocked" /\ src[t] \in Tasks /\ state'[t] = "runnable"
              => current = src[t] /\ m'[t].src \in {src[t], KERNEL_TASK}]_vars

\* The message of a receiver that has been resumed stays in its buffer
\* (task->m) until the receiver runs again and copies it out (ipc.c:123-125).
MessageIntact ==
    [][\A t \in Tasks :
          frame[t].pc = "recv_wake" /\ state[t] = "runnable"
              => m'[t] = m[t]]_vars

\* "The scheduler always picks the runnable task with the highest priority"
\* (task.h:69): no runnable task is left behind one of lower priority.
HighestPriority ==
    [][current' # current =>
          \A t \in Tasks : state'[t] = "runnable" =>
              current' # IDLE_TASK /\ priority'[current'] <= priority'[t]]_vars

(***************************************************************************)
(* Liveness.                                                               *)
(***************************************************************************)
\* Tasks of the same priority are scheduled in round-robin fashion: when all
\* have it, every runnable task gets the CPU, whatever the others do.
RoundRobin ==
    \A t \in Tasks :
        state[t] = "runnable" ~> (current = t \/ state[t] # "runnable")

(***************************************************************************)
(* What comments and assertions say and the code does not do.              *)
(***************************************************************************)
\* "Abort sender IPC operations" (task.c:145), "The receiver task has exited.
\* Abort the system call" (ipc.c:78): a task blocked in the send phase is
\* linked where a receiver can find it, or has been woken to abort.
SendersNotStranded ==
    \A s \in Tasks :
        frame[s].pc = "send_wake" /\ state[s] = "blocked" =>
            /\ s \in Range(senders[frame[s].dst])
            /\ state[frame[s].dst] # "unused"

=============================================================================
