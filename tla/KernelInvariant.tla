--------------------------- MODULE KernelInvariant ---------------------------
(***************************************************************************)
(* Type correctness of the kernel, its inductive invariant, what its queue *)
(* operations do to the run queues, and the steps that wake or block       *)
(* nobody, for every value of the constants.                               *)
(*                                                                         *)
(* TypeOK is not inductive: the send phase writes to the task its frame    *)
(* names as dst, so frames need an invariant of their own.                 *)
(***************************************************************************)
EXTENDS Kernel, QueueLemmas, FiniteSetTheorems

USE ZenonT(10), SMTT(30)

SendPcs == {"copyin", "fastcopy", "send", "send_wake"}

\* The arguments that a frame still uses are tasks, and only a system call
\* other than task_create gets past the first user copy.
FrameTyped(f) ==
    /\ f.pc \in SendPcs => f.dst \in Tasks
    /\ f.pc = "create" => f.dst \in Tasks /\ f.src \in Tasks
    /\ f.op \in {"none", "create"} => f.pc \in {"user", "create"}

KernelOps == {"fault", "abi", "exit"}

FramesTyped ==
    /\ frame \in [Tasks -> Frames] /\ saved \in [Tasks -> Frames]
    /\ \A t \in Tasks :
         /\ FrameTyped(frame[t]) /\ FrameTyped(saved[t])
         /\ frame[t].op \in KernelOps => pager[t] \in Tasks

\* The inductive invariant for type correctness.
TypeInv == TypeOK /\ FramesTyped

-----------------------------------------------------------------------------
LEMMA TaskFacts ==
    /\ 0 \notin Tasks /\ IPC_DENY \notin Tasks /\ IPC_DENY # 0
    /\ INIT_TASK \in Tasks
    /\ NULL = 0 /\ IPC_ANY = 0 /\ IDLE_TASK = 0 /\ KERNEL_TASK = 0
    /\ PRIORITY_MAX - 1 \in Prios
    /\ IsFiniteSet(Tasks)
BY SMTT(30), ConstantsAssumption, FS_Interval
   DEF Tasks, Prios, IPC_DENY, INIT_TASK, NULL, IPC_ANY, IDLE_TASK, KERNEL_TASK

LEMMA NoMessageTyped == NoMessage \in Messages
BY DEF NoMessage, Messages, MsgTypes, KERNEL_TASK

LEMMA UserTyped ==
    /\ USER \in Frames /\ FrameTyped(USER)
    /\ USER.op = "none" /\ USER.pc = "user" /\ USER.dst = NULL
    /\ USER.src = IPC_ANY /\ USER.flags = {}
BY NoMessageTyped DEF USER, Frames, FrameTyped, Ops, Pcs, SendPcs

LEMMA PastTyped ==
    ASSUME NEW f \in Frames, NEW pc \in Pcs
    PROVE  /\ Past(f, pc) \in Frames
           /\ Past(f, pc).op = f.op /\ Past(f, pc).pc = pc
           /\ Past(f, pc).dst = NULL /\ Past(f, pc).src = IPC_ANY
           /\ Past(f, pc).flags = {}
BY NoMessageTyped DEF Past, USER, Frames

LEMMA KernelFrameTyped ==
    ASSUME TypeOK, NEW t \in Tasks, pager[t] \in Tasks
    PROVE  /\ \A f \in {FaultFrame(t), AbiFrame(t), ExitFrame(t)} :
                /\ f \in Frames /\ FrameTyped(f)
                /\ f.pc = "send" /\ f.dst = pager[t] /\ f.src = pager[t]
                /\ "NOBLOCK" \notin f.flags
           /\ FaultFrame(t).op = "fault" /\ FaultFrame(t).flags = {"SEND", "RECV"}
           /\ AbiFrame(t).op = "abi" /\ AbiFrame(t).flags = {"SEND", "RECV"}
           /\ ExitFrame(t).op = "exit" /\ ExitFrame(t).flags = {"SEND"}
BY SMTT(30) DEF FaultFrame, AbiFrame, ExitFrame, KernelFrame, Frames, FrameTyped, Ops,
       Pcs, SendPcs, Messages, MsgTypes, IpcFlags

-----------------------------------------------------------------------------
RunQueues == [Prios -> Seq(Tasks)]

LEMMA EnqueueTyped ==
    ASSUME TypeOK, NEW rq \in RunQueues, NEW t \in Tasks
    PROVE  enqueue_task(rq, t) \in RunQueues
<1>1. priority[t] \in Prios /\ rq[priority[t]] \in Seq(Tasks)
  BY DEF TypeOK, RunQueues
<1>2. Append(rq[priority[t]], t) \in Seq(Tasks)
  BY SMTT(30), <1>1
<1> QED BY <1>1, <1>2 DEF enqueue_task, RunQueues

LEMMA SwitchTyped ==
    ASSUME NEW rq \in RunQueues, task_switch(rq)
    PROVE  /\ runqueues' \in RunQueues
           /\ current' \in Tasks \cup {IDLE_TASK}
           /\ quantum' \in 0..TIME_SLICE
<1>1. quantum' \in 0..TIME_SLICE
  BY SMTT(30), ConstantsAssumption DEF task_switch
<1>2. CASE \A p \in Prios : rq[p] = <<>>
  BY <1>2, <1>1 DEF task_switch
<1>3. CASE ~\A p \in Prios : rq[p] = <<>>
  <2>1. PICK p \in Prios :
          /\ rq[p] # <<>>
          /\ current' = Head(rq[p])
          /\ runqueues' = [q \in Prios |-> IF q = p THEN Tail(rq[q]) ELSE rq[q]]
    BY <1>3 DEF task_switch
  <2>2. rq[p] \in Seq(Tasks) /\ Head(rq[p]) \in Tasks /\ Tail(rq[p]) \in Seq(Tasks)
    BY <2>1, HeadTailProperties DEF RunQueues
  <2> QED BY <1>1, <2>1, <2>2 DEF RunQueues
<1> QED BY <1>2, <1>3

\* The tasks that the timer wakes are appended in batches.
LEMMA BatchTyped ==
    ASSUME TypeOK, NEW S \in SUBSET Tasks, NEW b \in Batches(S), NEW p \in Prios
    PROVE  /\ b[p] \in Seq(Tasks) /\ IsInjective(b[p])
           /\ Range(b[p]) = {t \in S : priority[t] = p}
<1> DEFINE Sp == {t \in S : priority[t] = p}
           q == b[p]
<1>1. q \in InTableOrder(Sp)
  BY DEF Batches, Listing
<1>2. IsFiniteSet(Sp) /\ Cardinality(Sp) \in Nat
  <2>1. Sp \in SUBSET Tasks
    OBVIOUS
  <2> HIDE DEF Sp
  <2> QED BY <2>1, TaskFacts, FS_Subset, FS_CardinalityType
<1> HIDE DEF q, Sp
<1>3. /\ q \in [1..Cardinality(Sp) -> Sp] /\ Range(q) = Sp
      /\ \A i, j \in DOMAIN q : i < j => q[i] < q[j]
  BY <1>1 DEF InTableOrder
<1>4. Sp \subseteq Tasks /\ \A t \in Sp : t \in Int
  <2>1. Sp \subseteq Tasks
    BY DEF Sp
  <2>2. \A t \in Tasks : t \in Int
    BY SMTT(30), ConstantsAssumption DEF Tasks
  <2> QED BY <2>1, <2>2
<1>5. q \in Seq(Tasks)
  BY SMTT(30), <1>2, <1>3, <1>4
<1>6. IsInjective(q)
  <2> SUFFICES ASSUME NEW i \in DOMAIN q, NEW j \in DOMAIN q, q[i] = q[j]
               PROVE  i = j
    BY DEF IsInjective
  <2>1. i \in Int /\ j \in Int /\ q[i] \in Int
    BY SMTT(30), <1>2, <1>3, <1>4
  <2> QED BY SMTT(30), <2>1, <1>3
<1> QED BY <1>3, <1>5, <1>6 DEF q, Sp

-----------------------------------------------------------------------------
\* A step of task t that replaces its frame by f and its saved frame by g.
LEMMA StackStepTyped ==
    ASSUME TypeInv, NEW t \in Tasks, NEW f \in Frames, NEW g \in Frames,
           FrameTyped(f), FrameTyped(g), f.op \in KernelOps => pager[t] \in Tasks,
           frame' = [frame EXCEPT ![t] = f], saved' = [saved EXCEPT ![t] = g],
           pager' = pager
    PROVE  FramesTyped'
<1> DEFINE Part(x) == /\ FrameTyped(frame'[x]) /\ FrameTyped(saved'[x])
                      /\ frame'[x].op \in KernelOps => pager[x] \in Tasks
<1>1. frame' \in [Tasks -> Frames] /\ saved' \in [Tasks -> Frames]
  BY DEF TypeInv, FramesTyped
<1>2. ASSUME NEW x \in Tasks, x # t PROVE Part(x)
  <2>1. frame'[x] = frame[x] /\ saved'[x] = saved[x]
    BY <1>2 DEF TypeInv, FramesTyped
  <2> QED BY <2>1 DEF TypeInv, FramesTyped
<1>3. Part(t)
  <2>1. frame'[t] = f /\ saved'[t] = g
    BY DEF TypeInv, FramesTyped
  <2> QED BY <2>1
<1>4. \A x \in Tasks : Part(x)
  BY <1>2, <1>3
<1>5. FramesTyped' <=> /\ frame' \in [Tasks -> Frames] /\ saved' \in [Tasks -> Frames]
                       /\ \A x \in Tasks : Part(x)
  BY DEF FramesTyped, FrameTyped
<1> QED BY <1>1, <1>4, <1>5

LEMMA FrameStepTyped ==
    ASSUME TypeInv, NEW t \in Tasks, NEW f \in Frames,
           FrameTyped(f), f.op \in KernelOps => pager[t] \in Tasks,
           frame' = [frame EXCEPT ![t] = f], UNCHANGED <<saved, pager>>
    PROVE  FramesTyped'
<1>1. saved[t] \in Frames /\ FrameTyped(saved[t])
  BY DEF TypeInv, FramesTyped
<1>2. saved' = [saved EXCEPT ![t] = saved[t]]
  BY DEF TypeInv, FramesTyped
<1> QED BY <1>1, <1>2, StackStepTyped

LEMMA IpcReturnsTyped ==
    ASSUME TypeInv, NEW t \in Tasks, NEW err \in BOOLEAN, IpcReturns(t, err),
           pager' = pager
    PROVE  FramesTyped'
<1> DEFINE f == CASE frame[t].op = "exit" -> Past(frame[t], "exiting")
                  [] frame[t].op \in {"fault", "abi"} /\ err -> ExitFrame(t)
                  [] OTHER -> USER
<1>1. frame' = [frame EXCEPT ![t] = f] /\ saved' = [saved EXCEPT ![t] = USER]
  BY DEF IpcReturns
<1>2. /\ TypeOK /\ frame[t] \in Frames /\ FrameTyped(frame[t])
      /\ frame[t].op \in KernelOps => pager[t] \in Tasks
  BY DEF TypeInv, FramesTyped
<1>3. f \in Frames /\ FrameTyped(f) /\ (f.op \in KernelOps => pager[t] \in Tasks)
  <2>1. CASE frame[t].op = "exit"
    BY <2>1, <1>2, PastTyped DEF FrameTyped, Pcs, SendPcs, KernelOps
  <2>2. CASE frame[t].op \in {"fault", "abi"} /\ err
    BY <2>2, <1>2, KernelFrameTyped DEF KernelOps
  <2>3. CASE frame[t].op # "exit" /\ ~(frame[t].op \in {"fault", "abi"} /\ err)
    BY <2>3, UserTyped DEF KernelOps
  <2> QED BY <2>1, <2>2, <2>3
<1> HIDE DEF f
<1> QED BY <1>1, <1>3, UserTyped, StackStepTyped

LEMMA AfterSendTyped ==
    ASSUME TypeInv, NEW t \in Tasks, AfterSend(t), frame[t].pc \in SendPcs,
           pager' = pager
    PROVE  FramesTyped'
<1>1. CASE "RECV" \in frame[t].flags
  <2> DEFINE f == [frame[t] EXCEPT !.pc = "recv", !.dst = NULL, !.m = NoMessage]
  <2>1. frame' = [frame EXCEPT ![t] = f] /\ UNCHANGED saved
    BY <1>1 DEF AfterSend
  <2>2. /\ frame[t] \in Frames /\ FrameTyped(frame[t])
        /\ frame[t].op \in KernelOps => pager[t] \in Tasks
    BY DEF TypeInv, FramesTyped
  <2>3. f \in Frames /\ f.op = frame[t].op /\ f.pc = "recv"
    BY <2>2, NoMessageTyped DEF Frames, Pcs
  <2>4. FrameTyped(f)
    BY <2>2, <2>3 DEF FrameTyped, SendPcs
  <2> HIDE DEF f
  <2> QED BY <2>1, <2>2, <2>3, <2>4, FrameStepTyped
<1>2. CASE "RECV" \notin frame[t].flags
  BY <1>2, IpcReturnsTyped DEF AfterSend
<1> QED BY <1>1, <1>2

-----------------------------------------------------------------------------
\* Steps that leave everything but the stacks and the notifications alone.
Quiet ==
    /\ notifications' \in [Tasks -> SUBSET Notifications]
    /\ UNCHANGED <<state, src, m, senders, timeout, pager, ref_count, priority,
                   caps, sched, irq_owners, owed>>

LEMMA QuietTyped ==
    ASSUME TypeInv, Quiet, FramesTyped'
    PROVE  TypeInv'
BY DEF TypeInv, TypeOK, Quiet, FramesTyped, sched

LEMMA QuietSteps ==
    ASSUME TypeInv, NEW t \in Tasks,
           \/ SendWouldBlock(t) \/ SendAborted(t) \/ RecvPending(t)
           \/ RecvWouldBlock(t) \/ RecvWake(t) \/ CopyOut(t) \/ CreateFails(t)
           \/ handle_page_fault(t) \/ abi_emu_hook(t) \/ task_exit(t)
    PROVE  TypeInv'
<1>1. Quiet
  <2>1. notifications \in [Tasks -> SUBSET Notifications]
    BY DEF TypeInv, TypeOK
  <2>2. CASE SendAborted(t)
    BY <2>1, <2>2 DEF SendAborted, Quiet
  <2>3. CASE RecvPending(t)
    BY <2>1, <2>3 DEF RecvPending, Quiet
  <2>4. CASE SendWouldBlock(t) \/ RecvWouldBlock(t) \/ RecvWake(t) \/ CopyOut(t)
    BY <2>1, <2>4 DEF SendWouldBlock, RecvWouldBlock, RecvWake, CopyOut, Quiet
  <2>5. CASE \/ CreateFails(t) \/ handle_page_fault(t) \/ abi_emu_hook(t)
             \/ task_exit(t)
    BY <2>1, <2>5 DEF CreateFails, handle_page_fault, abi_emu_hook, task_exit, Quiet
  <2> QED BY <2>2, <2>3, <2>4, <2>5
<1>2. pager' = pager
  BY <1>1 DEF Quiet
<1>3. /\ TypeOK /\ frame[t] \in Frames /\ FrameTyped(frame[t])
      /\ saved[t] \in Frames /\ FrameTyped(saved[t])
      /\ frame[t].op \in KernelOps => pager[t] \in Tasks
      /\ pager[t] \in Tasks \cup {NULL}
      /\ frame[t].op \in Ops
  BY DEF TypeInv, FramesTyped, TypeOK, Frames
<1>4. FramesTyped'
  <2>1. CASE SendWouldBlock(t) \/ SendAborted(t) \/ RecvWouldBlock(t)
    BY <2>1, <1>2, IpcReturnsTyped DEF SendWouldBlock, SendAborted, RecvWouldBlock
  <2>2. CASE CopyOut(t) \/ CreateFails(t)
    BY <2>2, <1>2, UserTyped, FrameStepTyped DEF CopyOut, CreateFails, KernelOps
  <2>3. CASE RecvPending(t)
    <3> DEFINE f == Past(frame[t], "copyout")
    <3>1. frame' = [frame EXCEPT ![t] = f] /\ saved' = saved /\ frame[t].pc = "recv"
      BY <2>3 DEF RecvPending, Running
    <3>2. f \in Frames /\ f.op = frame[t].op /\ f.pc = "copyout"
      BY <1>3, PastTyped DEF Pcs
    <3>3. FrameTyped(f)
      BY <3>1, <3>2, <1>3 DEF FrameTyped, SendPcs
    <3> HIDE DEF f
    <3> QED BY <3>1, <3>2, <3>3, <1>2, <1>3, FrameStepTyped
  <2>4. CASE RecvWake(t)
    <3>1. frame[t].pc = "recv_wake"
      BY <2>4 DEF RecvWake, Running
    <3>2. frame[t].op \in KernelOps \cup {"ipc"}
      BY <3>1, <1>3 DEF FrameTyped, Ops, KernelOps
    <3>3. CASE frame[t].op = "ipc"
      <4> DEFINE f == Past(frame[t], "copyout")
      <4>1. frame' = [frame EXCEPT ![t] = f] /\ saved' = saved
        BY <2>4, <3>3 DEF RecvWake
      <4>2. f \in Frames /\ f.op = frame[t].op /\ f.pc = "copyout"
        BY <1>3, PastTyped DEF Pcs
      <4>3. FrameTyped(f)
        BY <3>3, <4>2 DEF FrameTyped, SendPcs
      <4> HIDE DEF f
      <4> QED BY <4>1, <4>2, <4>3, <1>2, <1>3, FrameStepTyped
    <3>4. CASE frame[t].op # "ipc"
      <4>1. \/ frame' = [frame EXCEPT ![t] = saved[t]]
            \/ frame' = [frame EXCEPT ![t] = ExitFrame(t)]
        BY <2>4, <3>4 DEF RecvWake
      <4>2. saved' = [saved EXCEPT ![t] = USER]
        BY <2>4, <3>4 DEF RecvWake
      <4>3. pager[t] \in Tasks
        BY <3>2, <3>4, <1>3
      <4> QED BY <4>1, <4>2, <4>3, <1>2, <1>3, UserTyped, KernelFrameTyped,
                 StackStepTyped
    <3> QED BY <3>3, <3>4
  <2>5. CASE handle_page_fault(t) \/ abi_emu_hook(t) \/ task_exit(t)
    <3>1. pager[t] \in Tasks
      BY <2>5, <1>3 DEF handle_page_fault, abi_emu_hook, task_exit
    <3>2. /\ FaultFrame(t) \in Frames /\ FrameTyped(FaultFrame(t))
          /\ AbiFrame(t) \in Frames /\ FrameTyped(AbiFrame(t))
          /\ ExitFrame(t) \in Frames /\ FrameTyped(ExitFrame(t))
      BY <3>1, <1>3, KernelFrameTyped
    <3>3. CASE handle_page_fault(t)
      BY <3>1, <3>2, <3>3, <1>2, <1>3, StackStepTyped DEF handle_page_fault
    <3>4. CASE abi_emu_hook(t)
      BY <3>1, <3>2, <3>4, <1>2, <1>3, FrameStepTyped DEF abi_emu_hook
    <3>5. CASE task_exit(t)
      BY <3>1, <3>2, <3>5, <1>2, <1>3, FrameStepTyped DEF task_exit
    <3> QED BY <2>5, <3>3, <3>4, <3>5
  <2> QED BY <2>1, <2>2, <2>3, <2>4, <2>5
<1> QED BY <1>1, <1>4, QuietTyped

-----------------------------------------------------------------------------
LEMMA SendMessageTyped ==
    ASSUME TypeInv, NEW t \in Tasks, frame[t].pc \in SendPcs, SendMessage(t)
    PROVE  m' \in [Tasks -> Messages] /\ owed' \in [Tasks -> SUBSET Tasks]
<1>1. frame[t] \in Frames /\ frame[t].dst \in Tasks /\ frame[t].m.type \in MsgTypes
  BY DEF TypeInv, FramesTyped, FrameTyped, Frames, Messages
<1> DEFINE from == IF frame[t].op = "ipc" THEN t ELSE KERNEL_TASK
           msg == [type |-> frame[t].m.type, src |-> from]
<1>2. msg \in Messages
  BY <1>1 DEF Messages
<1>3. m' = [m EXCEPT ![frame[t].dst] = msg]
  BY DEF SendMessage
<1> HIDE DEF msg
<1>4. m' \in [Tasks -> Messages]
  BY <1>1, <1>2, <1>3 DEF TypeInv, TypeOK
<1>5. owed' \in [Tasks -> SUBSET Tasks]
  BY <1>1 DEF SendMessage, TypeInv, TypeOK
<1> QED BY <1>4, <1>5

LEMMA DeliverTyped ==
    ASSUME TypeInv, NEW t \in Tasks, frame[t].pc \in SendPcs, Deliver(t),
           UNCHANGED notifications
    PROVE  TypeInv'
<1> USE DEF Deliver
<1>1. m' \in [Tasks -> Messages] /\ owed' \in [Tasks -> SUBSET Tasks]
  BY SendMessageTyped
<1>2. frame[t].dst \in Tasks
  BY DEF TypeInv, FramesTyped, FrameTyped
<1>3. FramesTyped'
  BY AfterSendTyped
<1>4. runqueues' \in RunQueues
  BY <1>2, EnqueueTyped DEF TypeInv, TypeOK, RunQueues
<1>5. state' \in [Tasks -> {"unused", "runnable", "blocked"}]
  BY <1>2 DEF TypeInv, TypeOK
<1>6. UNCHANGED <<src, senders, timeout, pager, ref_count, priority, caps, current,
                  quantum, irq_owners, notifications>>
  OBVIOUS
<1> HIDE DEF Deliver
<1> QED BY <1>1, <1>3, <1>4, <1>5, <1>6 DEF TypeInv, TypeOK, FramesTyped, RunQueues

\* resume_sender, task_block and task_switch.
LEMMA ReceiveTyped ==
    ASSUME TypeInv, NEW t \in Tasks, NEW s \in Tasks \cup {IPC_ANY},
           NEW st \in [Tasks -> {"unused", "runnable", "blocked"}],
           NEW rq \in RunQueues, ReceiveFrom(t, s, st, rq)
    PROVE  /\ src' \in [Tasks -> Tasks \cup {IPC_ANY, IPC_DENY}]
           /\ state' \in [Tasks -> {"unused", "runnable", "blocked"}]
           /\ senders' \in [Tasks -> Seq(Tasks)]
           /\ runqueues' \in RunQueues
           /\ current' \in Tasks \cup {IDLE_TASK}
           /\ quantum' \in 0..TIME_SLICE
<1>1. CASE Acceptable(t, s) = {}
  BY <1>1, SwitchTyped DEF ReceiveFrom, TypeInv, TypeOK
<1>2. CASE Acceptable(t, s) # {}
  <2> DEFINE w == FirstAcceptable(t, s)
  <2>1. w \in Tasks
    <3>1. PICK x \in Range(senders[t]) : s \in {IPC_ANY, x}
      BY <1>2 DEF Acceptable
    <3>2. senders[t] \in Seq(Tasks) /\ senders[t] # <<>>
      BY SMTT(30), <3>1 DEF TypeInv, TypeOK, Range
    <3>3. Head(senders[t]) \in Tasks
      BY <3>2, HeadTailProperties
    <3> QED BY <3>3 DEF FirstAcceptable
  <2> HIDE DEF w
  <2>2. /\ src' = [src EXCEPT ![t] = w]
        /\ state' = [st EXCEPT ![w] = "runnable", ![t] = "blocked"]
        /\ senders' = [senders EXCEPT ![t] = list_remove(@, w)]
        /\ task_switch(enqueue_task(rq, w))
    BY <1>2 DEF ReceiveFrom, w
  <2>3. list_remove(senders[t], w) \in Seq(Tasks)
    BY RemoveTyped DEF TypeInv, TypeOK
  <2>4. enqueue_task(rq, w) \in RunQueues
    BY <2>1, EnqueueTyped DEF TypeInv
  <2>5. senders' \in [Tasks -> Seq(Tasks)]
    BY <2>2, <2>3 DEF TypeInv, TypeOK
  <2>6. src' \in [Tasks -> Tasks \cup {IPC_ANY, IPC_DENY}]
    BY <2>1, <2>2 DEF TypeInv, TypeOK
  <2> QED BY <2>1, <2>2, <2>4, <2>5, <2>6, SwitchTyped
<1> QED BY <1>1, <1>2

LEMMA SendBlockTyped ==
    ASSUME TypeInv, NEW t \in Tasks, SendBlock(t)
    PROVE  TypeInv'
<1>1. frame[t].pc \in SendPcs /\ frame[t].dst \in Tasks
  BY DEF SendBlock, AtSend, Running, SendPcs, TypeInv, FramesTyped, FrameTyped
<1> DEFINE f == [frame[t] EXCEPT !.pc = "send_wake"]
<1>2. /\ frame[t] \in Frames /\ FrameTyped(frame[t])
      /\ frame[t].op \in KernelOps => pager[t] \in Tasks
  BY DEF TypeInv, FramesTyped
<1>3. f \in Frames /\ f.op = frame[t].op /\ f.pc = "send_wake" /\ f.dst = frame[t].dst
  BY <1>2 DEF Frames, Pcs
<1>4. FrameTyped(f)
  BY <1>1, <1>2, <1>3 DEF FrameTyped, SendPcs
<1>5. /\ frame' = [frame EXCEPT ![t] = f] /\ saved' = saved /\ pager' = pager
      /\ src' = [src EXCEPT ![t] = IPC_DENY]
      /\ state' = [state EXCEPT ![t] = "blocked"]
      /\ senders' = [senders EXCEPT ![frame[t].dst] = Append(@, t)]
      /\ task_switch(runqueues)
      /\ UNCHANGED <<m, notifications, timeout, pager, ref_count, priority, caps,
                     irq_owners, saved, owed>>
  BY DEF SendBlock
<1> HIDE DEF f
<1>6. FramesTyped'
  BY <1>2, <1>3, <1>4, <1>5, FrameStepTyped
<1>7. /\ runqueues' \in RunQueues /\ current' \in Tasks \cup {IDLE_TASK}
      /\ quantum' \in 0..TIME_SLICE
  BY <1>5, SwitchTyped DEF TypeInv, TypeOK, RunQueues
<1>8. senders' \in [Tasks -> Seq(Tasks)]
  BY SMTT(30), <1>1, <1>5 DEF TypeInv, TypeOK
<1>9. /\ src' \in [Tasks -> Tasks \cup {IPC_ANY, IPC_DENY}]
      /\ state' \in [Tasks -> {"unused", "runnable", "blocked"}]
  BY <1>5 DEF TypeInv, TypeOK
<1>10. UNCHANGED <<m, notifications, timeout, pager, ref_count, priority, caps,
                   irq_owners, owed>>
  BY <1>5
<1> QED BY <1>6, <1>7, <1>8, <1>9, <1>10 DEF TypeInv, TypeOK, FramesTyped, RunQueues

LEMMA RecvBlockTyped ==
    ASSUME TypeInv, NEW t \in Tasks, RecvBlock(t)
    PROVE  TypeInv'
<1> DEFINE f == Past(frame[t], "recv_wake")
<1>1. /\ frame[t] \in Frames /\ FrameTyped(frame[t])
      /\ frame[t].op \in KernelOps => pager[t] \in Tasks
      /\ frame[t].src \in Tasks \cup {IPC_ANY}
  BY DEF TypeInv, FramesTyped, Frames
<1>2. /\ frame[t].pc = "recv" /\ frame' = [frame EXCEPT ![t] = f]
      /\ ReceiveFrom(t, frame[t].src, state, runqueues)
      /\ UNCHANGED <<m, notifications, timeout, pager, ref_count, priority, caps,
                     irq_owners, saved, owed>>
  BY DEF RecvBlock, Running
<1>3. f \in Frames /\ f.op = frame[t].op /\ f.pc = "recv_wake"
  BY <1>1, PastTyped DEF Pcs
<1>4. FrameTyped(f)
  BY <1>1, <1>2, <1>3 DEF FrameTyped, SendPcs
<1> HIDE DEF f
<1>5. FramesTyped'
  BY <1>1, <1>2, <1>3, <1>4, FrameStepTyped
<1>6. /\ src' \in [Tasks -> Tasks \cup {IPC_ANY, IPC_DENY}]
      /\ state' \in [Tasks -> {"unused", "runnable", "blocked"}]
      /\ senders' \in [Tasks -> Seq(Tasks)] /\ runqueues' \in RunQueues
      /\ current' \in Tasks \cup {IDLE_TASK} /\ quantum' \in 0..TIME_SLICE
  BY <1>1, <1>2, ReceiveTyped DEF TypeInv, TypeOK, RunQueues
<1> QED BY <1>2, <1>5, <1>6 DEF TypeInv, TypeOK, FramesTyped, RunQueues

LEMMA FastCallTyped ==
    ASSUME TypeInv, NEW t \in Tasks, FastCall(t)
    PROVE  TypeInv'
<1> DEFINE f == Past(frame[t], "recv_wake")
           d == frame[t].dst
           st == [state EXCEPT ![d] = "runnable"]
           rq == enqueue_task(runqueues, d)
<1>1. /\ frame[t] \in Frames /\ FrameTyped(frame[t])
      /\ frame[t].op \in KernelOps => pager[t] \in Tasks
      /\ frame[t].src \in Tasks \cup {IPC_ANY}
  BY DEF TypeInv, FramesTyped, Frames
<1>2. /\ frame[t].pc = "fastcopy" /\ frame' = [frame EXCEPT ![t] = f]
      /\ SendMessage(t) /\ ReceiveFrom(t, frame[t].src, st, rq)
      /\ UNCHANGED <<notifications, timeout, pager, ref_count, priority, caps,
                     irq_owners, saved>>
  BY DEF FastCall, Running
<1>3. f \in Frames /\ f.op = frame[t].op /\ f.pc = "recv_wake"
  BY <1>1, PastTyped DEF Pcs
<1>4. FrameTyped(f)
  BY <1>1, <1>2, <1>3 DEF FrameTyped, SendPcs
<1>5. d \in Tasks /\ frame[t].pc \in SendPcs
  BY <1>1, <1>2 DEF FrameTyped, SendPcs
<1>6. st \in [Tasks -> {"unused", "runnable", "blocked"}] /\ rq \in RunQueues
  BY <1>5, EnqueueTyped DEF TypeInv, TypeOK, RunQueues
<1> HIDE DEF f, st, rq
<1>7. FramesTyped'
  BY <1>1, <1>2, <1>3, <1>4, FrameStepTyped
<1>8. /\ src' \in [Tasks -> Tasks \cup {IPC_ANY, IPC_DENY}]
      /\ state' \in [Tasks -> {"unused", "runnable", "blocked"}]
      /\ senders' \in [Tasks -> Seq(Tasks)] /\ runqueues' \in RunQueues
      /\ current' \in Tasks \cup {IDLE_TASK} /\ quantum' \in 0..TIME_SLICE
  BY <1>1, <1>2, <1>6, ReceiveTyped
<1>9. m' \in [Tasks -> Messages] /\ owed' \in [Tasks -> SUBSET Tasks]
  BY <1>2, <1>5, SendMessageTyped
<1> QED BY <1>2, <1>7, <1>8, <1>9 DEF TypeInv, TypeOK, FramesTyped, RunQueues

LEMMA ExitBlockTyped ==
    ASSUME TypeInv, NEW t \in Tasks, ExitBlock(t)
    PROVE  TypeInv'
<1> DEFINE f == [frame[t] EXCEPT !.pc = "exited"]
<1>1. /\ frame[t] \in Frames /\ FrameTyped(frame[t])
      /\ frame[t].op \in KernelOps => pager[t] \in Tasks
  BY DEF TypeInv, FramesTyped
<1>2. /\ frame[t].pc = "exiting" /\ frame' = [frame EXCEPT ![t] = f]
      /\ src' = [src EXCEPT ![t] = IPC_DENY]
      /\ state' = [state EXCEPT ![t] = "blocked"]
      /\ task_switch(runqueues)
      /\ UNCHANGED <<m, notifications, senders, timeout, pager, ref_count,
                     priority, caps, irq_owners, saved, owed>>
  BY DEF ExitBlock, Running
<1>3. f \in Frames /\ f.op = frame[t].op /\ f.pc = "exited"
  BY <1>1 DEF Frames, Pcs
<1>4. FrameTyped(f)
  BY <1>1, <1>2, <1>3 DEF FrameTyped, SendPcs
<1> HIDE DEF f
<1>5. FramesTyped'
  BY <1>1, <1>2, <1>3, <1>4, FrameStepTyped
<1>6. /\ runqueues' \in RunQueues /\ current' \in Tasks \cup {IDLE_TASK}
      /\ quantum' \in 0..TIME_SLICE
  BY <1>2, SwitchTyped DEF TypeInv, TypeOK, RunQueues
<1> QED BY <1>2, <1>5, <1>6 DEF TypeInv, TypeOK, FramesTyped, RunQueues

-----------------------------------------------------------------------------
LEMMA SysIpcTyped ==
    ASSUME TypeInv, NEW t \in Tasks, NEW d \in Tasks \cup {NULL},
           NEW s \in Tasks \cup {IPC_ANY}, NEW fl \in USER_FLAGS,
           NEW type \in USER_TYPES, sys_ipc(t, d, s, fl, type)
    PROVE  TypeInv'
<1> DEFINE pc == IF FastpathTaken(t, d, fl) THEN "fastcopy"
                 ELSE IF "SEND" \in fl THEN "copyin" ELSE "recv"
           msg == IF "SEND" \in fl THEN [type |-> type, src |-> KERNEL_TASK]
                  ELSE NoMessage
           from == IF "RECV" \in fl THEN s ELSE IPC_ANY
           f == [op |-> "ipc", pc |-> pc, dst |-> d, src |-> from, flags |-> fl,
                 m |-> msg]
<1>1. fl \in SUBSET (IpcFlags \cup {"CAPS"}) /\ type \in MsgTypes
  BY ConstantsAssumption
<1>2. msg \in Messages
  BY <1>1, NoMessageTyped DEF Messages
<1>3. from \in Tasks \cup {IPC_ANY} /\ pc \in {"fastcopy", "copyin", "recv"}
  OBVIOUS
<1>4. frame' = [frame EXCEPT ![t] = f]
  BY DEF sys_ipc
<1>5. Quiet /\ saved' = saved /\ pager' = pager
  BY DEF sys_ipc, Quiet, TypeInv, TypeOK
<1>6. pc # "recv" => d \in Tasks
  BY DEF sys_ipc, FastpathTaken
<1> HIDE DEF pc, msg, from
<1>7. f \in Frames /\ f.op = "ipc" /\ f.pc = pc /\ f.dst = d
  BY <1>1, <1>2, <1>3 DEF Frames, Ops, Pcs
<1> HIDE DEF f
<1>8. FrameTyped(f) /\ f.op \notin KernelOps
  BY <1>3, <1>6, <1>7 DEF FrameTyped, SendPcs, KernelOps
<1> QED BY <1>4, <1>5, <1>7, <1>8, FrameStepTyped, QuietTyped

LEMMA SysTaskCreateTyped ==
    ASSUME TypeInv, NEW t \in Tasks, NEW n \in Tasks, NEW p \in Tasks, NEW c,
           sys_task_create(t, n, p, c)
    PROVE  TypeInv'
<1> DEFINE f == [op |-> "create", pc |-> "create", dst |-> n, src |-> p,
                 flags |-> IF c THEN {"CAPS"} ELSE {}, m |-> NoMessage]
<1>1. f \in Frames /\ FrameTyped(f) /\ f.op \notin KernelOps
  BY NoMessageTyped DEF Frames, Ops, Pcs, FrameTyped, SendPcs, KernelOps
<1>2. frame' = [frame EXCEPT ![t] = f]
  BY DEF sys_task_create
<1>3. Quiet /\ saved' = saved /\ pager' = pager
  BY DEF sys_task_create, Quiet, TypeInv, TypeOK
<1> HIDE DEF f
<1> QED BY <1>1, <1>2, <1>3, FrameStepTyped, QuietTyped

LEMMA CountsTyped ==
    ASSUME NEW f \in [Tasks -> Int], NEW n \in Tasks, NEW p \in Tasks
    PROVE  [f EXCEPT ![n] = 0, ![p] = @ + 1] \in [Tasks -> Int]
<1>1. 0 \in Int /\ f[p] + 1 \in Int
  BY SMTT(30)
<1> QED BY <1>1

LEMMA TaskCreateTyped ==
    ASSUME TypeInv, NEW t \in Tasks, task_create(t)
    PROVE  TypeInv'
<1> DEFINE n == frame[t].dst
           p == frame[t].src
<1>1. n \in Tasks /\ p \in Tasks
  BY DEF task_create, Running, TypeInv, FramesTyped, FrameTyped
<1>2. /\ frame' = [frame EXCEPT ![n] = USER, ![t] = USER]
      /\ saved' = [saved EXCEPT ![n] = USER]
      /\ pager' = [pager EXCEPT ![n] = p]
  BY DEF task_create
<1>3. FramesTyped'
  <2>1. frame' \in [Tasks -> Frames] /\ saved' \in [Tasks -> Frames]
    BY <1>1, <1>2, UserTyped DEF TypeInv, FramesTyped
  <2>2. ASSUME NEW x \in Tasks
        PROVE  /\ frame'[x] = USER \/ (frame'[x] = frame[x] /\ pager'[x] = pager[x])
               /\ saved'[x] \in {USER, saved[x]}
    BY <1>1, <1>2 DEF TypeInv, TypeOK
  <2>3. ASSUME NEW x \in Tasks
        PROVE  /\ FrameTyped(frame'[x]) /\ FrameTyped(saved'[x])
               /\ frame'[x].op \in KernelOps => pager'[x] \in Tasks
    BY <2>2, UserTyped DEF TypeInv, FramesTyped, KernelOps
  <2> QED BY <2>1, <2>3 DEF FramesTyped, FrameTyped
<1>4. /\ state' = [state EXCEPT ![n] = "runnable"]
      /\ notifications' = [notifications EXCEPT ![n] = {}]
      /\ src' = [src EXCEPT ![n] = IPC_DENY]
      /\ timeout' = [timeout EXCEPT ![n] = 0]
      /\ priority' = [priority EXCEPT ![n] = PRIORITY_MAX - 1]
      /\ ref_count' = RefsWithNew(n, p)
      /\ caps' = [caps EXCEPT ![n] = "CAPS" \in frame[t].flags]
      /\ senders' = [senders EXCEPT ![n] = <<>>]
      /\ runqueues' = [runqueues EXCEPT ![PRIORITY_MAX - 1] = Append(@, n)]
      /\ owed' = [owed EXCEPT ![n] = {}]
      /\ UNCHANGED <<m, current, quantum, irq_owners>>
  BY DEF task_create
<1> HIDE DEF n, p
<1>5. /\ state' \in [Tasks -> {"unused", "runnable", "blocked"}]
      /\ notifications' \in [Tasks -> SUBSET Notifications]
      /\ src' \in [Tasks -> Tasks \cup {IPC_ANY, IPC_DENY}]
      /\ owed' \in [Tasks -> SUBSET Tasks]
      /\ pager' \in [Tasks -> Tasks \cup {NULL}]
  BY <1>1, <1>2, <1>4 DEF TypeInv, TypeOK
<1>6. timeout' \in [Tasks -> 0..MAX_TIMEOUT] /\ priority' \in [Tasks -> Prios]
  <2>1. 0 \in 0..MAX_TIMEOUT
    BY SMTT(30), ConstantsAssumption
  <2>2. timeout' = [timeout EXCEPT ![n] = 0]
    BY <1>4
  <2>3. priority' = [priority EXCEPT ![n] = PRIORITY_MAX - 1]
    BY <1>4
  <2> QED BY <2>1, <2>2, <2>3, TaskFacts DEF TypeInv, TypeOK
<1>7. caps' \in [Tasks -> BOOLEAN]
  <2>1. caps' = [caps EXCEPT ![n] = "CAPS" \in frame[t].flags]
    BY <1>4
  <2>2. ("CAPS" \in frame[t].flags) \in BOOLEAN
    BY SMTT(30)
  <2> QED BY <2>1, <2>2 DEF TypeInv, TypeOK
<1>8. ref_count' \in [Tasks -> Int]
  <2>1. ref_count \in [Tasks -> Int]
    BY DEF TypeInv, TypeOK
  <2>2. ref_count' = [ref_count EXCEPT ![n] = 0, ![p] = @ + 1]
    BY <1>4 DEF RefsWithNew
  <2> QED BY <2>1, <2>2, <1>1, CountsTyped
<1>9. senders' \in [Tasks -> Seq(Tasks)] /\ runqueues' \in [Prios -> Seq(Tasks)]
  <2> DEFINE k == PRIORITY_MAX - 1
  <2>1. senders' = [senders EXCEPT ![n] = <<>>] /\ <<>> \in Seq(Tasks)
    BY SMTT(30), <1>4
  <2>2. runqueues' = [runqueues EXCEPT ![k] = Append(runqueues[k], n)]
    BY <1>4
  <2>3. k \in Prios
    BY TaskFacts
  <2> HIDE DEF k
  <2>4. Append(runqueues[k], n) \in Seq(Tasks)
    BY SMTT(30), <1>1, <2>3 DEF TypeInv, TypeOK
  <2> QED BY <2>1, <2>2, <2>4 DEF TypeInv, TypeOK
<1>10. /\ m' \in [Tasks -> Messages] /\ current' \in Tasks \cup {IDLE_TASK}
       /\ quantum' \in 0..TIME_SLICE /\ irq_owners' \in [Irqs -> Tasks \cup {NULL}]
  BY <1>4 DEF TypeInv, TypeOK
<1> QED BY <1>3, <1>5, <1>6, <1>7, <1>8, <1>9, <1>10 DEF TypeInv, TypeOK, FramesTyped

LEMMA SysTaskDestroyTyped ==
    ASSUME TypeInv, NEW t \in Tasks, NEW r \in Tasks, sys_task_destroy(t, r)
    PROVE  TypeInv'
<1>1. /\ state' = [state EXCEPT ![r] = "unused"]
      /\ runqueues' = QueuesWithout(r)
      /\ senders' = [x \in Tasks |-> IF x = r THEN <<>>
                                     ELSE list_remove(senders[x], r)]
      /\ notifications' =
           [x \in Tasks |-> IF x \in Range(senders[r])
                            THEN notifications[x] \cup {"ABORTED"}
                            ELSE notifications[x]]
      /\ ref_count' = IF pager[r] = NULL THEN ref_count
                      ELSE [ref_count EXCEPT ![pager[r]] = @ - 1]
      /\ irq_owners' = OwnersWithout(r)
      /\ frame' = [frame EXCEPT ![r] = USER]
      /\ saved' = [saved EXCEPT ![r] = USER]
      /\ owed' = [x \in Tasks |-> IF x = r THEN {} ELSE owed[x] \ {r}]
      /\ UNCHANGED <<src, m, timeout, pager, priority, caps, current, quantum>>
  BY DEF sys_task_destroy
<1>2. FramesTyped'
  BY <1>1, UserTyped, StackStepTyped DEF KernelOps
<1>3. /\ state' \in [Tasks -> {"unused", "runnable", "blocked"}]
      /\ owed' \in [Tasks -> SUBSET Tasks]
      /\ notifications' \in [Tasks -> SUBSET Notifications]
  BY <1>1 DEF TypeInv, TypeOK, Notifications
<1>4. ref_count' \in [Tasks -> Int]
  BY SMTT(30), <1>1 DEF TypeInv, TypeOK
<1>5. irq_owners' \in [Irqs -> Tasks \cup {NULL}]
  BY <1>1 DEF OwnersWithout, TypeInv, TypeOK
<1>6. \A q \in Seq(Tasks) : list_remove(q, r) \in Seq(Tasks)
  BY RemoveTyped
<1>7. runqueues' \in [Prios -> Seq(Tasks)] /\ senders' \in [Tasks -> Seq(Tasks)]
  BY SMTT(30), <1>1, <1>6 DEF QueuesWithout, TypeInv, TypeOK
<1>8. UNCHANGED <<src, m, timeout, pager, priority, caps, current, quantum>>
  BY <1>1
<1> QED BY <1>2, <1>3, <1>4, <1>5, <1>7, <1>8 DEF TypeInv, TypeOK, FramesTyped

LEMMA SysTaskScheduleTyped ==
    ASSUME TypeInv, NEW t \in Tasks, NEW r \in Tasks, NEW p \in Prios,
           sys_task_schedule(t, r, p)
    PROVE  TypeInv'
<1>1. priority' \in [Tasks -> Prios]
  BY DEF sys_task_schedule, TypeInv, TypeOK
<1>2. \A q \in Seq(Tasks) : /\ list_remove(q, r) \in Seq(Tasks)
                            /\ Append(list_remove(q, r), r) \in Seq(Tasks)
  BY SMTT(30), RemoveTyped
<1>3. runqueues' \in [Prios -> Seq(Tasks)]
  <2>1. CASE state[r] = "runnable"
    <3>1. runqueues' = [q \in Prios |-> IF q = p
                                        THEN Append(list_remove(runqueues[q], r), r)
                                        ELSE list_remove(runqueues[q], r)]
      BY <2>1 DEF sys_task_schedule
    <3> QED BY <3>1, <1>2 DEF TypeInv, TypeOK
  <2>2. CASE state[r] # "runnable"
    BY <2>2 DEF sys_task_schedule, TypeInv, TypeOK
  <2> QED BY <2>1, <2>2
<1>4. UNCHANGED <<state, src, m, notifications, senders, timeout, pager, ref_count,
                  caps, current, quantum, irq_owners, frame, saved, owed>>
  BY DEF sys_task_schedule, stacks
<1> QED BY <1>1, <1>3, <1>4 DEF TypeInv, TypeOK, FramesTyped

LEMMA SmallCallsTyped ==
    ASSUME TypeInv, NEW t \in Tasks,
           \/ \E v \in 0..MAX_TIMEOUT : sys_timer_set(t, v)
           \/ \E i \in Irqs : sys_irq_acquire(t, i) \/ sys_irq_release(t, i)
    PROVE  TypeInv'
<1>1. CASE \E v \in 0..MAX_TIMEOUT : sys_timer_set(t, v)
  BY SMTT(30), <1>1 DEF sys_timer_set, TypeInv, TypeOK, FramesTyped, sched, stacks
<1>2. CASE \E i \in Irqs : sys_irq_acquire(t, i) \/ sys_irq_release(t, i)
  BY <1>2 DEF sys_irq_acquire, sys_irq_release, TypeInv, TypeOK, FramesTyped, sched,
              stacks
<1> QED BY <1>1, <1>2

-----------------------------------------------------------------------------
LEMMA NotifyTyped ==
    ASSUME TypeInv, NEW d \in Tasks, NEW n \in Notifications, notify(d, n)
    PROVE  /\ m' \in [Tasks -> Messages]
           /\ notifications' \in [Tasks -> SUBSET Notifications]
           /\ state' \in [Tasks -> {"unused", "runnable", "blocked"}]
           /\ Notified(d) \in RunQueues
<1>1. Notified(d) \in RunQueues
  BY EnqueueTyped DEF Notified, TypeInv, TypeOK, RunQueues
<1>2. CASE TakesNotification(d)
  <2> DEFINE msg == [type |-> "notifications", src |-> KERNEL_TASK]
  <2>1. msg \in Messages
    BY DEF Messages, MsgTypes
  <2>2. /\ m' = [m EXCEPT ![d] = msg]
        /\ notifications' = [notifications EXCEPT ![d] = {}]
        /\ state' = [state EXCEPT ![d] = "runnable"]
    BY <1>2 DEF notify
  <2> HIDE DEF msg
  <2> QED BY <1>1, <2>1, <2>2 DEF TypeInv, TypeOK
<1>3. CASE ~TakesNotification(d)
  <2>1. /\ notifications' = [notifications EXCEPT ![d] = @ \cup {n}]
        /\ UNCHANGED <<m, state>>
    BY <1>3 DEF notify
  <2>2. notifications' \in [Tasks -> SUBSET Notifications]
    BY <2>1 DEF TypeInv, TypeOK
  <2> QED BY <1>1, <2>1, <2>2 DEF TypeInv, TypeOK
<1> QED BY <1>2, <1>3

LEMMA SysNotifyTyped ==
    ASSUME TypeInv, NEW t \in Tasks, NEW d \in Tasks, NEW n \in Notifications,
           sys_notify(t, d, n)
    PROVE  TypeInv'
<1>1. notify(d, n) /\ runqueues' = Notified(d)
  BY DEF sys_notify
<1>2. UNCHANGED <<src, senders, timeout, pager, ref_count, priority, caps, current,
                  quantum, irq_owners, frame, saved, owed>>
  BY DEF sys_notify, stacks
<1>3. /\ m' \in [Tasks -> Messages]
      /\ notifications' \in [Tasks -> SUBSET Notifications]
      /\ state' \in [Tasks -> {"unused", "runnable", "blocked"}]
      /\ runqueues' \in RunQueues
  BY <1>1, NotifyTyped
<1> QED BY <1>2, <1>3 DEF TypeInv, TypeOK, FramesTyped, RunQueues

LEMMA HandleIrqTyped ==
    ASSUME TypeInv, NEW i \in Irqs, handle_irq(i)
    PROVE  TypeInv'
<1> DEFINE d == irq_owners[i]
<1>1. d \in Tasks /\ "IRQ" \in Notifications /\ notify(d, "IRQ")
  BY DEF handle_irq, TypeInv, TypeOK, Notifications
<1>2. UNCHANGED <<src, senders, timeout, pager, ref_count, priority, caps,
                  irq_owners, frame, saved, owed>>
  BY DEF handle_irq, stacks
<1>3. \/ task_switch(Notified(d))
      \/ runqueues' = Notified(d) /\ UNCHANGED <<current, quantum>>
  BY DEF handle_irq
<1> HIDE DEF d
<1>4. /\ m' \in [Tasks -> Messages]
      /\ notifications' \in [Tasks -> SUBSET Notifications]
      /\ state' \in [Tasks -> {"unused", "runnable", "blocked"}]
      /\ Notified(d) \in RunQueues
  BY <1>1, NotifyTyped
<1>5. /\ runqueues' \in RunQueues /\ current' \in Tasks \cup {IDLE_TASK}
      /\ quantum' \in 0..TIME_SLICE
  BY <1>3, <1>4, SwitchTyped DEF TypeInv, TypeOK
<1> QED BY <1>2, <1>4, <1>5 DEF TypeInv, TypeOK, FramesTyped, RunQueues

Ticking == {t \in Tasks : state[t] # "unused" /\ timeout[t] > 0}
Expired == {t \in Ticking : timeout[t] = 1}
Woken == {t \in Expired : TakesNotification(t)}

\* handle_timer_irq with its local definitions made global.
LEMMA TimerStep ==
    ASSUME handle_timer_irq
    PROVE  /\ InterruptsEnabled
           /\ timeout' = [t \in Tasks |-> IF t \in Ticking THEN timeout[t] - 1
                                          ELSE timeout[t]]
           /\ m' = [t \in Tasks |->
                      IF t \in Woken
                      THEN [type |-> "notifications", src |-> KERNEL_TASK]
                      ELSE m[t]]
           /\ notifications' =
                [t \in Tasks |-> IF t \in Woken THEN {}
                                 ELSE IF t \in Expired
                                      THEN notifications[t] \cup {"TIMER"}
                                      ELSE notifications[t]]
           /\ state' = [t \in Tasks |-> IF t \in Woken THEN "runnable"
                                        ELSE state[t]]
           /\ \E b \in Batches(Woken) :
                LET rq == [p \in Prios |-> runqueues[p] \o b[p]]
                IN  \/ /\ TimerSwitches(Expired)
                       /\ task_switch(IF current = IDLE_TASK THEN rq
                                      ELSE enqueue_task(rq, current))
                    \/ /\ ~TimerSwitches(Expired)
                       /\ quantum' = quantum - 1
                       /\ runqueues' = rq
                       /\ UNCHANGED current
           /\ UNCHANGED <<src, senders, pager, ref_count, priority, caps,
                          irq_owners, frame, saved, owed>>
BY DEF handle_timer_irq, Ticking, Expired, Woken, stacks

LEMMA TimerTyped ==
    ASSUME TypeInv, handle_timer_irq
    PROVE  TypeInv'
<1>1. UNCHANGED <<src, senders, pager, ref_count, priority, caps, irq_owners, frame,
                  saved, owed>>
  BY TimerStep
<1>2. timeout' \in [Tasks -> 0..MAX_TIMEOUT]
  <2>1. timeout' = [t \in Tasks |-> IF t \in Ticking THEN timeout[t] - 1
                                    ELSE timeout[t]]
    BY TimerStep
  <2>2. ASSUME NEW t \in Tasks
        PROVE  (IF t \in Ticking THEN timeout[t] - 1 ELSE timeout[t]) \in 0..MAX_TIMEOUT
    BY SMTT(30), ConstantsAssumption DEF Ticking, TypeInv, TypeOK
  <2> QED BY <2>1, <2>2
<1>3. m' \in [Tasks -> Messages]
  <2>1. [type |-> "notifications", src |-> KERNEL_TASK] \in Messages
    BY DEF Messages, MsgTypes
  <2> QED BY <2>1, TimerStep DEF TypeInv, TypeOK
<1>4. /\ notifications' \in [Tasks -> SUBSET Notifications]
      /\ state' \in [Tasks -> {"unused", "runnable", "blocked"}]
  <2>1. "TIMER" \in Notifications
    BY DEF Notifications
  <2>2. notifications' \in [Tasks -> SUBSET Notifications]
    <3>1. notifications' =
            [t \in Tasks |-> IF t \in Woken THEN {}
                             ELSE IF t \in Expired
                                  THEN notifications[t] \cup {"TIMER"}
                                  ELSE notifications[t]]
      BY TimerStep
    <3>2. ASSUME NEW t \in Tasks
          PROVE  /\ notifications[t] \cup {"TIMER"} \in SUBSET Notifications
                 /\ notifications[t] \in SUBSET Notifications
      BY <2>1 DEF TypeInv, TypeOK
    <3> QED BY <3>1, <3>2
  <2>3. state' \in [Tasks -> {"unused", "runnable", "blocked"}]
    BY TimerStep DEF TypeInv, TypeOK
  <2> QED BY <2>2, <2>3
<1>5. /\ runqueues' \in RunQueues /\ current' \in Tasks \cup {IDLE_TASK}
      /\ quantum' \in 0..TIME_SLICE
  <2>1. PICK b \in Batches(Woken) :
          LET rq == [p \in Prios |-> runqueues[p] \o b[p]]
          IN  \/ task_switch(IF current = IDLE_TASK THEN rq
                             ELSE enqueue_task(rq, current))
              \/ /\ ~TimerSwitches(Expired) /\ quantum' = quantum - 1
                 /\ runqueues' = rq /\ UNCHANGED current
    BY TimerStep
  <2> DEFINE rq == [p \in Prios |-> runqueues[p] \o b[p]]
             rq2 == IF current = IDLE_TASK THEN rq ELSE enqueue_task(rq, current)
  <2>2. Woken \in SUBSET Tasks
    BY DEF Woken, Expired, Ticking
  <2>3. ASSUME NEW p \in Prios PROVE runqueues[p] \o b[p] \in Seq(Tasks)
    <3>1. b[p] \in Seq(Tasks)
      BY <2>2, BatchTyped DEF TypeInv
    <3>2. runqueues[p] \in Seq(Tasks)
      BY DEF TypeInv, TypeOK
    <3> QED BY <3>1, <3>2, ConcatProperties
  <2>4. rq \in RunQueues
    BY <2>3 DEF RunQueues
  <2>5. rq2 \in RunQueues
    <3> HIDE DEF rq
    <3> QED BY <2>4, EnqueueTyped DEF TypeInv, TypeOK
  <2>6. \/ task_switch(rq2)
        \/ /\ ~TimerSwitches(Expired) /\ quantum' = quantum - 1
           /\ runqueues' = rq /\ UNCHANGED current
    BY <2>1
  <2> HIDE DEF rq, rq2
  <2>7. CASE task_switch(rq2)
    BY <2>5, <2>7, SwitchTyped
  <2>8. CASE ~TimerSwitches(Expired) /\ quantum' = quantum - 1
             /\ runqueues' = rq /\ UNCHANGED current
    <3>1. quantum' \in 0..TIME_SLICE
      BY SMTT(30), <2>8, ConstantsAssumption DEF TimerSwitches, SliceOver, TypeInv, TypeOK
    <3> QED BY <3>1, <2>4, <2>8 DEF TypeInv, TypeOK
  <2> QED BY <2>6, <2>7, <2>8
<1> QED BY <1>1, <1>2, <1>3, <1>4, <1>5 DEF TypeInv, TypeOK, FramesTyped, RunQueues

-----------------------------------------------------------------------------
LEMMA InitTyped == Init => TypeInv
<1> SUFFICES ASSUME Init PROVE TypeInv
  OBVIOUS
<1>1. FramesTyped
  BY UserTyped DEF Init, FramesTyped, KernelOps
<1>2. runqueues \in [Prios -> Seq(Tasks)]
  <2>1. [i \in 1..(NUM_BOOT - 1) |-> i + 1] \in Seq(Tasks)
    <3>1. NUM_BOOT - 1 \in Nat /\ \A i \in 1..(NUM_BOOT - 1) : i + 1 \in Tasks
      BY SMTT(30), ConstantsAssumption DEF Tasks
    <3> QED BY SMTT(30), <3>1
  <2> DEFINE q == [i \in 1..(NUM_BOOT - 1) |-> i + 1]
  <2>2. runqueues = [p \in Prios |-> IF p = PRIORITY_MAX - 1 THEN q ELSE <<>>]
    BY DEF Init
  <2>3. <<>> \in Seq(Tasks)
    BY SMTT(30)
  <2> HIDE DEF q
  <2>4. q \in Seq(Tasks)
    BY <2>1 DEF q
  <2> QED BY <2>2, <2>3, <2>4
<1>3. timeout \in [Tasks -> 0..MAX_TIMEOUT] /\ ref_count \in [Tasks -> Int]
      /\ quantum \in 0..TIME_SLICE
  BY SMTT(30), ConstantsAssumption DEF Init
<1>4. priority \in [Tasks -> Prios] /\ current \in Tasks \cup {IDLE_TASK}
  BY TaskFacts DEF Init
<1>5. pager \in [Tasks -> Tasks \cup {NULL}]
  BY TaskFacts DEF Init
<1>6. /\ state \in [Tasks -> {"unused", "runnable", "blocked"}]
      /\ src \in [Tasks -> Tasks \cup {IPC_ANY, IPC_DENY}]
      /\ m \in [Tasks -> Messages]
      /\ notifications \in [Tasks -> SUBSET Notifications]
      /\ senders \in [Tasks -> Seq(Tasks)]
      /\ caps \in [Tasks -> BOOLEAN]
      /\ irq_owners \in [Irqs -> Tasks \cup {NULL}]
      /\ owed \in [Tasks -> SUBSET Tasks]
  BY SMTT(30), NoMessageTyped DEF Init
<1> QED BY <1>1, <1>2, <1>3, <1>4, <1>5, <1>6 DEF TypeInv, TypeOK, FramesTyped

LEMMA NextTyped == TypeInv /\ [Next]_vars => TypeInv'
<1> SUFFICES ASSUME TypeInv, [Next]_vars PROVE TypeInv'
  OBVIOUS
<1>1. CASE UNCHANGED vars
  BY <1>1 DEF vars, TypeInv, TypeOK, FramesTyped
<1>2. ASSUME NEW t \in Tasks, KernelStep(t) PROVE TypeInv'
  <2>1. CASE \/ SendWouldBlock(t) \/ SendAborted(t) \/ RecvPending(t)
             \/ RecvWouldBlock(t) \/ RecvWake(t) \/ CopyOut(t) \/ CreateFails(t)
    BY <2>1, QuietSteps
  <2>2. CASE SendReady(t) \/ SendWake(t)
    <3>1. frame[t].pc \in SendPcs /\ Deliver(t) /\ UNCHANGED notifications
      BY <2>2 DEF SendReady, SendWake, AtSend, Running, SendPcs
    <3> QED BY <3>1, DeliverTyped
  <2>3. CASE SendBlock(t)
    BY <2>3, SendBlockTyped
  <2>4. CASE RecvBlock(t)
    BY <2>4, RecvBlockTyped
  <2>5. CASE FastCall(t)
    BY <2>5, FastCallTyped
  <2>6. CASE ExitBlock(t)
    BY <2>6, ExitBlockTyped
  <2>7. CASE task_create(t)
    BY <2>7, TaskCreateTyped
  <2> QED BY <1>2, <2>1, <2>2, <2>3, <2>4, <2>5, <2>6, <2>7 DEF KernelStep
<1>3. ASSUME NEW t \in Tasks, UserStep(t) PROVE TypeInv'
  <2>1. CASE \E fl \in USER_FLAGS, d \in Tasks \cup {NULL},
               s \in (Tasks \ {t}) \cup {IPC_ANY}, type \in USER_TYPES :
                 sys_ipc(t, d, s, fl, type)
    BY <2>1, SysIpcTyped
  <2>2. CASE \E d \in Tasks, n \in USER_NOTIFY : sys_notify(t, d, n)
    BY <2>2, ConstantsAssumption, SysNotifyTyped
  <2>3. CASE \/ \E v \in 0..MAX_TIMEOUT : sys_timer_set(t, v)
             \/ \E i \in Irqs : sys_irq_acquire(t, i) \/ sys_irq_release(t, i)
    BY <2>3, SmallCallsTyped
  <2>4. CASE \E r \in Tasks, p \in Prios : sys_task_schedule(t, r, p)
    BY <2>4, SysTaskScheduleTyped
  <2>5. CASE \E n, p \in Tasks, c \in CREATE_CAPS : sys_task_create(t, n, p, c)
    BY <2>5, SysTaskCreateTyped
  <2>6. CASE \E r \in Tasks : sys_task_destroy(t, r)
    BY <2>6, SysTaskDestroyTyped
  <2>7. CASE handle_page_fault(t) \/ abi_emu_hook(t) \/ task_exit(t)
    BY <2>7, QuietSteps
  <2> QED BY <1>3, <2>1, <2>2, <2>3, <2>4, <2>5, <2>6, <2>7 DEF UserStep
<1>4. CASE Interrupt
  BY <1>4, TimerTyped, HandleIrqTyped DEF Interrupt
<1> QED BY <1>1, <1>2, <1>3, <1>4 DEF Next

\* Every field of the task structures and of the scheduler keeps its type, with
\* both IPC paths, whatever the callers of the kernel do and whatever faults.
THEOREM TypeCorrectness == Spec => []TypeOK
<1>1. TypeInv => TypeOK
  BY DEF TypeInv
<1> QED BY <1>1, InitTyped, NextTyped, PTL DEF Spec

-----------------------------------------------------------------------------
(***************************************************************************)
(* The inductive invariant.                                                *)
(***************************************************************************)
\* The arguments a frame of task t still uses name other tasks; a task is
\* created with its creator as the pager.
FrameArgs(t, f) ==
    /\ f.pc \in SendPcs => f.dst # t
    /\ f.pc = "create" => f.dst # t /\ f.src = t

\* Where a task can be when it is unused or blocked, and in the fastpath.
FramesInv ==
    \A t \in Tasks :
        /\ state[t] = "unused" => frame[t].pc = "user" /\ t # current
        /\ state[t] = "blocked" =>
             \/ frame[t].pc = "recv_wake" /\ src[t] # IPC_DENY
             \/ frame[t].pc \in {"send_wake", "exited"} /\ src[t] = IPC_DENY
        /\ pager[t] # t
        /\ FrameArgs(t, frame[t]) /\ FrameArgs(t, saved[t])
        /\ frame[t].pc = "fastcopy" =>
             FASTPATH /\ current = t /\ notifications[t] = {}
        /\ saved[t].pc \in {"user", "copyin", "copyout", "create"}

\* A task in a sender queue is blocked in the send phase to that queue's owner.
SendersInv ==
    \A r \in Tasks :
        /\ IsInjective(senders[r])
        /\ \A s \in Range(senders[r]) :
             /\ state[s] = "blocked" /\ src[s] = IPC_DENY
             /\ frame[s].pc = "send_wake" /\ frame[s].dst = r

\* A caller whose request has been delivered waits for the answer, or is about
\* to: it is CURRENT, between the send phase and the receive phase.
CallersInv ==
    \A s \in Tasks : \A c \in owed[s] :
        \/ c # current /\ state[c] = "blocked" /\ src[c] = s
        \/ /\ c = current /\ frame[c].pc = "recv" /\ frame[c].src = s
           /\ "NOBLOCK" \notin frame[c].flags

\* The inductive invariant.
IInv ==
    /\ FramesInv /\ SendersInv /\ CallersInv
    /\ RunQueueExact /\ WorkConserving
    /\ ReceiverHolds /\ NoMissedRendezvous /\ NoLostWakeup
    /\ IrqOwnersLive

-----------------------------------------------------------------------------
(***************************************************************************)
(* The run queues.  Lists(rq, S, pr): rq holds exactly the tasks S, each    *)
(* once and in the queue of its priority.                                  *)
(***************************************************************************)
Lists(rq, S, pr) ==
    /\ rq \in RunQueues
    /\ \A p \in Prios : /\ IsInjective(rq[p])
                        /\ Range(rq[p]) = {t \in S : pr[t] = p}

Ready(st, cur) == {t \in Tasks : st[t] = "runnable" /\ t # cur}

Exact(rq, st, cur, pr) ==
    /\ cur # IDLE_TASK => st[cur] = "runnable"
    /\ Lists(rq, Ready(st, cur), pr)

LEMMA ExactEquiv ==
    ASSUME NEW rq \in RunQueues, NEW st, NEW cur, NEW pr
    PROVE  Exact(rq, st, cur, pr) <=>
             /\ cur # IDLE_TASK => st[cur] = "runnable"
             /\ \A p \in Prios :
                  /\ IsInjective(rq[p])
                  /\ \A t \in Tasks :
                       t \in Range(rq[p]) <=>
                           st[t] = "runnable" /\ t # cur /\ pr[t] = p
<1>1. ASSUME NEW p \in Prios
      PROVE  Range(rq[p]) = {t \in Ready(st, cur) : pr[t] = p} <=>
               \A t \in Tasks : t \in Range(rq[p]) <=>
                   st[t] = "runnable" /\ t # cur /\ pr[t] = p
  <2>1. Range(rq[p]) \subseteq Tasks
    BY SMTT(30) DEF Range, RunQueues
  <2> QED BY <2>1 DEF Ready
<1> QED BY <1>1 DEF Exact, Lists

LEMMA RunQueueEquiv ==
    /\ TypeOK => (RunQueueExact <=> Exact(runqueues, state, current, priority))
    /\ TypeOK' => (RunQueueExact' <=> Exact(runqueues', state', current', priority'))
<1>1. ASSUME TypeOK PROVE RunQueueExact <=> Exact(runqueues, state, current, priority)
  <2>1. runqueues \in RunQueues
    BY <1>1 DEF TypeOK, RunQueues
  <2> QED BY SMTT(30), <2>1, ExactEquiv DEF RunQueueExact
<1>2. ASSUME TypeOK'
      PROVE  RunQueueExact' <=> Exact(runqueues', state', current', priority')
  <2>1. runqueues' \in RunQueues
    BY <1>2 DEF TypeOK, RunQueues
  <2> QED BY SMTT(30), <2>1, ExactEquiv DEF RunQueueExact
<1> QED BY <1>1, <1>2

LEMMA AppendLists ==
    ASSUME NEW rq, NEW S \in SUBSET Tasks, NEW t \in Tasks, t \notin S,
           NEW pr \in [Tasks -> Prios], Lists(rq, S, pr)
    PROVE  Lists([rq EXCEPT ![pr[t]] = Append(rq[pr[t]], t)], S \cup {t}, pr)
<1> DEFINE k == pr[t]
           rq2 == [rq EXCEPT ![k] = Append(rq[k], t)]
<1>1. rq \in RunQueues /\ k \in Prios /\ rq[k] \in Seq(Tasks)
  BY DEF Lists, RunQueues
<1>2. rq2 = [rq EXCEPT ![k] = Append(rq[k], t)]
  OBVIOUS
<1> HIDE DEF rq2
<1>3. t \notin Range(rq[k]) /\ IsInjective(rq[k])
  BY <1>1 DEF Lists
<1>4. /\ Append(rq[k], t) \in Seq(Tasks) /\ IsInjective(Append(rq[k], t))
      /\ Range(Append(rq[k], t)) = Range(rq[k]) \cup {t}
  BY SMTT(30), <1>1, <1>3, AppendRange
<1>5. rq2 \in RunQueues
  BY <1>1, <1>2, <1>4 DEF RunQueues
<1>6. ASSUME NEW p \in Prios
      PROVE  /\ IsInjective(rq2[p])
             /\ Range(rq2[p]) = {x \in S \cup {t} : pr[x] = p}
  <2>1. CASE p = k
    <3>1. rq2[p] = Append(rq[k], t)
      BY <1>1, <1>2, <2>1 DEF RunQueues
    <3>2. Range(rq[k]) = {x \in S : pr[x] = k}
      BY <1>1 DEF Lists
    <3> QED BY <3>1, <3>2, <1>4, <2>1
  <2>2. CASE p # k
    <3>1. rq2[p] = rq[p]
      BY <1>1, <1>2, <2>2 DEF RunQueues
    <3> QED BY <3>1, <2>2 DEF Lists
  <2> QED BY <2>1, <2>2
<1> QED BY <1>5, <1>6 DEF Lists, rq2

LEMMA EnqueueLists ==
    ASSUME TypeOK, NEW rq, NEW S \in SUBSET Tasks, NEW t \in Tasks, t \notin S,
           Lists(rq, S, priority)
    PROVE  Lists(enqueue_task(rq, t), S \cup {t}, priority)
<1>1. priority \in [Tasks -> Prios]
  BY DEF TypeOK
<1>2. Lists([rq EXCEPT ![priority[t]] = Append(rq[priority[t]], t)], S \cup {t}, priority)
  BY <1>1, AppendLists
<1> QED BY <1>2 DEF enqueue_task

\* Only the priorities of the listed tasks matter.
LEMMA ListsPriority ==
    ASSUME NEW rq, NEW S \in SUBSET Tasks, NEW pr, NEW pr2, Lists(rq, S, pr),
           \A x \in S : pr2[x] = pr[x]
    PROVE  Lists(rq, S, pr2)
<1>1. \A p \in Prios : {t \in S : pr[t] = p} = {t \in S : pr2[t] = p}
  OBVIOUS
<1> QED BY <1>1 DEF Lists

\* The scheduler takes the highest-priority task out of the queues.
LEMMA SwitchLists ==
    ASSUME NEW rq, NEW S \in SUBSET Tasks, NEW pr \in [Tasks -> Prios],
           Lists(rq, S, pr), task_switch(rq)
    PROVE  /\ Lists(runqueues', S \ {current'}, pr)
           /\ \/ current' = IDLE_TASK /\ S = {}
              \/ /\ current' \in S
                 /\ \A t \in S : pr[current'] <= pr[t]
<1>1. rq \in RunQueues
  BY DEF Lists
<1>2. CASE \A p \in Prios : rq[p] = <<>>
  <2>1. current' = IDLE_TASK /\ runqueues' = rq
    BY <1>2 DEF task_switch
  <2>2. S = {}
    <3>1. \A p \in Prios : Range(rq[p]) = {}
      BY SMTT(30), <1>2 DEF Range
    <3> QED BY <3>1 DEF Lists
  <2> QED BY <2>1, <2>2
<1>3. CASE ~\A p \in Prios : rq[p] = <<>>
  <2>1. PICK p \in Prios :
          /\ rq[p] # <<>>
          /\ \A q \in Prios : q < p => rq[q] = <<>>
          /\ current' = Head(rq[p])
          /\ runqueues' = [q \in Prios |-> IF q = p THEN Tail(rq[q]) ELSE rq[q]]
    BY <1>3 DEF task_switch
  <2>2. /\ Tail(rq[p]) \in Seq(Tasks) /\ IsInjective(Tail(rq[p]))
        /\ Head(rq[p]) \in Range(rq[p])
        /\ Range(Tail(rq[p])) = Range(rq[p]) \ {Head(rq[p])}
    BY <1>1, <2>1, TailRange DEF Lists, RunQueues
  <2>3. current' \in S /\ pr[current'] = p
    BY <2>1, <2>2 DEF Lists
  <2>4. ASSUME NEW t \in S PROVE p <= pr[t]
    <3>1. pr[t] \in Prios /\ t \in Range(rq[pr[t]])
      BY DEF Lists
    <3>2. rq[pr[t]] # <<>>
      BY SMTT(30), <3>1 DEF Range
    <3>3. ~(pr[t] < p) /\ p \in Int /\ pr[t] \in Int
      BY SMTT(30), <2>1, <3>1, <3>2, ConstantsAssumption DEF Prios
    <3> QED BY SMTT(30), <3>3
  <2>5. runqueues' \in RunQueues
    BY <1>1, <2>1, <2>2 DEF RunQueues
  <2>6. ASSUME NEW q \in Prios
        PROVE  /\ IsInjective(runqueues'[q])
               /\ Range(runqueues'[q]) = {x \in S \ {current'} : pr[x] = q}
    <3>1. CASE q = p
      BY <2>1, <2>2, <3>1 DEF Lists
    <3>2. CASE q # p
      BY <2>1, <2>3, <3>2 DEF Lists
    <3> QED BY <3>1, <3>2
  <2> QED BY <2>3, <2>4, <2>5, <2>6 DEF Lists
<1> QED BY <1>2, <1>3

LEMMA RemoveLists ==
    ASSUME NEW rq, NEW S \in SUBSET Tasks, NEW pr, NEW r \in Tasks, Lists(rq, S, pr)
    PROVE  Lists([p \in Prios |-> list_remove(rq[p], r)], S \ {r}, pr)
<1>1. ASSUME NEW p \in Prios
      PROVE  /\ list_remove(rq[p], r) \in Seq(Tasks)
             /\ IsInjective(list_remove(rq[p], r))
             /\ Range(list_remove(rq[p], r)) = {x \in S \ {r} : pr[x] = p}
  <2>1. /\ rq[p] \in Seq(Tasks) /\ IsInjective(rq[p])
        /\ Range(rq[p]) = {x \in S : pr[x] = p}
    BY DEF Lists, RunQueues
  <2>2. /\ list_remove(rq[p], r) \in Seq(Tasks)
        /\ IsInjective(list_remove(rq[p], r))
        /\ Range(list_remove(rq[p], r)) = Range(rq[p]) \ {r}
    BY <2>1, RemoveRange
  <2> QED BY <2>1, <2>2
<1> QED BY <1>1 DEF Lists, RunQueues

LEMMA BatchLists ==
    ASSUME TypeOK, NEW S \in SUBSET Tasks, NEW W \in SUBSET Tasks, S \cap W = {},
           Lists(runqueues, S, priority), NEW b \in Batches(W)
    PROVE  Lists([p \in Prios |-> runqueues[p] \o b[p]], S \cup W, priority)
<1>1. ASSUME NEW p \in Prios
      PROVE  /\ runqueues[p] \o b[p] \in Seq(Tasks)
             /\ IsInjective(runqueues[p] \o b[p])
             /\ Range(runqueues[p] \o b[p]) = {x \in S \cup W : priority[x] = p}
  <2>1. /\ runqueues[p] \in Seq(Tasks) /\ IsInjective(runqueues[p])
        /\ Range(runqueues[p]) = {x \in S : priority[x] = p}
    BY DEF Lists, RunQueues
  <2>2. /\ b[p] \in Seq(Tasks) /\ IsInjective(b[p])
        /\ Range(b[p]) = {x \in W : priority[x] = p}
    BY SMTT(30), BatchTyped
  <2>3. /\ runqueues[p] \o b[p] \in Seq(Tasks)
        /\ IsInjective(runqueues[p] \o b[p])
        /\ Range(runqueues[p] \o b[p]) = Range(runqueues[p]) \cup Range(b[p])
    <3>1. Range(runqueues[p]) \cap Range(b[p]) = {}
      BY <2>1, <2>2
    <3> QED BY SMTT(30), <2>1, <2>2, <3>1, ConcatRange
  <2> QED BY <2>1, <2>2, <2>3
<1> QED BY <1>1 DEF Lists, RunQueues

-----------------------------------------------------------------------------
(***************************************************************************)
(* What holds of the running task.                                         *)
(***************************************************************************)
LEMMA CurrentFacts ==
    ASSUME TypeInv, IInv, NEW t \in Tasks, current = t
    PROVE  /\ state[t] = "runnable" /\ t # IDLE_TASK
           /\ \A x \in Tasks : x # t => frame[x].pc # "fastcopy"
           /\ \A r \in Tasks : t \notin Range(senders[r])
<1>1. t # IDLE_TASK
  BY TaskFacts
<1>2. state[t] = "runnable"
  BY <1>1 DEF IInv, RunQueueExact
<1>3. \A x \in Tasks : x # t => frame[x].pc # "fastcopy"
  BY DEF IInv, FramesInv
<1>4. \A r \in Tasks : t \notin Range(senders[r])
  BY <1>2 DEF IInv, SendersInv
<1> QED BY <1>1, <1>2, <1>3, <1>4

\* Only a task about to block for an answer is owed one while it runs.
LEMMA NotOwed ==
    ASSUME TypeInv, IInv, NEW t \in Tasks, current = t,
           \/ frame[t].pc # "recv" \/ frame[t].src = IPC_ANY
           \/ "NOBLOCK" \in frame[t].flags
    PROVE  \A s \in Tasks : t \notin owed[s]
<1> SUFFICES ASSUME NEW s \in Tasks, t \in owed[s] PROVE FALSE
  OBVIOUS
<1>1. frame[t].pc = "recv" /\ frame[t].src = s /\ "NOBLOCK" \notin frame[t].flags
  BY DEF IInv, CallersInv
<1>2. s # IPC_ANY
  BY TaskFacts
<1> QED BY <1>1, <1>2

\* A task in a sender queue is not CURRENT, and its queue's owner is not itself.
LEMMA SenderFacts ==
    ASSUME TypeInv, IInv, NEW r \in Tasks, NEW s \in Range(senders[r])
    PROVE  /\ s \in Tasks /\ s # r /\ s # current
           /\ state[s] = "blocked" /\ src[s] = IPC_DENY
           /\ frame[s].pc = "send_wake" /\ frame[s].dst = r
<1>1. s \in Tasks
  BY SMTT(30) DEF TypeInv, TypeOK, Range
<1>2. /\ state[s] = "blocked" /\ src[s] = IPC_DENY
      /\ frame[s].pc = "send_wake" /\ frame[s].dst = r
  BY DEF IInv, SendersInv
<1>3. s # r
  BY <1>1, <1>2 DEF IInv, FramesInv, FrameArgs, SendPcs
<1>4. s # current
  BY <1>1, <1>2, CurrentFacts
<1> QED BY <1>1, <1>2, <1>3, <1>4

-----------------------------------------------------------------------------
(***************************************************************************)
(* Steps of the running task that change only its own stack and its own    *)
(* notifications.                                                          *)
(***************************************************************************)
LEMMA QuietInv ==
    ASSUME TypeInv, TypeInv', IInv, NEW t \in Tasks, current = t,
           NEW f, NEW g,
           frame' = [frame EXCEPT ![t] = f], saved' = [saved EXCEPT ![t] = g],
           FrameArgs(t, f), FrameArgs(t, g),
           g.pc \in {"user", "copyin", "copyout", "create"},
           f.pc # "send_wake",
           f.pc = "fastcopy" => /\ FASTPATH /\ notifications'[t] = {}
                                /\ ReceiverReady(f.dst, t),
           \A s \in Tasks : t \notin owed[s],
           \A x \in Tasks : x # t => notifications'[x] = notifications[x],
           UNCHANGED <<state, src, senders, pager, priority, sched, irq_owners, owed>>
    PROVE  IInv'
<1>1. /\ frame'[t] = f /\ saved'[t] = g
      /\ \A x \in Tasks : x # t => frame'[x] = frame[x] /\ saved'[x] = saved[x]
  BY DEF TypeInv, TypeOK
<1>2. /\ state[t] = "runnable" /\ t # IDLE_TASK
      /\ \A x \in Tasks : x # t => frame[x].pc # "fastcopy"
      /\ \A r \in Tasks : t \notin Range(senders[r])
  BY CurrentFacts
<1>3. FramesInv'
  <2> SUFFICES ASSUME NEW x \in Tasks
               PROVE  (/\ state[x] = "unused" => frame[x].pc = "user" /\ x # current
                       /\ state[x] = "blocked" =>
                            \/ frame[x].pc = "recv_wake" /\ src[x] # IPC_DENY
                            \/ frame[x].pc \in {"send_wake", "exited"} /\ src[x] = IPC_DENY
                       /\ pager[x] # x
                       /\ FrameArgs(x, frame[x]) /\ FrameArgs(x, saved[x])
                       /\ frame[x].pc = "fastcopy" =>
                            FASTPATH /\ current = x /\ notifications[x] = {}
                       /\ saved[x].pc \in {"user", "copyin", "copyout", "create"})'
    BY DEF FramesInv
  <2>1. CASE x = t
    BY SMTT(30), <2>1, <1>1, <1>2 DEF IInv, FramesInv, sched, FrameArgs
  <2>2. CASE x # t
    BY SMTT(30), <2>2, <1>1, <1>2 DEF IInv, FramesInv, sched, FrameArgs
  <2> QED BY <2>1, <2>2
<1>4. SendersInv'
  <2>1. ASSUME NEW r \in Tasks, NEW s \in Range(senders[r]) PROVE frame'[s] = frame[s]
    BY SMTT(30), <1>1, <1>2, SenderFacts
  <2> QED BY SMTT(30), <2>1 DEF IInv, SendersInv
<1>5. CallersInv'
  <2>1. ASSUME NEW s \in Tasks, NEW c \in owed[s] PROVE c \in Tasks /\ c # t
    BY SMTT(30) DEF TypeInv, TypeOK
  <2> QED BY SMTT(30), <2>1 DEF IInv, CallersInv, sched
<1>6. RunQueueExact' /\ WorkConserving' /\ IrqOwnersLive'
  BY SMTT(30) DEF IInv, RunQueueExact, WorkConserving, IrqOwnersLive, sched
<1>7. ReceiverHolds'
  <2> SUFFICES ASSUME NEW x \in Tasks
               PROVE  /\ OnItsWay(x)' => state[frame'[x].dst] = "blocked" /\ src[frame'[x].dst] = x
                      /\ Running(x, "fastcopy")' => ReceiverReady(frame'[x].dst, x)
    BY DEF ReceiverHolds, ReceiverReady, Running
  <2>1. CASE x = t
    BY <2>1, <1>1 DEF OnItsWay, Running
  <2>2. CASE x # t
    BY SMTT(30), <2>2, <1>1, <1>2 DEF OnItsWay, Running, IInv, ReceiverHolds
  <2> QED BY <2>1, <2>2
<1>8. NoMissedRendezvous'
  BY DEF IInv, NoMissedRendezvous
<1>9. NoLostWakeup'
  BY <1>2 DEF IInv, NoLostWakeup
<1> QED BY <1>3, <1>4, <1>5, <1>6, <1>7, <1>8, <1>9 DEF IInv

LEMMA FrameArgsFacts ==
    ASSUME TypeInv, IInv, NEW t \in Tasks
    PROVE  /\ FrameArgs(t, USER)
           /\ \A pc \in {"recv_wake", "copyout", "exiting"} :
                FrameArgs(t, Past(frame[t], pc))
           /\ FrameArgs(t, frame[t]) /\ FrameArgs(t, saved[t])
           /\ saved[t].pc \in {"user", "copyin", "copyout", "create"}
           /\ pager[t] # t
           /\ pager[t] \in Tasks =>
                \A f \in {FaultFrame(t), AbiFrame(t), ExitFrame(t)} : FrameArgs(t, f)
<1>1. FrameArgs(t, USER)
  BY UserTyped DEF FrameArgs, SendPcs
<1>2. ASSUME NEW pc \in {"recv_wake", "copyout", "exiting"}
      PROVE  FrameArgs(t, Past(frame[t], pc))
  <2>1. pc \in Pcs /\ frame[t] \in Frames
    BY DEF Pcs, TypeInv, TypeOK
  <2>2. Past(frame[t], pc).pc = pc
    BY <2>1, PastTyped
  <2> QED BY <2>2 DEF FrameArgs, SendPcs
<1>3. /\ FrameArgs(t, frame[t]) /\ FrameArgs(t, saved[t]) /\ pager[t] # t
      /\ saved[t].pc \in {"user", "copyin", "copyout", "create"}
  BY DEF IInv, FramesInv
<1>4. ASSUME pager[t] \in Tasks, NEW f \in {FaultFrame(t), AbiFrame(t), ExitFrame(t)}
      PROVE  FrameArgs(t, f)
  <2>1. f.pc = "send" /\ f.dst = pager[t]
    BY SMTT(30), <1>4, KernelFrameTyped DEF TypeInv
  <2> QED BY <2>1, <1>3 DEF FrameArgs
<1> QED BY <1>1, <1>2, <1>3, <1>4

\* An ipc() that returns leaves the send phase.
LEMMA IpcReturnsStack ==
    ASSUME TypeInv, IInv, NEW t \in Tasks, NEW err \in BOOLEAN, IpcReturns(t, err)
    PROVE  \E f, g :
             /\ frame' = [frame EXCEPT ![t] = f] /\ saved' = [saved EXCEPT ![t] = g]
             /\ FrameArgs(t, f) /\ FrameArgs(t, g) /\ g.pc = "user"
             /\ f.pc \in {"user", "exiting", "send"}
<1>1. saved' = [saved EXCEPT ![t] = USER] /\ FrameArgs(t, USER) /\ USER.pc = "user"
  BY FrameArgsFacts, UserTyped DEF IpcReturns
<1>2. CASE frame[t].op = "exit"
  <2>1. frame' = [frame EXCEPT ![t] = Past(frame[t], "exiting")]
    BY <1>2 DEF IpcReturns
  <2>2. Past(frame[t], "exiting").pc = "exiting"
    BY PastTyped DEF Pcs, TypeInv, TypeOK
  <2> QED BY <2>1, <2>2, <1>1, FrameArgsFacts
<1>3. CASE frame[t].op \in {"fault", "abi"} /\ err
  <2>1. frame' = [frame EXCEPT ![t] = ExitFrame(t)]
    BY <1>3 DEF IpcReturns
  <2>2. pager[t] \in Tasks
    BY <1>3 DEF TypeInv, FramesTyped, KernelOps
  <2>3. ExitFrame(t).pc = "send" /\ FrameArgs(t, ExitFrame(t))
    BY <2>2, KernelFrameTyped, FrameArgsFacts DEF TypeInv
  <2> QED BY <2>1, <2>3, <1>1
<1>4. CASE ~(frame[t].op = "exit") /\ ~(frame[t].op \in {"fault", "abi"} /\ err)
  <2>1. frame' = [frame EXCEPT ![t] = USER]
    BY <1>4 DEF IpcReturns
  <2> QED BY <2>1, <1>1
<1> QED BY <1>2, <1>3, <1>4

LEMMA ReturnsInv ==
    ASSUME TypeInv, TypeInv', IInv, NEW t \in Tasks, current = t,
           NEW err \in BOOLEAN, IpcReturns(t, err),
           \A s \in Tasks : t \notin owed[s],
           \A x \in Tasks : x # t => notifications'[x] = notifications[x],
           UNCHANGED <<state, src, senders, pager, priority, sched, irq_owners, owed>>
    PROVE  IInv'
<1>1. PICK f, g :
        /\ frame' = [frame EXCEPT ![t] = f] /\ saved' = [saved EXCEPT ![t] = g]
        /\ FrameArgs(t, f) /\ FrameArgs(t, g) /\ g.pc = "user"
        /\ f.pc \in {"user", "exiting", "send"}
  BY IpcReturnsStack
<1> QED BY <1>1, QuietInv

\* The same for a step that leaves the saved frame alone.
LEMMA FrameInv ==
    ASSUME TypeInv, TypeInv', IInv, NEW t \in Tasks, current = t, NEW f,
           frame' = [frame EXCEPT ![t] = f], FrameArgs(t, f), f.pc # "send_wake",
           f.pc = "fastcopy" => /\ FASTPATH /\ notifications'[t] = {}
                                /\ ReceiverReady(f.dst, t),
           \A s \in Tasks : t \notin owed[s],
           \A x \in Tasks : x # t => notifications'[x] = notifications[x],
           UNCHANGED <<state, src, senders, pager, priority, sched, irq_owners,
                       saved, owed>>
    PROVE  IInv'
<1>1. saved' = [saved EXCEPT ![t] = saved[t]]
  BY DEF TypeInv, TypeOK
<1>2. /\ FrameArgs(t, saved[t])
      /\ saved[t].pc \in {"user", "copyin", "copyout", "create"}
  BY FrameArgsFacts
<1> QED BY <1>1, <1>2, QuietInv

LEMMA QuietStepsInv ==
    ASSUME TypeInv, TypeInv', IInv, NEW t \in Tasks, ~(FASTPATH /\ FASTFAULT),
           \/ SendWouldBlock(t) \/ SendAborted(t) \/ RecvPending(t)
           \/ RecvWouldBlock(t) \/ RecvWake(t) \/ CopyOut(t) \/ CreateFails(t)
           \/ handle_page_fault(t) \/ abi_emu_hook(t) \/ task_exit(t)
    PROVE  IInv'
<1>0. /\ frame[t] \in Frames /\ notifications \in [Tasks -> SUBSET Notifications]
  BY DEF TypeInv, TypeOK
<1>1. ASSUME SendWouldBlock(t) PROVE IInv'
  <2>1. \A s \in Tasks : t \notin owed[s]
    BY <1>1, NotOwed DEF SendWouldBlock, AtSend, Running
  <2>2. current = t /\ IpcReturns(t, TRUE)
    BY <1>1 DEF SendWouldBlock, AtSend, Running
  <2> QED BY <1>1, <2>1, <2>2, ReturnsInv DEF SendWouldBlock
<1>2. ASSUME SendAborted(t) PROVE IInv'
  <2>1. current = t /\ IpcReturns(t, TRUE) /\ frame[t].pc = "send_wake"
    BY <1>2 DEF SendAborted, Running
  <2>2. \A s \in Tasks : t \notin owed[s]
    BY <2>1, NotOwed
  <2>3. \A x \in Tasks : x # t => notifications'[x] = notifications[x]
    BY <1>0, <1>2 DEF SendAborted
  <2> QED BY <1>2, <2>1, <2>2, <2>3, ReturnsInv DEF SendAborted
<1>3. ASSUME RecvPending(t) PROVE IInv'
  <2>1. current = t /\ frame[t].src = IPC_ANY
    BY <1>3 DEF RecvPending, Running
  <2>2. \A s \in Tasks : t \notin owed[s]
    BY <2>1, NotOwed
  <2>3. \A x \in Tasks : x # t => notifications'[x] = notifications[x]
    BY <1>0, <1>3 DEF RecvPending
  <2>4. frame' = [frame EXCEPT ![t] = Past(frame[t], "copyout")]
    BY <1>3 DEF RecvPending
  <2>5. Past(frame[t], "copyout").pc = "copyout" /\ FrameArgs(t, Past(frame[t], "copyout"))
    BY <1>0, PastTyped, FrameArgsFacts DEF Pcs
  <2> QED BY <1>3, <2>1, <2>2, <2>3, <2>4, <2>5, FrameInv DEF RecvPending
<1>4. ASSUME RecvWouldBlock(t) PROVE IInv'
  <2>1. current = t /\ IpcReturns(t, TRUE) /\ "NOBLOCK" \in frame[t].flags
    BY <1>4 DEF RecvWouldBlock, Running
  <2>2. \A s \in Tasks : t \notin owed[s]
    BY <2>1, NotOwed
  <2> QED BY <1>4, <2>1, <2>2, ReturnsInv DEF RecvWouldBlock
<1>5. ASSUME RecvWake(t) PROVE IInv'
  <2>1. current = t /\ frame[t].pc = "recv_wake"
    BY <1>5 DEF RecvWake, Running
  <2>2. \A s \in Tasks : t \notin owed[s]
    BY <2>1, NotOwed
  <2>3. /\ \A x \in Tasks : x # t => notifications'[x] = notifications[x]
        /\ UNCHANGED <<state, src, senders, pager, priority, sched, irq_owners, owed>>
    BY <1>5 DEF RecvWake
  <2>4. CASE frame[t].op = "ipc"
    <3>1. frame' = [frame EXCEPT ![t] = Past(frame[t], "copyout")] /\ UNCHANGED saved
      BY <1>5, <2>4 DEF RecvWake
    <3>2. Past(frame[t], "copyout").pc = "copyout" /\ FrameArgs(t, Past(frame[t], "copyout"))
      BY <1>0, PastTyped, FrameArgsFacts DEF Pcs
    <3> QED BY <2>1, <2>2, <2>3, <3>1, <3>2, FrameInv
  <2>5. CASE frame[t].op # "ipc"
    <3>1. saved' = [saved EXCEPT ![t] = USER]
      BY <1>5, <2>5 DEF RecvWake
    <3>2. USER.pc = "user" /\ FrameArgs(t, USER)
      BY UserTyped, FrameArgsFacts
    <3>3. \/ frame' = [frame EXCEPT ![t] = saved[t]]
          \/ frame' = [frame EXCEPT ![t] = ExitFrame(t)]
      BY <1>5, <2>5 DEF RecvWake
    <3>4. CASE frame' = [frame EXCEPT ![t] = saved[t]]
      <4>1. /\ FrameArgs(t, saved[t])
            /\ saved[t].pc \in {"user", "copyin", "copyout", "create"}
        BY FrameArgsFacts
      <4> QED BY <2>1, <2>2, <2>3, <3>1, <3>2, <3>4, <4>1, QuietInv
    <3>5. CASE frame' = [frame EXCEPT ![t] = ExitFrame(t)]
      <4>1. pager[t] \in Tasks
        BY <1>0, <2>1, <2>5 DEF TypeInv, FramesTyped, FrameTyped, KernelOps, Frames, Ops
      <4>2. ExitFrame(t).pc = "send" /\ FrameArgs(t, ExitFrame(t))
        BY <4>1, KernelFrameTyped, FrameArgsFacts DEF TypeInv
      <4> QED BY <2>1, <2>2, <2>3, <3>1, <3>2, <3>5, <4>2, QuietInv
    <3> QED BY <3>3, <3>4, <3>5
  <2> QED BY <2>4, <2>5
<1>6. ASSUME CopyOut(t) \/ CreateFails(t) PROVE IInv'
  <2>1. /\ current = t /\ frame[t].pc # "recv"
        /\ frame' = [frame EXCEPT ![t] = USER]
        /\ UNCHANGED <<state, src, notifications, senders, pager, priority, sched,
                       irq_owners, saved, owed>>
    BY <1>6 DEF CopyOut, CreateFails, Running
  <2>2. \A s \in Tasks : t \notin owed[s]
    BY <2>1, NotOwed
  <2>3. USER.pc = "user" /\ FrameArgs(t, USER)
    BY UserTyped, FrameArgsFacts
  <2> QED BY <2>1, <2>2, <2>3, FrameInv
<1>7. ASSUME handle_page_fault(t) PROVE IInv'
  <2>1. /\ current = t /\ frame[t].pc \in {"user"} \cup UserCopies
        /\ frame[t].pc = "fastcopy" => FASTFAULT
        /\ pager[t] \in Tasks
    BY <1>7 DEF handle_page_fault, TypeInv, TypeOK
  <2>2. frame[t].pc \in {"user", "copyin", "copyout", "create"}
    BY <2>1 DEF UserCopies, IInv, FramesInv
  <2>3. \A s \in Tasks : t \notin owed[s]
    BY <2>1, <2>2, NotOwed
  <2>4. FaultFrame(t).pc = "send" /\ FrameArgs(t, FaultFrame(t)) /\ FrameArgs(t, frame[t])
    BY <2>1, KernelFrameTyped, FrameArgsFacts DEF TypeInv
  <2>5. /\ frame' = [frame EXCEPT ![t] = FaultFrame(t)]
        /\ saved' = [saved EXCEPT ![t] = frame[t]]
        /\ UNCHANGED <<state, src, notifications, senders, pager, priority, sched,
                       irq_owners, owed>>
    BY <1>7 DEF handle_page_fault
  <2> QED BY <2>1, <2>2, <2>3, <2>4, <2>5, QuietInv
<1>8. ASSUME abi_emu_hook(t) \/ task_exit(t) PROVE IInv'
  <2>1. /\ current = t /\ frame[t].pc \in {"user"} \cup UserCopies
        /\ pager[t] \in Tasks
    BY <1>8 DEF abi_emu_hook, task_exit, Running, TypeInv, TypeOK
  <2>2. \A s \in Tasks : t \notin owed[s]
    BY <2>1, NotOwed DEF UserCopies
  <2>3. PICK f \in {AbiFrame(t), ExitFrame(t)} : frame' = [frame EXCEPT ![t] = f]
    BY <1>8 DEF abi_emu_hook, task_exit
  <2>4. f.pc = "send" /\ FrameArgs(t, f)
    <3>1. FrameArgs(t, f)
      BY <2>1, FrameArgsFacts
    <3>2. f.pc = "send"
      BY <2>1, KernelFrameTyped DEF TypeInv
    <3> QED BY <3>1, <3>2
  <2>5. UNCHANGED <<state, src, notifications, senders, pager, priority, sched,
                    irq_owners, saved, owed>>
    BY <1>8 DEF abi_emu_hook, task_exit
  <2> QED BY <2>1, <2>2, <2>3, <2>4, <2>5, FrameInv
<1> QED BY <1>1, <1>2, <1>3, <1>4, <1>5, <1>6, <1>7, <1>8

LEMMA SysIpcInv ==
    ASSUME TypeInv, TypeInv', IInv, NEW t \in Tasks,
           NEW fl \in SUBSET IpcFlags, NEW d \in Tasks \cup {NULL},
           NEW s \in (Tasks \ {t}) \cup {IPC_ANY}, NEW type, sys_ipc(t, d, s, fl, type)
    PROVE  IInv'
<1> DEFINE fast == FastpathTaken(t, d, fl)
           f == [op |-> "ipc",
                 pc |-> IF fast THEN "fastcopy"
                        ELSE IF "SEND" \in fl THEN "copyin" ELSE "recv",
                 dst |-> d, src |-> IF "RECV" \in fl THEN s ELSE IPC_ANY,
                 flags |-> fl,
                 m |-> IF "SEND" \in fl
                       THEN [type |-> type, src |-> KERNEL_TASK] ELSE NoMessage]
<1>1. /\ current = t /\ frame[t].pc = "user"
      /\ frame' = [frame EXCEPT ![t] = f]
      /\ UNCHANGED <<state, src, notifications, senders, pager, priority, sched,
                     irq_owners, saved, owed>>
  BY DEF sys_ipc, Running
<1>2. \A x \in Tasks : t \notin owed[x]
  BY <1>1, NotOwed
<1>3. "SEND" \in fl => d # t
  BY DEF sys_ipc
<1>4. fast => "SEND" \in fl /\ FASTPATH /\ ReceiverReady(d, t) /\ notifications[t] = {}
  <2>1. fast => fl \ {"NOBLOCK"} = {"SEND", "RECV"}
    BY DEF FastpathTaken
  <2>2. fast => FASTPATH /\ ReceiverReady(d, t) /\ notifications[t] = {}
    BY DEF FastpathTaken
  <2> QED BY <2>1, <2>2
<1>5. /\ f.pc \in {"fastcopy", "copyin", "recv"} /\ f.dst = d
      /\ f.pc # "recv" => "SEND" \in fl
      /\ f.pc = "fastcopy" => fast
  BY <1>4
<1> HIDE DEF f
<1>6. FrameArgs(t, f)
  BY <1>3, <1>5 DEF FrameArgs, SendPcs
<1> QED BY <1>1, <1>2, <1>4, <1>5, <1>6, FrameInv

LEMMA SysTaskCreateInv ==
    ASSUME TypeInv, TypeInv', IInv, DISCIPLINED, NEW t \in Tasks, NEW n \in Tasks,
           NEW p \in Tasks, NEW c \in BOOLEAN, sys_task_create(t, n, p, c)
    PROVE  IInv'
<1> DEFINE f == [op |-> "create", pc |-> "create", dst |-> n, src |-> p,
                 flags |-> IF c THEN {"CAPS"} ELSE {}, m |-> NoMessage]
<1>1. /\ current = t /\ frame[t].pc = "user" /\ n # t /\ p = t
      /\ frame' = [frame EXCEPT ![t] = f]
      /\ UNCHANGED <<state, src, notifications, senders, pager, priority, sched,
                     irq_owners, saved, owed>>
  BY DEF sys_task_create, Running
<1>2. \A x \in Tasks : t \notin owed[x]
  BY <1>1, NotOwed
<1>3. f.pc = "create" /\ FrameArgs(t, f)
  BY <1>1 DEF FrameArgs, SendPcs
<1> QED BY <1>1, <1>2, <1>3, FrameInv

-----------------------------------------------------------------------------
(***************************************************************************)
(* The run queues hold the runnable tasks other than CURRENT.              *)
(***************************************************************************)
LEMMA ListsReady ==
    ASSUME TypeInv, IInv
    PROVE  /\ Lists(runqueues, Ready(state, current), priority)
           /\ Ready(state, current) \in SUBSET Tasks
           /\ priority \in [Tasks -> Prios]
<1>1. Exact(runqueues, state, current, priority)
  BY RunQueueEquiv DEF TypeInv, IInv
<1> QED BY <1>1 DEF Exact, Ready, TypeInv, TypeOK

\* The scheduler's step: S are the runnable tasks, rq lists them.
LEMMA SwitchInv ==
    ASSUME TypeInv', NEW rq, NEW S \in SUBSET Tasks, Lists(rq, S, priority),
           priority \in [Tasks -> Prios], UNCHANGED priority, task_switch(rq),
           \A x \in Tasks : state'[x] = "runnable" <=> x \in S
    PROVE  /\ RunQueueExact' /\ WorkConserving'
           /\ current' # IDLE_TASK => current' \in S
<1>1. /\ Lists(runqueues', S \ {current'}, priority)
      /\ \/ current' = IDLE_TASK /\ S = {}
         \/ current' \in S
  BY SwitchLists
<1>2. Ready(state', current') = S \ {current'}
  BY DEF Ready
<1>3. current' # IDLE_TASK => current' \in S /\ state'[current'] = "runnable"
  BY <1>1
<1>4. Exact(runqueues', state', current', priority')
  BY <1>1, <1>2, <1>3 DEF Exact
<1>5. WorkConserving'
  <2> SUFFICES ASSUME current' = IDLE_TASK, NEW p \in Prios PROVE runqueues'[p] = <<>>
    BY DEF WorkConserving
  <2>1. S = {}
    BY <1>1, TaskFacts
  <2>2. Range(runqueues'[p]) = {} /\ runqueues'[p] \in Seq(Tasks)
    BY <1>1, <2>1 DEF Lists, RunQueues
  <2> QED BY <2>2, EmptyRange
<1> QED BY <1>3, <1>4, <1>5, RunQueueEquiv DEF TypeInv
=============================================================================
