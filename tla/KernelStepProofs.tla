--------------------------- MODULE KernelStepProofs ---------------------------
(***************************************************************************)
(* What a step of the kernel may do: the reference counts of pagers, and   *)
(* the action properties of receives, messages and the scheduler.          *)
(***************************************************************************)
EXTENDS KernelProofs

USE ZenonT(10), SMTT(30)

\* What a step that neither creates nor destroys a task does to every task.
Passes ==
    /\ UNCHANGED <<pager, ref_count>>
    /\ \A x \in Tasks :
         /\ state'[x] = "unused" <=> state[x] = "unused"
         /\ state[x] # "blocked" => m'[x] = m[x]
         /\ state[x] = "blocked" /\ src[x] \in Tasks /\ state'[x] = "runnable"
              => current = src[x] /\ m'[x].src \in {src[x], KERNEL_TASK}

\* The step of HighestPriority.
PicksHighest ==
    current' # current =>
        \A t \in Tasks : state'[t] = "runnable" =>
            current' # IDLE_TASK /\ priority'[current'] <= priority'[t]

LEMMA SwitchPicks ==
    ASSUME NEW rq, NEW S \in SUBSET Tasks, Lists(rq, S, priority), TypeInv,
           UNCHANGED priority, task_switch(rq),
           \A x \in Tasks : state'[x] = "runnable" <=> x \in S
    PROVE  PicksHighest
<1>1. priority \in [Tasks -> Prios]
  BY DEF TypeInv, TypeOK
<1>2. \/ current' = IDLE_TASK /\ S = {}
      \/ current' \in S /\ \A t \in S : priority[current'] <= priority[t]
  BY <1>1, SwitchLists
<1>3. current' \in S => current' # IDLE_TASK
  BY TaskFacts
<1> QED BY <1>2, <1>3 DEF PicksHighest

\* Steps that resume nobody and switch to nobody.
LEMMA QuietPasses ==
    ASSUME UNCHANGED <<state, m, pager, ref_count>>
    PROVE  Passes
BY DEF Passes

LEMMA StayPicks == ASSUME UNCHANGED current PROVE PicksHighest
BY DEF PicksHighest

\* What the send phase writes to its receiver.
LEMMA SendMessageEffect ==
    ASSUME TypeInv, NEW t \in Tasks, frame[t].pc \in SendPcs, SendMessage(t)
    PROVE  /\ frame[t].dst \in Tasks
           /\ m'[frame[t].dst].src \in {t, KERNEL_TASK}
           /\ \A x \in Tasks : x # frame[t].dst => m'[x] = m[x]
<1> DEFINE d == frame[t].dst
<1>1. d \in Tasks
  BY DEF TypeInv, FramesTyped, FrameTyped
<1>2. \E from \in {t, KERNEL_TASK} : m' = [m EXCEPT ![d] = [type |-> frame[t].m.type, src |-> from]]
  BY DEF SendMessage
<1>3. DOMAIN m = Tasks
  BY DEF TypeInv, TypeOK
<1> HIDE DEF d
<1>4. /\ m'[d].src \in {t, KERNEL_TASK}
      /\ \A x \in Tasks : x # d => m'[x] = m[x]
  BY SMTT(30), <1>1, <1>2, <1>3
<1> QED BY <1>1, <1>4 DEF d

LEMMA SendPasses ==
    ASSUME TypeInv, IInv, NEW t \in Tasks, SendReady(t) \/ SendWake(t)
    PROVE  Passes /\ PicksHighest
<1> DEFINE d == frame[t].dst
<1>1. /\ current = t /\ frame[t].pc \in SendPcs /\ Deliver(t)
      /\ state[d] = "blocked" /\ src[d] \in {IPC_ANY, t}
  <2>1. CASE SendReady(t)
    BY <2>1 DEF SendReady, AtSend, Running, ReceiverReady, SendPcs
  <2>2. CASE SendWake(t)
    <3>1. current = t /\ frame[t].pc = "send_wake" /\ Deliver(t)
      BY <2>2 DEF SendWake, Running
    <3>2. state[t] = "runnable"
      BY <3>1, CurrentFacts
    <3>3. state[d] = "blocked" /\ src[d] = t
      BY <3>1, <3>2 DEF IInv, ReceiverHolds, OnItsWay
    <3> QED BY <3>1, <3>3 DEF SendPcs
  <2> QED BY <2>1, <2>2
<1>2. /\ SendMessage(t) /\ state' = [state EXCEPT ![d] = "runnable"]
      /\ UNCHANGED <<pager, ref_count, current>>
  BY <1>1 DEF Deliver
<1>3. /\ d \in Tasks /\ m'[d].src \in {t, KERNEL_TASK}
      /\ \A x \in Tasks : x # d => m'[x] = m[x]
  BY <1>1, <1>2, SendMessageEffect
<1>4. state'[d] = "runnable" /\ \A x \in Tasks : x # d => state'[x] = state[x]
  BY <1>2, <1>3 DEF TypeInv, TypeOK
<1>5. src[d] \in Tasks => src[d] = t
  BY <1>1, TaskFacts
<1> HIDE DEF d
<1>6. Passes
  BY <1>1, <1>2, <1>3, <1>4, <1>5 DEF Passes
<1> QED BY <1>2, <1>6, StayPicks

LEMMA BlockPasses ==
    ASSUME TypeInv, IInv, NEW t \in Tasks, SendBlock(t) \/ ExitBlock(t)
    PROVE  Passes /\ PicksHighest
<1>1. /\ current = t /\ state' = [state EXCEPT ![t] = "blocked"]
      /\ task_switch(runqueues) /\ UNCHANGED <<m, pager, ref_count, priority>>
  BY DEF SendBlock, ExitBlock, AtSend, Running
<1>2. state'[t] = "blocked" /\ \A x \in Tasks : x # t => state'[x] = state[x]
  BY <1>1 DEF TypeInv, TypeOK
<1>3. state[t] = "runnable"
  BY <1>1, CurrentFacts
<1>4. Passes
  BY <1>1, <1>2, <1>3 DEF Passes
<1>5. \A x \in Tasks : state'[x] = "runnable" <=> x \in Ready(state, current)
  BY <1>1, <1>2 DEF Ready
<1>6. PicksHighest
  BY <1>1, <1>5, ListsReady, SwitchPicks
<1> QED BY <1>4, <1>6

\* The tail of both receive paths; D is {} or the receiver of the fastpath.
LEMMA ReceivePicks ==
    ASSUME TypeInv, IInv, NEW t \in Tasks, current = t,
           NEW s0 \in Tasks \cup {IPC_ANY}, NEW D \in SUBSET Tasks, t \notin D,
           \A x \in D : state[x] = "blocked" /\ src[x] # IPC_DENY,
           NEW st \in [Tasks -> {"unused", "runnable", "blocked"}], NEW rq,
           Lists(rq, Ready(state, current) \cup D, priority),
           ReceiveFrom(t, s0, st, rq)
    PROVE  /\ \A x \in Tasks : st[x] = IF x \in D THEN "runnable" ELSE state[x]
           /\ UNCHANGED priority
           => /\ PicksHighest
              /\ \A x \in Tasks :
                   /\ state'[x] = "unused" <=> state[x] = "unused"
                   /\ state[x] = "blocked" /\ src[x] \in Tasks /\ state'[x] = "runnable"
                        => x \in D
<1>0. PICK W \in SUBSET Tasks, e \in Tasks \cup {IPC_ANY}, rq2 \in RunQueues :
             Receives(t, s0, D, st, W, e, rq2)
  BY ReceiveEffect
<1>1. /\ W \subseteq Range(senders[t]) /\ state'[t] = "blocked"
      /\ \A x \in Tasks : x # t =>
           state'[x] = IF x \in W THEN "runnable" ELSE st[x]
      /\ Lists(rq2, Ready(state, current) \cup D \cup W, priority)
      /\ task_switch(rq2)
  BY <1>0 DEF Receives
<1>2. \A x \in W : x # t /\ state[x] = "blocked" /\ src[x] \notin Tasks
  BY SMTT(30), <1>1, SenderFacts, TaskFacts
<1>3. state[t] = "runnable"
  BY CurrentFacts
<1> SUFFICES ASSUME \A x \in Tasks : st[x] = IF x \in D THEN "runnable" ELSE state[x],
                    UNCHANGED priority
             PROVE  /\ PicksHighest
                    /\ \A x \in Tasks :
                         /\ state'[x] = "unused" <=> state[x] = "unused"
                         /\ state[x] = "blocked" /\ src[x] \in Tasks /\ state'[x] = "runnable"
                              => x \in D
  OBVIOUS
<1>4. \A x \in Tasks : state'[x] = IF x = t THEN "blocked"
                                   ELSE IF x \in D \cup W THEN "runnable" ELSE state[x]
  BY <1>1
<1>6. ASSUME NEW x \in Tasks
      PROVE  /\ state'[x] = "unused" <=> state[x] = "unused"
             /\ state[x] = "blocked" /\ src[x] \in Tasks /\ state'[x] = "runnable"
                  => x \in D
  BY <1>2, <1>3, <1>4
<1>7. \A x \in Tasks : state'[x] = "runnable" <=>
                           x \in Ready(state, current) \cup D \cup W
  BY <1>2, <1>4 DEF Ready
<1>8. Ready(state, current) \cup D \cup W \in SUBSET Tasks
  BY ListsReady
<1>9. PicksHighest
  BY <1>1, <1>7, <1>8, SwitchPicks
<1> QED BY <1>6, <1>9

LEMMA RecvBlockPasses ==
    ASSUME TypeInv, IInv, NEW t \in Tasks, RecvBlock(t)
    PROVE  Passes /\ PicksHighest
<1>1. /\ current = t /\ ReceiveFrom(t, frame[t].src, state, runqueues)
      /\ UNCHANGED <<m, pager, ref_count, priority>>
  BY DEF RecvBlock, Running
<1>2. /\ frame[t].src \in Tasks \cup {IPC_ANY}
      /\ state \in [Tasks -> {"unused", "runnable", "blocked"}]
  BY DEF TypeInv, TypeOK, Frames
<1>3. Lists(runqueues, Ready(state, current) \cup {}, priority)
  <2>1. Ready(state, current) \cup {} = Ready(state, current)
    OBVIOUS
  <2> QED BY <2>1, ListsReady
<1>4. {} \in SUBSET Tasks /\ \A x \in Tasks : x \notin {}
  OBVIOUS
<1>5. \A x \in Tasks : m'[x] = m[x]
  BY <1>1
<1>6. /\ PicksHighest
      /\ \A x \in Tasks :
           /\ state'[x] = "unused" <=> state[x] = "unused"
           /\ state[x] = "blocked" /\ src[x] \in Tasks /\ state'[x] = "runnable"
                => x \in {}
  BY <1>1, <1>2, <1>3, <1>4, ReceivePicks
<1> QED BY <1>1, <1>5, <1>6 DEF Passes

LEMMA FastCallPasses ==
    ASSUME TypeInv, IInv, NEW t \in Tasks, FastCall(t)
    PROVE  Passes /\ PicksHighest
<1> DEFINE d == frame[t].dst
           st == [state EXCEPT ![d] = "runnable"]
           rq == enqueue_task(runqueues, d)
<1>1. /\ current = t /\ frame[t].pc = "fastcopy" /\ SendMessage(t)
      /\ ReceiveFrom(t, frame[t].src, st, rq)
      /\ UNCHANGED <<pager, ref_count, priority>>
  BY DEF FastCall, Running
<1>2. /\ frame[t].src \in Tasks \cup {IPC_ANY}
      /\ state \in [Tasks -> {"unused", "runnable", "blocked"}]
  BY DEF TypeInv, TypeOK, Frames
<1>3. /\ d \in Tasks /\ m'[d].src \in {t, KERNEL_TASK}
      /\ \A x \in Tasks : x # d => m'[x] = m[x]
  BY <1>1, SendMessageEffect DEF SendPcs
<1>4. d # t /\ state[d] = "blocked" /\ src[d] \in {IPC_ANY, t}
  <2>1. d # t
    BY <1>1 DEF IInv, FramesInv, FrameArgs, SendPcs
  <2>2. ReceiverReady(d, t)
    BY <1>1 DEF IInv, ReceiverHolds, Running
  <2> QED BY <2>1, <2>2 DEF ReceiverReady
<1>5. /\ st \in [Tasks -> {"unused", "runnable", "blocked"}]
      /\ \A x \in Tasks : st[x] = IF x \in {d} THEN "runnable" ELSE state[x]
  BY <1>2, <1>3
<1>6. Lists(rq, Ready(state, current) \cup {d}, priority)
  <2>1. d \notin Ready(state, current)
    BY <1>4 DEF Ready
  <2> QED BY <2>1, <1>3, ListsReady, EnqueueLists DEF TypeInv
<1> DEFINE D == {d}
<1> HIDE DEF d, st, rq
<1>7. /\ D \in SUBSET Tasks /\ t \notin D
      /\ \A x \in D : state[x] = "blocked" /\ src[x] # IPC_DENY
      /\ \A x \in Tasks : st[x] = IF x \in D THEN "runnable" ELSE state[x]
      /\ Lists(rq, Ready(state, current) \cup D, priority)
  BY <1>3, <1>4, <1>5, <1>6, TaskFacts
<1> HIDE DEF D
<1>8. /\ PicksHighest
      /\ \A x \in Tasks :
           /\ state'[x] = "unused" <=> state[x] = "unused"
           /\ state[x] = "blocked" /\ src[x] \in Tasks /\ state'[x] = "runnable"
                => x \in D
  BY <1>1, <1>2, <1>5, <1>7, ReceivePicks
<1>9. src[d] \in Tasks => src[d] = t
  BY <1>4, TaskFacts
<1> QED BY <1>1, <1>3, <1>4, <1>8, <1>9 DEF Passes, D

-----------------------------------------------------------------------------
LEMMA NotifyPasses ==
    ASSUME TypeInv, NEW d \in Tasks, NEW n, notify(d, n), UNCHANGED <<pager, ref_count>>
    PROVE  Passes
<1>0. DOMAIN state = Tasks /\ DOMAIN m = Tasks
  BY DEF TypeInv, TypeOK
<1>1. CASE TakesNotification(d)
  <2>1. /\ state' = [state EXCEPT ![d] = "runnable"]
        /\ m' = [m EXCEPT ![d] = [type |-> "notifications", src |-> KERNEL_TASK]]
        /\ state[d] = "blocked" /\ src[d] = IPC_ANY
    BY <1>1 DEF notify, TakesNotification
  <2>2. /\ state'[d] = "runnable"
        /\ \A x \in Tasks : x # d => state'[x] = state[x] /\ m'[x] = m[x]
    BY <1>0, <2>1
  <2>3. src[d] \notin Tasks
    BY <2>1, TaskFacts
  <2> QED BY <2>1, <2>2, <2>3 DEF Passes
<1>2. CASE ~TakesNotification(d)
  BY <1>2, QuietPasses DEF notify
<1> QED BY <1>1, <1>2

LEMMA IrqPasses ==
    ASSUME TypeInv, IInv, NEW i \in Irqs, handle_irq(i)
    PROVE  Passes /\ PicksHighest
<1> DEFINE d == irq_owners[i]
<1>1. /\ notify(d, "IRQ") /\ d \in Tasks /\ UNCHANGED <<pager, ref_count, priority>>
  BY DEF handle_irq, TypeInv, TypeOK
<1>2. \/ current = IDLE_TASK /\ task_switch(Notified(d))
      \/ UNCHANGED current
  BY DEF handle_irq, IrqSwitches
<1> HIDE DEF d
<1>3. Passes
  BY <1>1, NotifyPasses
<1>4. PICK W \in SUBSET Tasks :
        /\ \A x \in W : TakesNotification(x)
        /\ \A x \in Tasks : state'[x] = IF x \in W THEN "runnable" ELSE state[x]
        /\ \A x \in Tasks : TakesNotification(x) /\ x \notin W
                                => notifications'[x] = notifications[x]
        /\ Lists(Notified(d), Ready(state, current) \cup W, priority)
  BY <1>1, NotifyEffect
<1>5. CASE current = IDLE_TASK /\ task_switch(Notified(d))
  <2>1. \A x \in Tasks : state'[x] = "runnable" <=> x \in Ready(state, current) \cup W
    BY <1>4, <1>5, TaskFacts DEF Ready
  <2>2. Ready(state, current) \cup W \in SUBSET Tasks
    BY ListsReady
  <2> QED BY <1>1, <1>3, <1>4, <1>5, <2>1, <2>2, SwitchPicks
<1>6. CASE UNCHANGED current
  BY <1>3, <1>6, StayPicks
<1> QED BY <1>2, <1>5, <1>6

LEMMA TimerPasses ==
    ASSUME TypeInv, IInv, handle_timer_irq
    PROVE  Passes /\ PicksHighest
<1>1. UNCHANGED <<pager, ref_count, priority>>
  BY TimerStep
<1>2. /\ Woken \in SUBSET Tasks
      /\ \A x \in Woken : state[x] = "blocked" /\ src[x] \notin Tasks
  BY TaskFacts DEF Woken, Expired, Ticking, TakesNotification
<1>3. \A x \in Tasks : state'[x] = IF x \in Woken THEN "runnable" ELSE state[x]
  BY TimerStep
<1>4. \A x \in Tasks : x \notin Woken => m'[x] = m[x]
  BY TimerStep
<1>5. Passes
  BY <1>1, <1>2, <1>3, <1>4 DEF Passes
<1>6. PicksHighest
  <2>1. PICK b \in Batches(Woken) :
          LET rq == [p \in Prios |-> runqueues[p] \o b[p]]
          IN  \/ task_switch(IF current = IDLE_TASK THEN rq
                             ELSE enqueue_task(rq, current))
              \/ /\ ~TimerSwitches(Expired)
                 /\ runqueues' = rq /\ UNCHANGED current
    BY TimerStep
  <2> DEFINE rq == [p \in Prios |-> runqueues[p] \o b[p]]
             W == Woken
             R == Ready(state, current)
  <2>2. \/ current = IDLE_TASK /\ task_switch(rq)
        \/ current # IDLE_TASK /\ task_switch(enqueue_task(rq, current))
        \/ UNCHANGED current
    BY <2>1
  <2>3. Lists(rq, R \cup W, priority)
    <3>1. R \cap W = {}
      BY <1>2 DEF Ready
    <3> HIDE DEF R, W
    <3>2. R \in SUBSET Tasks /\ W \in SUBSET Tasks /\ Lists(runqueues, R, priority)
      BY <1>2, ListsReady DEF R, W
    <3>3. b \in Batches(W)
      BY DEF W
    <3> QED BY <3>1, <3>2, <3>3, BatchLists DEF TypeInv
  <2>4. R \cup W \in SUBSET Tasks
    BY <1>2, ListsReady
  <2> HIDE DEF rq
  <2>5. CASE current = IDLE_TASK /\ task_switch(rq)
    <3>1. \A x \in Tasks : state'[x] = "runnable" <=> x \in R \cup W
      BY <2>5, <1>3, TaskFacts DEF Ready
    <3> HIDE DEF R, W
    <3> QED BY <1>1, <2>3, <2>4, <2>5, <3>1, SwitchPicks
  <2>6. CASE current # IDLE_TASK /\ task_switch(enqueue_task(rq, current))
    <3>1. current \in Tasks /\ state[current] = "runnable"
      BY <2>6, CurrentFacts DEF TypeInv, TypeOK
    <3>2. current \notin R \cup W
      BY <3>1, <1>2 DEF Ready
    <3>3. \A x \in Tasks : state'[x] = "runnable" <=> x \in R \cup W \cup {current}
      BY <3>1, <1>3 DEF Ready
    <3> HIDE DEF R, W
    <3>4. Lists(enqueue_task(rq, current), R \cup W \cup {current}, priority)
      BY <2>3, <2>4, <3>1, <3>2, EnqueueLists DEF TypeInv
    <3>5. R \cup W \cup {current} \in SUBSET Tasks
      BY <2>4, <3>1
    <3> QED BY <1>1, <2>6, <3>3, <3>4, <3>5, SwitchPicks
  <2>7. CASE UNCHANGED current
    BY <2>7, StayPicks
  <2> QED BY <2>2, <2>5, <2>6, <2>7
<1> QED BY <1>5, <1>6

-----------------------------------------------------------------------------
(***************************************************************************)
(* Creating and destroying tasks, and the reference counts of pagers.      *)
(***************************************************************************)
\* The live tasks whose pager is p.
Clients(st, pg, p) == {t \in Tasks : st[t] # "unused" /\ pg[t] = p}

\* RefCountExact as a predicate of the fields it is about.
Counted(st, pg, rc) ==
    \A p \in Tasks : /\ st[p] # "unused" => rc[p] = Cardinality(Clients(st, pg, p))
                     /\ Clients(st, pg, p) # {} => st[p] # "unused"

LEMMA CountedEquiv ==
    /\ RefCountExact <=> Counted(state, pager, ref_count)
    /\ RefCountExact' <=> Counted(state', pager', ref_count')
BY DEF RefCountExact, Counted, Clients

LEMMA ClientsFinite ==
    ASSUME NEW st, NEW pg, NEW p
    PROVE  IsFiniteSet(Clients(st, pg, p)) /\ Cardinality(Clients(st, pg, p)) \in Nat
<1>1. Clients(st, pg, p) \in SUBSET Tasks
  BY DEF Clients
<1> QED BY <1>1, TaskFacts, FS_Subset, FS_CardinalityType

\* What task_create does to the fields of other tasks.
LEMMA CreateStep ==
    ASSUME TypeInv, IInv, NEW t \in Tasks, task_create(t)
    PROVE  \E n \in Tasks :
             /\ n # t /\ current = t /\ state[t] = "runnable" /\ state[n] = "unused"
             /\ state'[n] = "runnable" /\ pager'[n] = t
             /\ \A x \in Tasks : x # n => state'[x] = state[x] /\ pager'[x] = pager[x]
             /\ ref_count'[n] = 0 /\ ref_count'[t] = ref_count[t] + 1
             /\ \A x \in Tasks : x # n /\ x # t => ref_count'[x] = ref_count[x]
             /\ UNCHANGED <<m, current>>
<1> DEFINE n == frame[t].dst
           p == frame[t].src
<1>1. /\ current = t /\ frame[t].pc = "create" /\ state[n] = "unused"
      /\ state' = [state EXCEPT ![n] = "runnable"]
      /\ pager' = [pager EXCEPT ![n] = p]
      /\ ref_count' = [ref_count EXCEPT ![n] = 0, ![p] = @ + 1]
      /\ UNCHANGED <<m, current>>
  BY DEF task_create, Running, RefsWithNew
<1>2. n \in Tasks /\ n # t /\ p = t
  BY <1>1 DEF TypeInv, FramesTyped, FrameTyped, IInv, FramesInv, FrameArgs
<1>3. state[t] = "runnable"
  BY <1>1, CurrentFacts
<1>4. /\ state \in [Tasks -> {"unused", "runnable", "blocked"}]
      /\ pager \in [Tasks -> Tasks \cup {NULL}] /\ ref_count \in [Tasks -> Int]
  BY DEF TypeInv, TypeOK
<1> HIDE DEF n, p
<1>5. /\ state'[n] = "runnable" /\ pager'[n] = t
      /\ \A x \in Tasks : x # n => state'[x] = state[x] /\ pager'[x] = pager[x]
  BY <1>1, <1>2, <1>4
<1>6. /\ ref_count'[n] = 0 /\ ref_count'[t] = ref_count[t] + 1
      /\ \A x \in Tasks : x # n /\ x # t => ref_count'[x] = ref_count[x]
  BY <1>1, <1>2, <1>4
<1> QED BY <1>1, <1>2, <1>3, <1>5, <1>6

LEMMA CreateCounts ==
    ASSUME TypeInv, IInv, RefCountExact, NEW t \in Tasks, task_create(t)
    PROVE  RefCountExact'
<1>1. PICK n \in Tasks :
             /\ n # t /\ current = t /\ state[t] = "runnable" /\ state[n] = "unused"
             /\ state'[n] = "runnable" /\ pager'[n] = t
             /\ \A x \in Tasks : x # n => state'[x] = state[x] /\ pager'[x] = pager[x]
             /\ ref_count'[n] = 0 /\ ref_count'[t] = ref_count[t] + 1
             /\ \A x \in Tasks : x # n /\ x # t => ref_count'[x] = ref_count[x]
             /\ UNCHANGED <<m, current>>
  BY CreateStep
<1> DEFINE C(p) == Clients(state, pager, p)
           D(p) == Clients(state', pager', p)
<1>2. ASSUME NEW p \in Tasks
      PROVE  /\ state[p] # "unused" => ref_count[p] = Cardinality(C(p))
             /\ C(p) # {} => state[p] # "unused"
  BY CountedEquiv DEF Counted
<1>3. C(n) = {} /\ n \notin C(t)
  BY <1>1, <1>2 DEF Clients
<1>4. D(n) = {}
  BY <1>1, <1>3 DEF Clients
<1>5. D(t) = C(t) \cup {n}
  BY <1>1 DEF Clients
<1>6. \A p \in Tasks : p # n /\ p # t => D(p) = C(p)
  BY <1>1 DEF Clients
<1>7. Cardinality(D(t)) = Cardinality(C(t)) + 1
  <2> HIDE DEF C, D
  <2>1. IsFiniteSet(C(t))
    BY ClientsFinite DEF C
  <2> QED BY <2>1, <1>3, <1>5, FS_AddElement
<1>8. Cardinality(D(n)) = 0
  <2> HIDE DEF D
  <2> QED BY <1>4, FS_EmptySet
<1>9. ASSUME NEW p \in Tasks
      PROVE  /\ state'[p] # "unused" => ref_count'[p] = Cardinality(D(p))
             /\ D(p) # {} => state'[p] # "unused"
  <2> HIDE DEF C, D
  <2> QED BY <1>1, <1>2, <1>4, <1>6, <1>7, <1>8
<1> QED BY <1>9, CountedEquiv DEF Counted

\* What task_destroy does to the fields of other tasks.
LEMMA DestroyStep ==
    ASSUME TypeInv, NEW t \in Tasks, NEW r \in Tasks, sys_task_destroy(t, r)
    PROVE  /\ r # t /\ ref_count[r] = 0 /\ state[r] # "unused"
           /\ state'[r] = "unused"
           /\ \A x \in Tasks : x # r => state'[x] = state[x]
           /\ \A x \in Tasks : ref_count'[x] = IF x = pager[r] THEN ref_count[x] - 1
                                               ELSE ref_count[x]
           /\ UNCHANGED <<src, m, pager, current>>
<1>1. /\ r # t /\ ref_count[r] = 0 /\ state[r] # "unused"
      /\ state' = [state EXCEPT ![r] = "unused"]
      /\ ref_count' = IF pager[r] = NULL THEN ref_count
                      ELSE [ref_count EXCEPT ![pager[r]] = @ - 1]
      /\ UNCHANGED <<src, m, pager, current>>
  BY DEF sys_task_destroy
<1>2. /\ state \in [Tasks -> {"unused", "runnable", "blocked"}]
      /\ pager[r] \in Tasks \cup {NULL} /\ ref_count \in [Tasks -> Int]
  BY DEF TypeInv, TypeOK
<1>3. NULL \notin Tasks
  BY TaskFacts
<1> QED BY <1>1, <1>2, <1>3

LEMMA DestroyCounts ==
    ASSUME TypeInv, IInv, RefCountExact, NEW t \in Tasks, NEW r \in Tasks,
           sys_task_destroy(t, r)
    PROVE  RefCountExact'
<1>1. /\ r # t /\ ref_count[r] = 0 /\ state[r] # "unused"
      /\ state'[r] = "unused"
      /\ \A x \in Tasks : x # r => state'[x] = state[x]
      /\ \A x \in Tasks : ref_count'[x] = IF x = pager[r] THEN ref_count[x] - 1
                                          ELSE ref_count[x]
      /\ UNCHANGED <<src, m, pager, current>>
  BY DestroyStep
<1> DEFINE C(p) == Clients(state, pager, p)
           D(p) == Clients(state', pager', p)
<1>2. ASSUME NEW p \in Tasks
      PROVE  /\ state[p] # "unused" => ref_count[p] = Cardinality(C(p))
             /\ C(p) # {} => state[p] # "unused"
             /\ IsFiniteSet(C(p))
  BY CountedEquiv, ClientsFinite DEF Counted
<1>3. C(r) = {}
  <2> HIDE DEF C
  <2>1. Cardinality(C(r)) = 0
    BY <1>1, <1>2
  <2> QED BY <1>2, <2>1, FS_EmptySet
<1>4. \A p \in Tasks : D(p) = C(p) \ {r} /\ (r \in C(p) <=> p = pager[r])
  BY SMTT(30), <1>1 DEF Clients
<1>5. ASSUME NEW p \in Tasks
      PROVE  Cardinality(D(p)) = IF p = pager[r] THEN Cardinality(C(p)) - 1
                                 ELSE Cardinality(C(p))
  <2> HIDE DEF C, D
  <2> QED BY SMTT(30), <1>2, <1>4, FS_RemoveElement
<1>6. ASSUME NEW p \in Tasks
      PROVE  /\ state'[p] # "unused" => ref_count'[p] = Cardinality(D(p))
             /\ D(p) # {} => state'[p] # "unused"
  <2> HIDE DEF C, D
  <2> QED BY SMTT(30), <1>1, <1>2, <1>3, <1>4, <1>5
<1> QED BY <1>6, CountedEquiv DEF Counted

LEMMA PassesCounts ==
    ASSUME RefCountExact, Passes
    PROVE  RefCountExact'
<1>1. \A p \in Tasks : Clients(state', pager', p) = Clients(state, pager, p)
  BY DEF Clients, Passes
<1> QED BY <1>1, CountedEquiv DEF Counted, Passes

LEMMA InitCounts == Init => RefCountExact
<1> SUFFICES ASSUME Init PROVE RefCountExact
  OBVIOUS
<1>1. /\ state = [t \in Tasks |-> IF t \in Booted THEN "runnable" ELSE "unused"]
      /\ pager = [t \in Tasks |-> IF t \in Booted \ {INIT_TASK} THEN INIT_TASK ELSE NULL]
      /\ ref_count = [t \in Tasks |-> IF t = INIT_TASK THEN NUM_BOOT - 1 ELSE 0]
  BY DEF Init
<1>2. NUM_BOOT \in Nat /\ 1 <= NUM_BOOT /\ NUM_BOOT <= NUM_TASKS /\ NUM_TASKS \in Nat
  BY SMTT(30), ConstantsAssumption
<1>3. Clients(state, pager, INIT_TASK) = 2..NUM_BOOT
  BY SMTT(30), <1>1, <1>2 DEF Clients, Tasks, Booted, INIT_TASK, NULL
<1>4. \A p \in Tasks : p # INIT_TASK => Clients(state, pager, p) = {}
  BY <1>1, TaskFacts DEF Clients
<1>5. Cardinality(2..NUM_BOOT) = NUM_BOOT - 1
  BY SMTT(30), <1>2, FS_Interval
<1>6. state[INIT_TASK] # "unused" /\ INIT_TASK \in Tasks
  BY SMTT(30), <1>1, <1>2 DEF Booted, INIT_TASK, Tasks
<1>7. Counted(state, pager, ref_count)
  BY <1>1, <1>3, <1>4, <1>5, <1>6, FS_EmptySet DEF Counted
<1> QED BY <1>7, CountedEquiv

-----------------------------------------------------------------------------
(***************************************************************************)
(* Every step.                                                             *)
(***************************************************************************)
\* The steps that do not create or destroy a task.
LEMMA NextPasses ==
    ASSUME TypeInv, IInv, [Next]_vars
    PROVE  \/ Passes /\ PicksHighest
           \/ \E t \in Tasks : task_create(t)
           \/ \E t, r \in Tasks : sys_task_destroy(t, r)
<1> DEFINE Goal == \/ Passes /\ PicksHighest
                   \/ \E t \in Tasks : task_create(t)
                   \/ \E t, r \in Tasks : sys_task_destroy(t, r)
<1>0. UNCHANGED <<state, m, pager, ref_count, current>> => Goal
  BY QuietPasses, StayPicks
<1>1. ASSUME UNCHANGED vars PROVE Goal
  BY <1>0, <1>1 DEF vars
<1>2. ASSUME NEW t \in Tasks, KernelStep(t) PROVE Goal
  <2>1. CASE \/ SendWouldBlock(t) \/ SendAborted(t) \/ RecvPending(t)
             \/ RecvWouldBlock(t) \/ RecvWake(t) \/ CopyOut(t) \/ CreateFails(t)
    <3>1. UNCHANGED <<state, m, pager, ref_count, current>>
      BY <2>1 DEF SendWouldBlock, SendAborted, RecvPending, RecvWouldBlock,
         RecvWake, CopyOut, CreateFails, sched
    <3> QED BY <3>1, <1>0
  <2>2. CASE SendReady(t) \/ SendWake(t)
    BY <2>2, SendPasses
  <2>3. CASE SendBlock(t) \/ ExitBlock(t)
    BY <2>3, BlockPasses
  <2>4. CASE RecvBlock(t)
    BY <2>4, RecvBlockPasses
  <2>5. CASE FastCall(t)
    BY <2>5, FastCallPasses
  <2>6. CASE task_create(t)
    BY <2>6
  <2> HIDE DEF Goal
  <2> QED BY <1>2, <2>1, <2>2, <2>3, <2>4, <2>5, <2>6 DEF KernelStep
<1>3. ASSUME NEW t \in Tasks, UserStep(t) PROVE Goal
  <2>1. CASE \E fl \in USER_FLAGS, d \in Tasks \cup {NULL},
               s \in (Tasks \ {t}) \cup {IPC_ANY}, type \in USER_TYPES :
                 sys_ipc(t, d, s, fl, type)
    <3>1. UNCHANGED <<state, m, pager, ref_count, current>>
      BY <2>1 DEF sys_ipc, sched
    <3> QED BY <3>1, <1>0
  <2>2. CASE \E d \in Tasks, n \in USER_NOTIFY : sys_notify(t, d, n)
    BY <2>2, NotifyPasses, StayPicks DEF sys_notify
  <2>3. CASE \/ \E v \in 0..MAX_TIMEOUT : sys_timer_set(t, v)
             \/ \E i \in Irqs : sys_irq_acquire(t, i) \/ sys_irq_release(t, i)
    <3>1. UNCHANGED <<state, m, pager, ref_count, current>>
      BY <2>3 DEF sys_timer_set, sys_irq_acquire, sys_irq_release, sched
    <3> QED BY <3>1, <1>0
  <2>4. CASE \E r \in Tasks, p \in Prios : sys_task_schedule(t, r, p)
    <3>1. UNCHANGED <<state, m, pager, ref_count, current>>
      BY <2>4 DEF sys_task_schedule
    <3> QED BY <3>1, <1>0
  <2>5. CASE \E n, p \in Tasks, c \in CREATE_CAPS : sys_task_create(t, n, p, c)
    <3>1. UNCHANGED <<state, m, pager, ref_count, current>>
      BY <2>5 DEF sys_task_create, sched
    <3> QED BY <3>1, <1>0
  <2>6. CASE \E r \in Tasks : sys_task_destroy(t, r)
    BY <2>6
  <2>7. CASE handle_page_fault(t) \/ abi_emu_hook(t) \/ task_exit(t)
    <3>1. UNCHANGED <<state, m, pager, ref_count, current>>
      BY <2>7 DEF handle_page_fault, abi_emu_hook, task_exit, sched
    <3> QED BY <3>1, <1>0
  <2> HIDE DEF Goal
  <2> QED BY <1>3, <2>1, <2>2, <2>3, <2>4, <2>5, <2>6, <2>7 DEF UserStep
<1>4. ASSUME Interrupt PROVE Goal
  BY <1>4, TimerPasses, IrqPasses DEF Interrupt
<1> HIDE DEF Goal
<1>5. Goal
  BY <1>1, <1>2, <1>3, <1>4 DEF Next
<1> QED BY <1>5 DEF Goal

\* No step resumes a closed receive from outside, or touches a delivered message.
LEMMA StepLaws ==
    ASSUME TypeInv, IInv, [Next]_vars
    PROVE  /\ PicksHighest
           /\ \A t \in Tasks :
                /\ state[t] = "blocked" /\ src[t] \in Tasks /\ state'[t] = "runnable"
                     => current = src[t] /\ m'[t].src \in {src[t], KERNEL_TASK}
                /\ state[t] = "runnable" => m'[t] = m[t]
<1>1. CASE Passes /\ PicksHighest
  BY <1>1 DEF Passes
<1>2. ASSUME NEW t \in Tasks, task_create(t)
      PROVE  /\ UNCHANGED <<m, current>>
             /\ \A x \in Tasks : state[x] = "blocked" => state'[x] = "blocked"
  BY <1>2, CreateStep
<1>3. ASSUME NEW t \in Tasks, NEW r \in Tasks, sys_task_destroy(t, r)
      PROVE  /\ UNCHANGED <<m, current>>
             /\ \A x \in Tasks : state'[x] = "runnable" => state[x] = "runnable"
  BY <1>3, DestroyStep
<1>4. CASE \E t \in Tasks : task_create(t)
  BY <1>2, <1>4, StayPicks
<1>5. CASE \E t, r \in Tasks : sys_task_destroy(t, r)
  BY <1>3, <1>5, StayPicks
<1> QED BY <1>1, <1>4, <1>5, NextPasses

LEMMA NextCounts ==
    ASSUME TypeInv, IInv, RefCountExact, [Next]_vars
    PROVE  RefCountExact'
BY NextPasses, PassesCounts, CreateCounts, DestroyCounts

\* TypeInv and IInv hold at every step of a behaviour.
LEMMA Invariants ==
    ASSUME DISCIPLINED, ~(FASTPATH /\ FASTFAULT)
    PROVE  Spec => [](TypeInv /\ IInv)
<1>1. TypeInv /\ IInv /\ [Next]_vars => (TypeInv /\ IInv)'
  BY NextTyped, NextInv
<1>2. Init => TypeInv /\ IInv
  BY InitTyped, InitInv
<1> QED BY <1>1, <1>2, PTL DEF Spec

\* ref_count is exactly the number of live tasks that name the task as their
\* pager, so the check in task_destroy (task.c:129) never lets a pager go that
\* somebody still needs, and the counter never goes below zero.
THEOREM PagersOutliveClients ==
    ASSUME DISCIPLINED, ~(FASTPATH /\ FASTFAULT)
    PROVE  Spec => []RefCountExact
<1>1. TypeInv /\ IInv /\ RefCountExact /\ [Next]_vars => RefCountExact'
  BY NextCounts
<1> QED BY <1>1, InitCounts, Invariants, PTL DEF Spec

\* A task in a closed receive is resumed by the task it waits for and by nobody
\* else: not by another sender, a notification, a timeout or the destruction of a
\* task (notify, handle_timer_irq, both IPC paths).
THEOREM ClosedReceives ==
    ASSUME DISCIPLINED, ~(FASTPATH /\ FASTFAULT)
    PROVE  Spec => ClosedReceive
<1>1. TypeInv /\ IInv /\ [Next]_vars
        => [\A t \in Tasks :
              state[t] = "blocked" /\ src[t] \in Tasks /\ state'[t] = "runnable"
                => current = src[t] /\ m'[t].src \in {src[t], KERNEL_TASK}]_vars
  BY StepLaws
<1> QED BY <1>1, Invariants, PTL DEF Spec, ClosedReceive

\* A message that has been delivered to a receiver's buffer (task->m) is not
\* overwritten before the receiver has run and copied it out (ipc.c:123).
THEOREM MessagesIntact ==
    ASSUME DISCIPLINED, ~(FASTPATH /\ FASTFAULT)
    PROVE  Spec => MessageIntact
<1>1. TypeInv /\ IInv /\ [Next]_vars
        => [\A t \in Tasks :
              frame[t].pc = "recv_wake" /\ state[t] = "runnable" => m'[t] = m[t]]_vars
  BY StepLaws
<1> QED BY <1>1, Invariants, PTL DEF Spec, MessageIntact

\* Whenever the CPU changes hands, it goes to a runnable task of the highest
\* priority, and to the idle task only if there is none (scheduler, task.c).
THEOREM SchedulerPicksHighest ==
    ASSUME DISCIPLINED, ~(FASTPATH /\ FASTFAULT)
    PROVE  Spec => HighestPriority
<1>1. TypeInv /\ IInv /\ [Next]_vars
        => [current' # current =>
              \A t \in Tasks : state'[t] = "runnable" =>
                current' # IDLE_TASK /\ priority'[current'] <= priority'[t]]_vars
  BY StepLaws DEF PicksHighest
<1> QED BY <1>1, Invariants, PTL DEF Spec, HighestPriority
=============================================================================
