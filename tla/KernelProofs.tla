----------------------------- MODULE KernelProofs -----------------------------
(***************************************************************************)
(* The safety of message passing and scheduling, for every number of       *)
(* tasks, priorities and interrupt lines.                                  *)
(*                                                                         *)
(* Two assumptions rule out the two scenarios in which the code breaks its *)
(* own assertion (README, Departures).                                     *)
(***************************************************************************)
EXTENDS KernelIpcProofs

USE ZenonT(10), SMTT(30)

(***************************************************************************)
(* Notifications and interrupts: W is the set of tasks that are resumed.   *)
(***************************************************************************)
LEMMA WakeInv ==
    ASSUME TypeInv, TypeInv', IInv, InterruptsEnabled, NEW W \in SUBSET Tasks,
           \A x \in W : TakesNotification(x),
           \A x \in Tasks : state'[x] = IF x \in W THEN "runnable" ELSE state[x],
           \A x \in Tasks : TakesNotification(x) /\ x \notin W
                                => notifications'[x] = notifications[x],
           RunQueueExact', WorkConserving',
           UNCHANGED <<src, senders, pager, priority, irq_owners, frame, saved, owed>>
    PROVE  IInv'
<1>1. \A x \in Tasks : x # IDLE_TASK /\ x # IPC_ANY /\ x # IPC_DENY /\ IPC_ANY # IPC_DENY
  BY TaskFacts
<1>2. \A x \in W : state[x] = "blocked" /\ src[x] = IPC_ANY /\ frame[x].pc = "recv_wake"
  BY <1>1 DEF TakesNotification, IInv, FramesInv
<1>3. \A x \in Tasks : frame[x].pc # "fastcopy" /\ (x = current => frame[x].pc # "recv")
  BY SMTT(30), <1>1 DEF InterruptsEnabled, IInv, FramesInv
<1>4. current' # IDLE_TASK => state'[current'] = "runnable"
  BY DEF RunQueueExact
<1>5. FramesInv'
  <2> SUFFICES ASSUME NEW x \in Tasks
               PROVE  (/\ state[x] = "unused" => frame[x].pc = "user" /\ x # current
                       /\ state[x] = "blocked" =>
                            \/ frame[x].pc = "recv_wake" /\ src[x] # IPC_DENY
                            \/ frame[x].pc \in {"send_wake", "exited"} /\ src[x] = IPC_DENY
                       /\ pager[x] # x
                       /\ FrameArgs(x, frame[x]) /\ FrameArgs(x, saved[x])
                       /\ frame[x].pc = "fastcopy" =>
                            FASTPATH /\ current = x /\ notifications[x] = {}
                       /\ saved[x].pc \in {"user", "copyin", "copyout", "create"})'
    BY DEF FramesInv
  <2>1. (FrameArgs(x, frame[x]) /\ FrameArgs(x, saved[x]))'
    BY DEF IInv, FramesInv, FrameArgs
  <2> QED BY SMTT(30), <2>1, <1>1, <1>3, <1>4 DEF IInv, FramesInv
<1>6. SendersInv'
  <2>1. ASSUME NEW r \in Tasks, NEW s \in Range(senders[r]) PROVE state'[s] = state[s]
    BY <1>1, <1>2, SenderFacts
  <2> QED BY SMTT(30), <2>1 DEF IInv, SendersInv
<1>7. CallersInv'
  <2> SUFFICES ASSUME NEW s \in Tasks, NEW c \in owed[s]
               PROVE  c # current' /\ state'[c] = "blocked" /\ src[c] = s
    BY DEF CallersInv
  <2>1. c \in Tasks
    BY DEF TypeInv, TypeOK
  <2>2. state[c] = "blocked" /\ src[c] = s
    BY SMTT(30), <2>1, <1>3 DEF IInv, CallersInv
  <2> QED BY <2>1, <2>2, <1>1, <1>2, <1>4
<1>8. ReceiverHolds'
  <2> SUFFICES ASSUME NEW x \in Tasks
               PROVE  /\ OnItsWay(x)' => /\ state'[frame[x].dst] = "blocked"
                                         /\ src[frame[x].dst] = x
                      /\ ~Running(x, "fastcopy")'
    BY DEF ReceiverHolds
  <2>1. ~Running(x, "fastcopy")'
    BY <1>3 DEF Running
  <2>2. ASSUME OnItsWay(x)' PROVE state'[frame[x].dst] = "blocked" /\ src[frame[x].dst] = x
    <3>1. frame[x].pc = "send_wake" /\ state[x] = "runnable"
      BY <2>2, <1>2 DEF OnItsWay
    <3>2. state[frame[x].dst] = "blocked" /\ src[frame[x].dst] = x
      BY <3>1 DEF IInv, ReceiverHolds, OnItsWay
    <3>3. frame[x].dst \in Tasks /\ frame[x].dst \notin W
      BY SMTT(30), <3>1, <3>2, <1>1, <1>2 DEF TypeInv, FramesTyped, FrameTyped, SendPcs
    <3> QED BY <3>2, <3>3
  <2> QED BY <2>1, <2>2
<1>9. NoMissedRendezvous'
  BY DEF IInv, NoMissedRendezvous
<1>10. NoLostWakeup'
  BY DEF IInv, NoLostWakeup, TakesNotification
<1>11. IrqOwnersLive'
  <2> SUFFICES ASSUME NEW i \in Irqs, irq_owners[i] # NULL
               PROVE  state'[irq_owners[i]] # "unused"
    BY DEF IrqOwnersLive
  <2>1. irq_owners[i] \in Tasks /\ state[irq_owners[i]] # "unused"
    BY DEF IInv, IrqOwnersLive, TypeInv, TypeOK
  <2> QED BY <2>1
<1> QED BY <1>5, <1>6, <1>7, <1>8, <1>9, <1>10, <1>11 DEF IInv

LEMMA NotifyEffect ==
    ASSUME TypeInv, IInv, NEW d \in Tasks, NEW n, notify(d, n)
    PROVE  \E W \in SUBSET Tasks :
             /\ \A x \in W : TakesNotification(x)
             /\ \A x \in Tasks : state'[x] = IF x \in W THEN "runnable" ELSE state[x]
             /\ \A x \in Tasks : TakesNotification(x) /\ x \notin W
                                     => notifications'[x] = notifications[x]
             /\ Lists(Notified(d), Ready(state, current) \cup W, priority)
<1>0. /\ state \in [Tasks -> {"unused", "runnable", "blocked"}]
      /\ notifications \in [Tasks -> SUBSET Notifications]
  BY DEF TypeInv, TypeOK
<1>1. CASE TakesNotification(d)
  <2>1. /\ notifications' = [notifications EXCEPT ![d] = {}]
        /\ state' = [state EXCEPT ![d] = "runnable"]
        /\ Notified(d) = enqueue_task(runqueues, d)
    BY <1>1 DEF notify, Notified
  <2>2. d \notin Ready(state, current)
    BY <1>1 DEF Ready, TakesNotification
  <2>3. Lists(Notified(d), Ready(state, current) \cup {d}, priority)
    BY <2>1, <2>2, ListsReady, EnqueueLists DEF TypeInv
  <2> {d} \in SUBSET Tasks
    OBVIOUS
  <2> WITNESS {d} \in SUBSET Tasks
  <2> QED BY <1>0, <1>1, <2>1, <2>3
<1>2. CASE ~TakesNotification(d)
  <2>1. /\ notifications' = [notifications EXCEPT ![d] = @ \cup {n}]
        /\ state' = state /\ Notified(d) = runqueues
    BY <1>2 DEF notify, Notified
  <2>2. Lists(Notified(d), Ready(state, current) \cup {}, priority)
    <3>1. Ready(state, current) \cup {} = Ready(state, current)
      OBVIOUS
    <3> QED BY <2>1, <3>1, ListsReady
  <2>3. \A x \in Tasks : x # d => notifications'[x] = notifications[x]
    BY <1>0, <2>1
  <2> {} \in SUBSET Tasks
    OBVIOUS
  <2> WITNESS {} \in SUBSET Tasks
  <2> QED BY <1>0, <1>2, <2>1, <2>2, <2>3
<1> QED BY <1>1, <1>2

\* The tasks W join the run queues and CURRENT goes on.
LEMMA StayInv ==
    ASSUME TypeInv, TypeInv', IInv, NEW W \in SUBSET Tasks,
           \A x \in W : state[x] = "blocked",
           \A x \in Tasks : state'[x] = IF x \in W THEN "runnable" ELSE state[x],
           Lists(runqueues', Ready(state, current) \cup W, priority),
           current = IDLE_TASK => W = {},
           UNCHANGED <<current, priority>>
    PROVE  RunQueueExact' /\ WorkConserving'
<1>1. Ready(state', current') = Ready(state, current) \cup W
  <2>1. current \notin W
    <3>1. current \in Tasks => state[current] = "runnable"
      BY CurrentFacts
    <3> QED BY <3>1
  <2> QED BY <2>1 DEF Ready
<1>2. current' # IDLE_TASK => state'[current'] = "runnable"
  BY CurrentFacts DEF TypeInv, TypeOK
<1>3. Exact(runqueues', state', current', priority')
  BY <1>1, <1>2 DEF Exact
<1>4. WorkConserving'
  <2> SUFFICES ASSUME current = IDLE_TASK, NEW p \in Prios PROVE runqueues'[p] = <<>>
    BY DEF WorkConserving
  <2>1. \A q \in Prios : Range(runqueues[q]) = {}
    BY SMTT(30) DEF IInv, WorkConserving, Range
  <2>2. Ready(state, current) = {}
    <3>1. ASSUME NEW x \in Ready(state, current) PROVE FALSE
      <4>1. priority[x] \in Prios
        BY ListsReady
      <4>2. x \in Range(runqueues[priority[x]])
        BY <4>1, ListsReady DEF Lists
      <4> QED BY <4>1, <4>2, <2>1
    <3> QED BY <3>1
  <2>3. Range(runqueues'[p]) = {} /\ runqueues'[p] \in Seq(Tasks)
    BY <2>2 DEF Lists, RunQueues
  <2> QED BY <2>3, EmptyRange
<1> QED BY <1>3, <1>4, RunQueueEquiv DEF TypeInv

LEMMA SysNotifyInv ==
    ASSUME TypeInv, TypeInv', IInv, NEW t \in Tasks, NEW d \in Tasks, NEW n,
           sys_notify(t, d, n)
    PROVE  IInv'
<1>1. /\ current = t /\ InterruptsEnabled /\ notify(d, n) /\ runqueues' = Notified(d)
      /\ UNCHANGED <<src, senders, pager, priority, irq_owners, frame, saved, owed>>
      /\ UNCHANGED <<current, priority>>
  BY DEF sys_notify, Running, InterruptsEnabled, stacks
<1>2. PICK W \in SUBSET Tasks :
        /\ \A x \in W : TakesNotification(x)
        /\ \A x \in Tasks : state'[x] = IF x \in W THEN "runnable" ELSE state[x]
        /\ \A x \in Tasks : TakesNotification(x) /\ x \notin W
                                => notifications'[x] = notifications[x]
        /\ Lists(Notified(d), Ready(state, current) \cup W, priority)
  BY <1>1, NotifyEffect
<1>3. current # IDLE_TASK
  BY <1>1, TaskFacts
<1>4. \A x \in W : state[x] = "blocked"
  BY <1>2 DEF TakesNotification
<1>5. RunQueueExact' /\ WorkConserving'
  BY <1>1, <1>2, <1>3, <1>4, StayInv
<1> QED BY <1>1, <1>2, <1>5, WakeInv

LEMMA HandleIrqInv ==
    ASSUME TypeInv, TypeInv', IInv, NEW i \in Irqs, handle_irq(i)
    PROVE  IInv'
<1> DEFINE d == irq_owners[i]
<1>1. /\ InterruptsEnabled /\ notify(d, "IRQ") /\ d \in Tasks
      /\ UNCHANGED <<src, senders, pager, priority, irq_owners, frame, saved, owed>>
  BY DEF handle_irq, stacks, TypeInv, TypeOK
<1>2. \/ current = IDLE_TASK /\ task_switch(Notified(d))
      \/ /\ current # IDLE_TASK /\ runqueues' = Notified(d)
         /\ UNCHANGED current
  BY DEF handle_irq, IrqSwitches
<1>3. UNCHANGED priority
  BY <1>1
<1> HIDE DEF d
<1>4. PICK W \in SUBSET Tasks :
        /\ \A x \in W : TakesNotification(x)
        /\ \A x \in Tasks : state'[x] = IF x \in W THEN "runnable" ELSE state[x]
        /\ \A x \in Tasks : TakesNotification(x) /\ x \notin W
                                => notifications'[x] = notifications[x]
        /\ Lists(Notified(d), Ready(state, current) \cup W, priority)
  BY <1>1, NotifyEffect
<1>5. \A x \in W : state[x] = "blocked"
  BY <1>4 DEF TakesNotification
<1>6. RunQueueExact' /\ WorkConserving'
  <2>1. CASE current = IDLE_TASK /\ task_switch(Notified(d))
    <3> DEFINE S == Ready(state, current) \cup W
    <3>1. S \in SUBSET Tasks
      BY DEF Ready
    <3>2. \A x \in Tasks : state'[x] = "runnable" <=> x \in S
      BY <2>1, <1>4, TaskFacts DEF Ready
    <3>3. Lists(Notified(d), S, priority) /\ priority \in [Tasks -> Prios]
      BY <1>4, ListsReady
    <3> HIDE DEF S
    <3> QED BY <2>1, <1>3, <3>1, <3>2, <3>3, SwitchInv
  <2>2. CASE /\ current # IDLE_TASK /\ runqueues' = Notified(d)
             /\ UNCHANGED current
    BY <2>2, <1>3, <1>4, <1>5, StayInv
  <2> QED BY <1>2, <2>1, <2>2
<1> QED BY <1>1, <1>4, <1>6, WakeInv

LEMMA TimerInv ==
    ASSUME TypeInv, TypeInv', IInv, handle_timer_irq
    PROVE  IInv'
<1>1. /\ InterruptsEnabled
      /\ UNCHANGED <<src, senders, pager, priority, irq_owners, frame, saved, owed>>
  BY TimerStep
<1>2. /\ Woken \in SUBSET Tasks
      /\ \A x \in Woken : TakesNotification(x) /\ state[x] = "blocked"
      /\ \A x \in Expired : TakesNotification(x) => x \in Woken
  BY DEF Woken, Expired, Ticking, TakesNotification
<1>3. /\ \A x \in Tasks : state'[x] = IF x \in Woken THEN "runnable" ELSE state[x]
      /\ \A x \in Tasks : x \notin Woken /\ x \notin Expired
                              => notifications'[x] = notifications[x]
  BY TimerStep
<1>4. \A x \in Tasks : TakesNotification(x) /\ x \notin Woken
                           => notifications'[x] = notifications[x]
  BY <1>2, <1>3
<1>5. RunQueueExact' /\ WorkConserving'
  <2>1. PICK b \in Batches(Woken) :
          LET rq == [p \in Prios |-> runqueues[p] \o b[p]]
          IN  \/ task_switch(IF current = IDLE_TASK THEN rq
                             ELSE enqueue_task(rq, current))
              \/ /\ ~TimerSwitches(Expired)
                 /\ runqueues' = rq /\ UNCHANGED current
    BY TimerStep
  <2> DEFINE rq == [p \in Prios |-> runqueues[p] \o b[p]]
             W == Woken
             R == Ready(state, current)
  <2>2. \/ current = IDLE_TASK /\ task_switch(rq)
        \/ current # IDLE_TASK /\ task_switch(enqueue_task(rq, current))
        \/ ~TimerSwitches(Expired) /\ runqueues' = rq /\ UNCHANGED current
    BY <2>1
  <2>3. Lists(rq, R \cup W, priority)
    <3>1. R \cap W = {}
      BY <1>2 DEF Ready
    <3> HIDE DEF R, W
    <3>2. R \in SUBSET Tasks /\ W \in SUBSET Tasks /\ Lists(runqueues, R, priority)
      BY <1>2, ListsReady DEF R, W
    <3>3. b \in Batches(W)
      BY DEF W
    <3> QED BY <3>1, <3>2, <3>3, BatchLists DEF TypeInv
  <2>4. /\ UNCHANGED priority /\ priority \in [Tasks -> Prios]
        /\ R \cup W \in SUBSET Tasks
    BY <1>1, <1>2, ListsReady
  <2> HIDE DEF rq
  <2>5. CASE current = IDLE_TASK /\ task_switch(rq)
    <3>1. \A x \in Tasks : state'[x] = "runnable" <=> x \in R \cup W
      BY <2>5, <1>3, TaskFacts DEF Ready
    <3> HIDE DEF R, W
    <3> QED BY <2>3, <2>4, <2>5, <3>1, SwitchInv
  <2>6. CASE current # IDLE_TASK /\ task_switch(enqueue_task(rq, current))
    <3>1. current \in Tasks /\ state[current] = "runnable"
      BY <2>6, CurrentFacts DEF TypeInv, TypeOK
    <3>2. current \notin R \cup W
      BY <3>1, <1>2 DEF Ready
    <3>3. \A x \in Tasks : state'[x] = "runnable" <=> x \in R \cup W \cup {current}
      BY <3>1, <1>3 DEF Ready
    <3> HIDE DEF R, W
    <3>4. Lists(enqueue_task(rq, current), R \cup W \cup {current}, priority)
      BY <2>3, <2>4, <3>1, <3>2, EnqueueLists DEF TypeInv
    <3>5. R \cup W \cup {current} \in SUBSET Tasks
      BY <2>4, <3>1
    <3> QED BY <2>4, <2>6, <3>3, <3>4, <3>5, SwitchInv
  <2>7. CASE ~TimerSwitches(Expired) /\ runqueues' = rq /\ UNCHANGED current
    <3>1. current = IDLE_TASK => W = {}
      BY <2>7 DEF TimerSwitches, Woken
    <3>2. Lists(runqueues', Ready(state, current) \cup W, priority)
      BY <2>3, <2>7
    <3>3. /\ W \in SUBSET Tasks /\ \A x \in W : state[x] = "blocked"
          /\ \A x \in Tasks : state'[x] = IF x \in W THEN "runnable" ELSE state[x]
      BY <1>2, <1>3
    <3> HIDE DEF W
    <3> QED BY <2>4, <2>7, <3>1, <3>2, <3>3, StayInv
  <2> QED BY <2>2, <2>5, <2>6, <2>7
<1> QED BY <1>1, <1>2, <1>3, <1>4, <1>5, WakeInv

-----------------------------------------------------------------------------
(***************************************************************************)
(* The remaining system calls.                                             *)
(***************************************************************************)
LEMMA SmallCallsInv ==
    ASSUME TypeInv, TypeInv', IInv, NEW t \in Tasks,
           \/ \E v \in 0..MAX_TIMEOUT : sys_timer_set(t, v)
           \/ \E i \in Irqs : sys_irq_acquire(t, i) \/ sys_irq_release(t, i)
    PROVE  IInv'
<1>1. UNCHANGED <<state, src, notifications, senders, pager, priority, runqueues,
                  current, frame, saved, owed>>
  BY DEF sys_timer_set, sys_irq_acquire, sys_irq_release, sched, stacks
<1>2. FramesInv' /\ SendersInv' /\ CallersInv'
  <2>1. FramesInv /\ SendersInv /\ CallersInv
    BY DEF IInv
  <2>2. ASSUME NEW x PROVE /\ FrameArgs(x, frame[x])' = FrameArgs(x, frame[x])
                           /\ FrameArgs(x, saved[x])' = FrameArgs(x, saved[x])
    BY <1>1 DEF FrameArgs
  <2>3. FramesInv'
    BY <1>1, <2>1, <2>2 DEF FramesInv
  <2>4. SendersInv'
    BY SMTT(30), <1>1, <2>1 DEF SendersInv
  <2>5. CallersInv'
    BY <1>1, <2>1 DEF CallersInv
  <2> QED BY <2>3, <2>4, <2>5
<1>3. RunQueueExact' /\ WorkConserving'
  BY <1>1 DEF IInv, RunQueueExact, WorkConserving
<1>4. ReceiverHolds' /\ NoMissedRendezvous' /\ NoLostWakeup'
  BY <1>1 DEF IInv, ReceiverHolds, OnItsWay, Running, ReceiverReady, NoMissedRendezvous,
              NoLostWakeup
<1>5. IrqOwnersLive'
  <2>1. \A i \in Irqs : irq_owners'[i] \in {irq_owners[i], NULL, t}
    BY DEF sys_timer_set, sys_irq_acquire, sys_irq_release, sched, stacks, TypeInv, TypeOK
  <2>2. current = t
    BY DEF sys_timer_set, sys_irq_acquire, sys_irq_release, Running
  <2>3. state[t] = "runnable"
    BY <2>2, CurrentFacts
  <2> QED BY <1>1, <2>1, <2>3 DEF IInv, IrqOwnersLive
<1> QED BY <1>2, <1>3, <1>4, <1>5 DEF IInv

LEMMA ScheduleInv ==
    ASSUME TypeInv, TypeInv', IInv, NEW t \in Tasks, NEW r \in Tasks, NEW p \in Prios,
           sys_task_schedule(t, r, p)
    PROVE  IInv'
<1>1. /\ current = t /\ r # t /\ priority' = [priority EXCEPT ![r] = p]
      /\ UNCHANGED <<state, src, notifications, senders, pager, current, irq_owners,
                     frame, saved, owed>>
  BY DEF sys_task_schedule, Running, stacks
<1>2. FramesInv' /\ SendersInv' /\ CallersInv'
  <2>1. FramesInv /\ SendersInv /\ CallersInv
    BY DEF IInv
  <2>2. ASSUME NEW x PROVE /\ FrameArgs(x, frame[x])' = FrameArgs(x, frame[x])
                           /\ FrameArgs(x, saved[x])' = FrameArgs(x, saved[x])
    BY <1>1 DEF FrameArgs
  <2>3. FramesInv'
    BY <1>1, <2>1, <2>2 DEF FramesInv
  <2>4. SendersInv'
    BY SMTT(30), <1>1, <2>1 DEF SendersInv
  <2>5. CallersInv'
    BY <1>1, <2>1 DEF CallersInv
  <2> QED BY <2>3, <2>4, <2>5
<1>3. ReceiverHolds' /\ NoMissedRendezvous' /\ NoLostWakeup' /\ IrqOwnersLive'
  BY <1>1 DEF IInv, ReceiverHolds, OnItsWay, Running, ReceiverReady, NoMissedRendezvous,
              NoLostWakeup, IrqOwnersLive
<1>4. state[t] = "runnable" /\ t # IDLE_TASK
  BY <1>1, CurrentFacts
<1>5. WorkConserving'
  BY <1>1, <1>4 DEF WorkConserving
<1> DEFINE R == Ready(state, current)
<1>6. /\ R \in SUBSET Tasks /\ priority \in [Tasks -> Prios]
      /\ priority' \in [Tasks -> Prios] /\ Lists(runqueues, R, priority)
  BY ListsReady DEF TypeInv, TypeOK
<1>7. /\ priority'[r] = p
      /\ \A x \in Tasks : x # r => priority'[x] = priority[x]
  BY <1>1, <1>6
<1>8. r \in R <=> state[r] = "runnable"
  BY <1>1 DEF Ready
<1>9. Ready(state', current') = R
  BY <1>1
<1> HIDE DEF R
<1>10. Lists(runqueues', R, priority')
  <2>1. CASE state[r] # "runnable"
    <3>1. runqueues' = runqueues
      BY <2>1 DEF sys_task_schedule
    <3>2. \A x \in R : priority'[x] = priority[x]
      BY <2>1, <1>6, <1>7, <1>8
    <3> QED BY <3>1, <3>2, <1>6, ListsPriority
  <2>2. CASE state[r] = "runnable"
    <3> DEFINE rest == [q \in Prios |-> list_remove(runqueues[q], r)]
               S == R \ {r}
    <3>1. Lists(rest, S, priority)
      BY <1>6, RemoveLists
    <3>2. S \in SUBSET Tasks /\ r \notin S /\ S \cup {r} = R
      BY <2>2, <1>6, <1>8
    <3>3. Lists(rest, S, priority')
      <4>1. \A x \in S : priority'[x] = priority[x]
        BY <1>6, <1>7
      <4> HIDE DEF rest, S
      <4> QED BY <3>1, <3>2, <4>1, ListsPriority
    <3>4. runqueues' = [rest EXCEPT ![p] = Append(rest[p], r)]
      BY <2>2 DEF sys_task_schedule
    <3> HIDE DEF rest, S
    <3>5. Lists([rest EXCEPT ![priority'[r]] = Append(rest[priority'[r]], r)],
                S \cup {r}, priority')
      BY <1>6, <3>2, <3>3, AppendLists
    <3> QED BY <1>7, <3>2, <3>4, <3>5
  <2> QED BY <2>1, <2>2
<1>11. RunQueueExact'
  <2>1. Exact(runqueues', state', current', priority')
    BY <1>1, <1>4, <1>9, <1>10 DEF Exact
  <2> QED BY <2>1, RunQueueEquiv DEF TypeInv
<1> QED BY <1>2, <1>3, <1>5, <1>11 DEF IInv

LEMMA TaskCreateInv ==
    ASSUME TypeInv, TypeInv', IInv, NEW t \in Tasks, task_create(t)
    PROVE  IInv'
<1> DEFINE n == frame[t].dst
           p == frame[t].src
           prio == PRIORITY_MAX - 1
<1>1. /\ current = t /\ frame[t].pc = "create" /\ state[n] = "unused"
      /\ state' = [state EXCEPT ![n] = "runnable"]
      /\ notifications' = [notifications EXCEPT ![n] = {}]
      /\ pager' = [pager EXCEPT ![n] = p]
      /\ src' = [src EXCEPT ![n] = IPC_DENY]
      /\ priority' = [priority EXCEPT ![n] = prio]
      /\ senders' = [senders EXCEPT ![n] = <<>>]
      /\ runqueues' = [runqueues EXCEPT ![prio] = Append(runqueues[prio], n)]
      /\ frame' = [frame EXCEPT ![n] = USER, ![t] = USER]
      /\ saved' = [saved EXCEPT ![n] = USER]
      /\ owed' = [owed EXCEPT ![n] = {}]
      /\ UNCHANGED <<current, irq_owners>>
  BY DEF task_create, Running
<1>2. n \in Tasks /\ n # t /\ p = t
  BY <1>1 DEF TypeInv, FramesTyped, FrameTyped, IInv, FramesInv, FrameArgs
<1>3. /\ state[t] = "runnable" /\ t # IDLE_TASK
      /\ \A x \in Tasks : x # t => frame[x].pc # "fastcopy"
      /\ \A r \in Tasks : t \notin Range(senders[r])
  BY <1>1, CurrentFacts
<1>4. \A s \in Tasks : t \notin owed[s]
  BY <1>1, NotOwed
<1> HIDE DEF n, p, prio
<1>5. /\ state'[n] = "runnable" /\ pager'[n] = t
      /\ \A x \in Tasks : x # n =>
           /\ state'[x] = state[x] /\ src'[x] = src[x] /\ pager'[x] = pager[x]
           /\ senders'[x] = senders[x]
           /\ notifications'[x] = notifications[x] /\ owed'[x] = owed[x]
      /\ senders'[n] = <<>> /\ owed'[n] = {}
  <2>1. DOMAIN state = Tasks /\ DOMAIN pager = Tasks /\ DOMAIN src = Tasks
    BY DEF TypeInv, TypeOK
  <2>2. DOMAIN senders = Tasks /\ DOMAIN owed = Tasks /\ DOMAIN notifications = Tasks
    BY DEF TypeInv, TypeOK
  <2>3. /\ state' = [state EXCEPT ![n] = "runnable"]
        /\ pager' = [pager EXCEPT ![n] = p] /\ src' = [src EXCEPT ![n] = IPC_DENY]
    BY <1>1
  <2>4. /\ senders' = [senders EXCEPT ![n] = <<>>] /\ owed' = [owed EXCEPT ![n] = {}]
        /\ notifications' = [notifications EXCEPT ![n] = {}]
    BY <1>1
  <2>5. /\ state'[n] = "runnable" /\ pager'[n] = t
        /\ \A x \in Tasks : x # n =>
             state'[x] = state[x] /\ src'[x] = src[x] /\ pager'[x] = pager[x]
    BY <2>1, <2>3, <1>2
  <2>6. /\ senders'[n] = <<>> /\ owed'[n] = {}
        /\ \A x \in Tasks : x # n =>
             /\ senders'[x] = senders[x]
             /\ notifications'[x] = notifications[x] /\ owed'[x] = owed[x]
    BY <2>2, <2>4, <1>2
  <2> QED BY <2>5, <2>6
<1>6. /\ frame'[n] = USER /\ frame'[t] = USER /\ saved'[n] = USER
      /\ \A x \in Tasks : x # n => saved'[x] = saved[x]
      /\ \A x \in Tasks : x # n /\ x # t => frame'[x] = frame[x]
  <2>1. DOMAIN frame = Tasks /\ DOMAIN saved = Tasks
    BY DEF TypeInv, TypeOK, FramesTyped
  <2>2. /\ frame' = [frame EXCEPT ![n] = USER, ![t] = USER]
        /\ saved' = [saved EXCEPT ![n] = USER]
    BY <1>1
  <2> QED BY <2>1, <2>2, <1>2
<1>7. FramesInv'
  <2> SUFFICES ASSUME NEW x \in Tasks
               PROVE  (/\ state[x] = "unused" => frame[x].pc = "user" /\ x # current
                       /\ state[x] = "blocked" =>
                            \/ frame[x].pc = "recv_wake" /\ src[x] # IPC_DENY
                            \/ frame[x].pc \in {"send_wake", "exited"} /\ src[x] = IPC_DENY
                       /\ pager[x] # x
                       /\ FrameArgs(x, frame[x]) /\ FrameArgs(x, saved[x])
                       /\ frame[x].pc = "fastcopy" =>
                            FASTPATH /\ current = x /\ notifications[x] = {}
                       /\ saved[x].pc \in {"user", "copyin", "copyout", "create"})'
    BY DEF FramesInv
  <2>9. /\ state[x] = "unused" => frame[x].pc = "user" /\ x # current
        /\ state[x] = "blocked" =>
             \/ frame[x].pc = "recv_wake" /\ src[x] # IPC_DENY
             \/ frame[x].pc \in {"send_wake", "exited"} /\ src[x] = IPC_DENY
        /\ pager[x] # x
        /\ FrameArgs(x, frame[x]) /\ FrameArgs(x, saved[x])
        /\ saved[x].pc \in {"user", "copyin", "copyout", "create"}
    BY DEF IInv, FramesInv
  <2>0. USER.pc = "user" /\ FrameArgs(x, USER)
    BY UserTyped, FrameArgsFacts
  <2>1. CASE x = n
    <3>1. (FrameArgs(x, frame[x]) /\ FrameArgs(x, saved[x]))'
      BY <2>0, <2>1, <1>6 DEF FrameArgs
    <3> QED BY <2>0, <2>1, <3>1, <1>2, <1>5, <1>6
  <2>2. CASE x = t
    <3>1. (FrameArgs(x, frame[x]))'
      BY <2>0, <2>2, <1>6 DEF FrameArgs
    <3>2. (FrameArgs(x, saved[x]))' = FrameArgs(x, saved[x])
      BY <2>2, <1>2, <1>6 DEF FrameArgs
    <3>3. /\ state'[x] = "runnable" /\ pager'[x] # x /\ frame'[x].pc = "user"
          /\ saved'[x].pc \in {"user", "copyin", "copyout", "create"}
      BY <2>0, <2>2, <2>9, <1>2, <1>3, <1>5, <1>6
    <3> QED BY <2>9, <3>1, <3>2, <3>3
  <2>3. CASE x # n /\ x # t
    <3>1. (FrameArgs(x, frame[x]) /\ FrameArgs(x, saved[x]))'
             = (FrameArgs(x, frame[x]) /\ FrameArgs(x, saved[x]))
      BY <2>3, <1>6 DEF FrameArgs
    <3>2. /\ state'[x] = state[x] /\ src'[x] = src[x] /\ pager'[x] = pager[x]
          /\ frame'[x] = frame[x] /\ saved'[x] = saved[x] /\ frame[x].pc # "fastcopy"
      BY <2>3, <1>3, <1>5, <1>6
    <3>3. current' = current
      BY <1>1
    <3> QED BY <2>9, <3>1, <3>2, <3>3
  <2> QED BY <2>1, <2>2, <2>3
<1>8. SendersInv'
  <2> SUFFICES ASSUME NEW r \in Tasks
               PROVE  /\ IsInjective(senders'[r])
                      /\ \A s \in Range(senders'[r]) :
                           /\ state'[s] = "blocked" /\ src'[s] = IPC_DENY
                           /\ frame'[s].pc = "send_wake" /\ frame'[s].dst = r
    BY DEF SendersInv
  <2>1. CASE r = n
    BY SMTT(30), <2>1, <1>5 DEF IsInjective, Range
  <2>2. CASE r # n
    <3>1. senders'[r] = senders[r] /\ IsInjective(senders[r])
      BY <2>2, <1>5 DEF IInv, SendersInv
    <3>2. ASSUME NEW s \in Range(senders[r])
          PROVE  /\ state'[s] = "blocked" /\ src'[s] = IPC_DENY
                 /\ frame'[s].pc = "send_wake" /\ frame'[s].dst = r
      <4>1. /\ s \in Tasks /\ s # t /\ state[s] = "blocked" /\ src[s] = IPC_DENY
            /\ frame[s].pc = "send_wake" /\ frame[s].dst = r
        BY SMTT(30), <1>3, SenderFacts
      <4>2. s # n
        BY <4>1, <1>1
      <4> QED BY <4>1, <4>2, <1>5, <1>6
    <3> QED BY <3>1, <3>2
  <2> QED BY <2>1, <2>2
<1>9. CallersInv'
  <2> SUFFICES ASSUME NEW s \in Tasks, NEW c \in owed'[s]
               PROVE  c # t /\ state'[c] = "blocked" /\ src'[c] = s
    BY <1>1 DEF CallersInv
  <2>1. c \in owed[s] /\ c \in Tasks /\ c # t
    BY <1>4, <1>5 DEF TypeInv, TypeOK
  <2>2. state[c] = "blocked" /\ src[c] = s
    BY <2>1, <1>1 DEF IInv, CallersInv
  <2> QED BY <2>1, <2>2, <1>1, <1>5
<1>10. RunQueueExact'
  <2> DEFINE R == Ready(state, current)
  <2>1. /\ R \in SUBSET Tasks /\ n \notin R /\ Lists(runqueues, R, priority)
        /\ priority \in [Tasks -> Prios] /\ priority' \in [Tasks -> Prios]
    BY <1>1, ListsReady DEF Ready, TypeInv, TypeOK
  <2>2. Ready(state', current') = R \cup {n}
    BY <1>1, <1>2, <1>5 DEF Ready
  <2> HIDE DEF R
  <2>3. priority'[n] = prio /\ \A x \in R : priority'[x] = priority[x]
    BY <1>1, <1>2, <2>1
  <2>4. Lists(runqueues, R, priority')
    BY <2>1, <2>3, ListsPriority
  <2>5. Lists([runqueues EXCEPT ![priority'[n]] = Append(runqueues[priority'[n]], n)],
              R \cup {n}, priority')
    BY <1>2, <2>1, <2>4, AppendLists
  <2>6. Exact(runqueues', state', current', priority')
    BY <1>1, <1>2, <1>3, <1>5, <2>2, <2>3, <2>5 DEF Exact
  <2> QED BY <2>6, RunQueueEquiv DEF TypeInv
<1>11. WorkConserving'
  BY <1>1, <1>3 DEF WorkConserving
<1>12. ReceiverHolds'
  <2> SUFFICES ASSUME NEW x \in Tasks
               PROVE  /\ OnItsWay(x)' => /\ state'[frame'[x].dst] = "blocked"
                                         /\ src'[frame'[x].dst] = x
                      /\ ~Running(x, "fastcopy")'
    BY DEF ReceiverHolds
  <2>1. CASE x = t \/ x = n
    BY <2>1, <1>6, UserTyped DEF OnItsWay, Running
  <2>2. CASE x # t /\ x # n
    <3>1. ~Running(x, "fastcopy")'
      BY <2>2, <1>6, <1>3 DEF Running
    <3>2. ASSUME OnItsWay(x)'
          PROVE  state'[frame'[x].dst] = "blocked" /\ src'[frame'[x].dst] = x
      <4>1. frame[x].pc = "send_wake" /\ state[x] = "runnable" /\ frame'[x] = frame[x]
        BY <3>2, <2>2, <1>5, <1>6 DEF OnItsWay
      <4>2. state[frame[x].dst] = "blocked" /\ src[frame[x].dst] = x
        BY <4>1 DEF IInv, ReceiverHolds, OnItsWay
      <4>3. frame[x].dst # n /\ frame[x].dst \in Tasks
        BY <4>1, <4>2, <1>1 DEF TypeInv, FramesTyped, FrameTyped, SendPcs
      <4> QED BY <4>1, <4>2, <4>3, <1>5
    <3> QED BY <3>1, <3>2
  <2> QED BY <2>1, <2>2
<1>13. NoMissedRendezvous'
  BY <1>5 DEF IInv, NoMissedRendezvous
<1>14. NoLostWakeup'
  BY <1>5 DEF IInv, NoLostWakeup
<1>15. IrqOwnersLive'
  <2>1. IrqOwnersLive /\ irq_owners' = irq_owners
    BY <1>1 DEF IInv
  <2>2. \A x \in Tasks : state[x] # "unused" => state'[x] # "unused"
    BY <1>1, <1>5
  <2> QED BY <2>1, <2>2 DEF IrqOwnersLive, TypeInv, TypeOK
<1> QED BY <1>7, <1>8, <1>9, <1>10, <1>11, <1>12, <1>13, <1>14, <1>15 DEF IInv

LEMMA TaskDestroyInv ==
    ASSUME TypeInv, TypeInv', IInv, DISCIPLINED, NEW t \in Tasks, NEW r \in Tasks,
           sys_task_destroy(t, r)
    PROVE  IInv'
<1>1. /\ current = t /\ frame[t].pc = "user" /\ r # t
      /\ \A s \in Tasks : ~(OnItsWay(s) /\ frame[s].dst = r)
      /\ state' = [state EXCEPT ![r] = "unused"]
      /\ runqueues' = [p \in Prios |-> list_remove(runqueues[p], r)]
      /\ senders' = [x \in Tasks |-> IF x = r THEN <<>>
                                     ELSE list_remove(senders[x], r)]
      /\ notifications' = [x \in Tasks |-> IF x \in Range(senders[r])
                                           THEN notifications[x] \cup {"ABORTED"}
                                           ELSE notifications[x]]
      /\ frame' = [frame EXCEPT ![r] = USER]
      /\ saved' = [saved EXCEPT ![r] = USER]
      /\ owed' = [x \in Tasks |-> IF x = r THEN {} ELSE owed[x] \ {r}]
      /\ UNCHANGED <<src, pager, priority, current>>
  BY DEF sys_task_destroy, Running, QueuesWithout
<1>2. irq_owners' = [i \in Irqs |-> IF irq_owners[i] = r THEN NULL ELSE irq_owners[i]]
  BY DEF sys_task_destroy, OwnersWithout
<1>3. /\ state[t] = "runnable" /\ t # IDLE_TASK
      /\ \A x \in Tasks : x # t => frame[x].pc # "fastcopy"
  BY <1>1, CurrentFacts
<1>4. /\ state'[r] = "unused" /\ frame'[r] = USER /\ saved'[r] = USER
      /\ \A x \in Tasks : x # r =>
           state'[x] = state[x] /\ frame'[x] = frame[x] /\ saved'[x] = saved[x]
  <2>1. DOMAIN state = Tasks /\ DOMAIN frame = Tasks /\ DOMAIN saved = Tasks
    BY DEF TypeInv, TypeOK, FramesTyped
  <2>2. /\ state' = [state EXCEPT ![r] = "unused"] /\ frame' = [frame EXCEPT ![r] = USER]
        /\ saved' = [saved EXCEPT ![r] = USER]
    BY <1>1
  <2> QED BY <2>1, <2>2
<1>5. \A x \in Tasks : /\ IsInjective(senders'[x])
                       /\ Range(senders'[x]) \subseteq Range(senders[x]) \ {r}
  <2> SUFFICES ASSUME NEW x \in Tasks
               PROVE  /\ IsInjective(senders'[x])
                      /\ Range(senders'[x]) \subseteq Range(senders[x]) \ {r}
    OBVIOUS
  <2>1. CASE x = r
    BY SMTT(30), <1>1, <2>1 DEF IsInjective, Range
  <2>2. CASE x # r
    <3>1. senders'[x] = list_remove(senders[x], r)
      BY <1>1, <2>2
    <3>2. senders[x] \in Seq(Tasks) /\ IsInjective(senders[x])
      BY DEF TypeInv, TypeOK, IInv, SendersInv
    <3> QED BY SMTT(30), <3>1, <3>2, RemoveRange
  <2> QED BY <2>1, <2>2
<1>6. FramesInv'
  <2> SUFFICES ASSUME NEW x \in Tasks
               PROVE  (/\ state[x] = "unused" => frame[x].pc = "user" /\ x # current
                       /\ state[x] = "blocked" =>
                            \/ frame[x].pc = "recv_wake" /\ src[x] # IPC_DENY
                            \/ frame[x].pc \in {"send_wake", "exited"} /\ src[x] = IPC_DENY
                       /\ pager[x] # x
                       /\ FrameArgs(x, frame[x]) /\ FrameArgs(x, saved[x])
                       /\ frame[x].pc = "fastcopy" =>
                            FASTPATH /\ current = x /\ notifications[x] = {}
                       /\ saved[x].pc \in {"user", "copyin", "copyout", "create"})'
    BY DEF FramesInv
  <2>9. /\ state[x] = "unused" => frame[x].pc = "user" /\ x # current
        /\ state[x] = "blocked" =>
             \/ frame[x].pc = "recv_wake" /\ src[x] # IPC_DENY
             \/ frame[x].pc \in {"send_wake", "exited"} /\ src[x] = IPC_DENY
        /\ pager[x] # x
        /\ FrameArgs(x, frame[x]) /\ FrameArgs(x, saved[x])
        /\ saved[x].pc \in {"user", "copyin", "copyout", "create"}
    BY DEF IInv, FramesInv
  <2>1. CASE x = r
    <3>1. USER.pc = "user" /\ FrameArgs(x, USER)
      BY UserTyped, FrameArgsFacts
    <3>2. (FrameArgs(x, frame[x]) /\ FrameArgs(x, saved[x]))'
      BY <2>1, <3>1, <1>4 DEF FrameArgs
    <3> QED BY <2>1, <2>9, <3>1, <3>2, <1>1, <1>4
  <2>2. CASE x # r
    <3>1. (FrameArgs(x, frame[x]) /\ FrameArgs(x, saved[x]))'
             = (FrameArgs(x, frame[x]) /\ FrameArgs(x, saved[x]))
      BY <2>2, <1>4 DEF FrameArgs
    <3>2. frame[x].pc # "fastcopy"
      BY <1>1, <1>3
    <3>3. /\ state'[x] = state[x] /\ frame'[x] = frame[x] /\ saved'[x] = saved[x]
          /\ src'[x] = src[x] /\ pager'[x] = pager[x] /\ current' = current
      BY <2>2, <1>1, <1>4
    <3> QED BY <2>9, <3>1, <3>2, <3>3
  <2> QED BY <2>1, <2>2
<1>7. SendersInv'
  <2>1. ASSUME NEW x \in Tasks, NEW s \in Range(senders'[x])
        PROVE  /\ state'[s] = "blocked" /\ src'[s] = IPC_DENY
               /\ frame'[s].pc = "send_wake" /\ frame'[s].dst = x
    <3>1. s \in Range(senders[x]) /\ s # r
      BY <1>5
    <3>2. /\ s \in Tasks /\ state[s] = "blocked" /\ src[s] = IPC_DENY
          /\ frame[s].pc = "send_wake" /\ frame[s].dst = x
      BY <3>1, SenderFacts
    <3>3. state'[s] = state[s] /\ frame'[s] = frame[s] /\ src'[s] = src[s]
      BY <3>1, <3>2, <1>1, <1>4
    <3> QED BY <3>2, <3>3
  <2> QED BY <2>1, <1>5 DEF SendersInv
<1>8. CallersInv'
  <2> SUFFICES ASSUME NEW s \in Tasks, NEW c \in owed'[s]
               PROVE  c # t /\ state'[c] = "blocked" /\ src[c] = s
    BY <1>1 DEF CallersInv
  <2>1. c \in owed[s] /\ c # r /\ c \in Tasks
    BY <1>1 DEF TypeInv, TypeOK
  <2>2. c # t
    BY <2>1, <1>1, NotOwed
  <2>3. state[c] = "blocked" /\ src[c] = s
    BY <2>1, <2>2, <1>1 DEF IInv, CallersInv
  <2> QED BY <2>1, <2>2, <2>3, <1>4
<1>9. RunQueueExact'
  <2> DEFINE R == Ready(state, current)
  <2>1. R \in SUBSET Tasks /\ Lists(runqueues, R, priority)
    BY ListsReady
  <2>2. Ready(state', current') = R \ {r}
    BY <1>1, <1>4 DEF Ready
  <2> HIDE DEF R
  <2>3. Lists(runqueues', R \ {r}, priority)
    BY <1>1, <2>1, RemoveLists
  <2>4. Exact(runqueues', state', current', priority')
    BY <1>1, <1>3, <1>4, <2>2, <2>3 DEF Exact
  <2> QED BY <2>4, RunQueueEquiv DEF TypeInv
<1>10. WorkConserving'
  BY <1>1, <1>3 DEF WorkConserving
<1>11. ReceiverHolds'
  <2> SUFFICES ASSUME NEW x \in Tasks
               PROVE  /\ OnItsWay(x)' => /\ state'[frame'[x].dst] = "blocked"
                                         /\ src[frame'[x].dst] = x
                      /\ ~Running(x, "fastcopy")'
    BY <1>1 DEF ReceiverHolds
  <2>1. CASE x = r
    BY <2>1, <1>4, UserTyped DEF OnItsWay, Running
  <2>2. CASE x # r
    <3>1. ~Running(x, "fastcopy")'
      BY <2>2, <1>1, <1>4 DEF Running
    <3>2. ASSUME OnItsWay(x)'
          PROVE  state'[frame'[x].dst] = "blocked" /\ src[frame'[x].dst] = x
      <4>1. /\ OnItsWay(x) /\ frame[x].pc = "send_wake" /\ state[x] = "runnable"
            /\ frame'[x] = frame[x]
        BY <3>2, <2>2, <1>4 DEF OnItsWay
      <4>2. state[frame[x].dst] = "blocked" /\ src[frame[x].dst] = x
        BY <4>1 DEF IInv, ReceiverHolds
      <4>3. frame[x].dst # r /\ frame[x].dst \in Tasks
        BY <4>1, <1>1 DEF TypeInv, FramesTyped, FrameTyped, SendPcs
      <4> QED BY <4>1, <4>2, <4>3, <1>4
    <3> QED BY <3>1, <3>2
  <2> QED BY <2>1, <2>2
<1>12. NoMissedRendezvous'
  <2> SUFFICES ASSUME NEW x \in Tasks, NEW s \in Tasks, state'[x] = "blocked",
                      s \in Range(senders'[x])
               PROVE  src[x] \notin {IPC_ANY, s}
    BY <1>1 DEF NoMissedRendezvous
  <2>1. x # r /\ state[x] = "blocked" /\ s \in Range(senders[x])
    BY <1>4, <1>5
  <2> QED BY <2>1 DEF IInv, NoMissedRendezvous
<1>13. NoLostWakeup'
  <2> SUFFICES ASSUME NEW x \in Tasks, state'[x] = "blocked", src[x] = IPC_ANY
               PROVE  notifications'[x] = {}
    BY <1>1 DEF NoLostWakeup
  <2>1. x # r /\ state[x] = "blocked" /\ notifications[x] = {}
    BY <1>4 DEF IInv, NoLostWakeup
  <2>2. x \notin Range(senders[r])
    BY SMTT(30), SenderFacts, TaskFacts
  <2> QED BY <2>1, <2>2, <1>1
<1>14. IrqOwnersLive'
  BY <1>2, <1>4 DEF IInv, IrqOwnersLive, TypeInv, TypeOK
<1> QED BY <1>6, <1>7, <1>8, <1>9, <1>10, <1>11, <1>12, <1>13, <1>14 DEF IInv

-----------------------------------------------------------------------------
LEMMA InitInv == Init => IInv
<1> SUFFICES ASSUME Init PROVE IInv
  OBVIOUS
<1>0. TypeInv
  BY InitTyped
<1> DEFINE q == [i \in 1..(NUM_BOOT - 1) |-> i + 1]
           R == Ready(state, current)
<1>1. /\ state = [t \in Tasks |-> IF t \in Booted THEN "runnable" ELSE "unused"]
      /\ runqueues = [p \in Prios |-> IF p = PRIORITY_MAX - 1 THEN q ELSE <<>>]
      /\ priority = [t \in Tasks |-> PRIORITY_MAX - 1]
      /\ current = INIT_TASK /\ current \in Tasks /\ current # IDLE_TASK
      /\ state[current] = "runnable"
  <2>1. INIT_TASK \in Tasks /\ INIT_TASK \in Booted /\ INIT_TASK # IDLE_TASK
    BY SMTT(30), TaskFacts, ConstantsAssumption DEF INIT_TASK, Booted, IDLE_TASK
  <2> QED BY <2>1 DEF Init
<1>2. IsInjective(q) /\ Range(q) = R
  <2>1. NUM_BOOT \in Nat /\ NUM_BOOT <= NUM_TASKS /\ NUM_TASKS \in Nat
    BY SMTT(30), ConstantsAssumption
  <2>2. R = 2..NUM_BOOT
    BY SMTT(30), <1>1, <2>1 DEF Ready, Tasks, Booted, INIT_TASK
  <2>3. IsInjective(q)
    BY SMTT(30), <2>1 DEF IsInjective
  <2>4. ASSUME NEW x \in 2..NUM_BOOT PROVE x \in Range(q)
    <3>1. x - 1 \in 1..(NUM_BOOT - 1) /\ q[x - 1] = x
      BY SMTT(30), <2>1
    <3> QED BY <3>1 DEF Range
  <2>5. ASSUME NEW x \in Range(q) PROVE x \in 2..NUM_BOOT
    BY SMTT(30), <2>1 DEF Range
  <2> QED BY <2>2, <2>3, <2>4, <2>5
<1>3. RunQueueExact
  <2>1. PRIORITY_MAX - 1 \in Prios /\ R \subseteq Tasks
    BY TaskFacts DEF Ready
  <2> HIDE DEF q, R
  <2>2. ASSUME NEW p \in Prios
        PROVE  /\ IsInjective(runqueues[p])
               /\ Range(runqueues[p]) = {t \in R : priority[t] = p}
    <3>1. CASE p = PRIORITY_MAX - 1
      BY <3>1, <1>1, <1>2, <2>1
    <3>2. CASE p # PRIORITY_MAX - 1
      BY SMTT(30), <3>2, <1>1, <2>1 DEF IsInjective, Range
    <3> QED BY <3>1, <3>2
  <2>3. Lists(runqueues, R, priority)
    BY <2>2, <1>0 DEF Lists, RunQueues, TypeInv, TypeOK
  <2>4. Exact(runqueues, state, current, priority)
    BY <2>3, <1>1 DEF Exact, R
  <2> QED BY <2>4, <1>0, RunQueueEquiv DEF TypeInv
<1>4. FramesInv
  <2>1. /\ \A t \in Tasks : frame[t] = USER /\ saved[t] = USER
        /\ \A t \in Tasks : state[t] \in {"unused", "runnable"} /\ pager[t] # t
    BY <1>1, TaskFacts DEF Init
  <2>2. USER.pc = "user" /\ \A t \in Tasks : FrameArgs(t, USER)
    BY UserTyped DEF FrameArgs, SendPcs
  <2>3. \A t \in Tasks : state[t] = "unused" => t # current
    BY <1>1
  <2> QED BY <2>1, <2>2, <2>3 DEF FramesInv
<1>5. SendersInv /\ CallersInv
  <2>1. \A t \in Tasks : senders[t] = <<>> /\ owed[t] = {}
    BY DEF Init
  <2>2. Range(<<>>) = {} /\ IsInjective(<<>>)
    BY SMTT(30) DEF Range, IsInjective
  <2>3. SendersInv
    BY <2>1, <2>2 DEF SendersInv
  <2>4. CallersInv
    BY <2>1 DEF CallersInv
  <2> QED BY <2>3, <2>4
<1>6. WorkConserving
  BY <1>1 DEF WorkConserving
<1>7. ReceiverHolds
  BY UserTyped DEF Init, ReceiverHolds, OnItsWay, Running
<1>8. NoMissedRendezvous /\ NoLostWakeup /\ IrqOwnersLive
  BY DEF Init, NoMissedRendezvous, NoLostWakeup, IrqOwnersLive, Range
<1> QED BY <1>3, <1>4, <1>5, <1>6, <1>7, <1>8 DEF IInv

LEMMA StutterInv == TypeInv /\ IInv /\ UNCHANGED vars => IInv'
<1> SUFFICES ASSUME TypeInv, IInv, UNCHANGED vars PROVE IInv'
  OBVIOUS
<1>1. UNCHANGED <<state, src, notifications, senders, pager, priority, runqueues,
                  current, frame, saved, owed, irq_owners>>
  BY DEF vars
<1>2. FramesInv' /\ SendersInv' /\ CallersInv'
  <2>1. FramesInv /\ SendersInv /\ CallersInv
    BY DEF IInv
  <2>2. ASSUME NEW x PROVE /\ FrameArgs(x, frame[x])' = FrameArgs(x, frame[x])
                           /\ FrameArgs(x, saved[x])' = FrameArgs(x, saved[x])
    BY <1>1 DEF FrameArgs
  <2>3. FramesInv'
    BY <1>1, <2>1, <2>2 DEF FramesInv
  <2>4. SendersInv'
    <3>1. senders' = senders /\ state' = state /\ src' = src /\ frame' = frame
      BY <1>1
    <3>2. SendersInv
      BY <2>1
    <3> QED BY <3>1, <3>2 DEF SendersInv
  <2>5. CallersInv'
    BY <1>1, <2>1 DEF CallersInv
  <2> QED BY <2>3, <2>4, <2>5
<1>3. RunQueueExact' /\ WorkConserving'
  BY <1>1 DEF IInv, RunQueueExact, WorkConserving
<1>4. ReceiverHolds' /\ NoMissedRendezvous' /\ NoLostWakeup' /\ IrqOwnersLive'
  BY <1>1 DEF IInv, ReceiverHolds, OnItsWay, Running, ReceiverReady, NoMissedRendezvous,
              NoLostWakeup, IrqOwnersLive
<1> QED BY <1>2, <1>3, <1>4 DEF IInv

LEMMA NextInv ==
    ASSUME DISCIPLINED, ~(FASTPATH /\ FASTFAULT)
    PROVE  TypeInv /\ IInv /\ [Next]_vars => IInv'
<1> SUFFICES ASSUME TypeInv, IInv, [Next]_vars PROVE IInv'
  OBVIOUS
<1>0. TypeInv'
  BY NextTyped
<1>1. CASE UNCHANGED vars
  BY <1>1, StutterInv
<1>2. ASSUME NEW t \in Tasks, KernelStep(t) PROVE IInv'
  <2>1. CASE \/ SendWouldBlock(t) \/ SendAborted(t) \/ RecvPending(t)
             \/ RecvWouldBlock(t) \/ RecvWake(t) \/ CopyOut(t) \/ CreateFails(t)
    BY <2>1, <1>0, QuietStepsInv
  <2>2. CASE SendReady(t) \/ SendWake(t)
    BY <2>2, <1>0, SendStepsInv
  <2>3. CASE SendBlock(t) \/ ExitBlock(t)
    BY <2>3, <1>0, BlockStepsInv
  <2>4. CASE RecvBlock(t)
    BY <2>4, <1>0, RecvBlockInv
  <2>5. CASE FastCall(t)
    BY <2>5, <1>0, FastCallInv
  <2>6. CASE task_create(t)
    BY <2>6, <1>0, TaskCreateInv
  <2> QED BY <1>2, <2>1, <2>2, <2>3, <2>4, <2>5, <2>6 DEF KernelStep
<1>3. ASSUME NEW t \in Tasks, UserStep(t) PROVE IInv'
  <2>1. CASE \E fl \in USER_FLAGS, d \in Tasks \cup {NULL},
               s \in (Tasks \ {t}) \cup {IPC_ANY}, type \in USER_TYPES :
                 sys_ipc(t, d, s, fl, type)
    <3>1. USER_FLAGS \subseteq SUBSET IpcFlags
      BY ConstantsAssumption
    <3> QED BY <2>1, <3>1, <1>0, SysIpcInv
  <2>2. CASE \E d \in Tasks, n \in USER_NOTIFY : sys_notify(t, d, n)
    BY <2>2, <1>0, SysNotifyInv
  <2>3. CASE \/ \E v \in 0..MAX_TIMEOUT : sys_timer_set(t, v)
             \/ \E i \in Irqs : sys_irq_acquire(t, i) \/ sys_irq_release(t, i)
    BY <2>3, <1>0, SmallCallsInv
  <2>4. CASE \E r \in Tasks, p \in Prios : sys_task_schedule(t, r, p)
    BY <2>4, <1>0, ScheduleInv
  <2>5. CASE \E n, p \in Tasks, c \in CREATE_CAPS : sys_task_create(t, n, p, c)
    <3>1. CREATE_CAPS \subseteq BOOLEAN
      BY ConstantsAssumption
    <3> QED BY <2>5, <3>1, <1>0, SysTaskCreateInv
  <2>6. CASE \E r \in Tasks : sys_task_destroy(t, r)
    BY <2>6, <1>0, TaskDestroyInv
  <2>7. CASE handle_page_fault(t) \/ abi_emu_hook(t) \/ task_exit(t)
    BY <2>7, <1>0, QuietStepsInv
  <2> QED BY <1>3, <2>1, <2>2, <2>3, <2>4, <2>5, <2>6, <2>7 DEF UserStep
<1>4. CASE Interrupt
  BY <1>4, <1>0, TimerInv, HandleIrqInv DEF Interrupt
<1> QED BY <1>1, <1>2, <1>3, <1>4 DEF Next

-----------------------------------------------------------------------------
(***************************************************************************)
(* The theorems.  DISCIPLINED is what the callers of task_create and       *)
(* task_destroy in servers/vm and servers/minlin keep to; the second       *)
(* assumption is a kernel without the fastpath, or one whose fastpath only *)
(* copies from mapped memory.                                              *)
(***************************************************************************)
LEMMA Invariance ==
    ASSUME DISCIPLINED, ~(FASTPATH /\ FASTFAULT)
    PROVE  Spec => []IInv
<1>1. TypeInv /\ IInv /\ [Next]_vars => (TypeInv /\ IInv)'
  BY NextTyped, NextInv
<1>2. Init => TypeInv /\ IInv
  BY InitTyped, InitInv
<1> QED BY <1>1, <1>2, PTL DEF Spec

\* The run queues hold exactly the runnable tasks other than CURRENT, each once
\* and at its priority (task.c:14, enqueue_task, scheduler, task_destroy).
THEOREM RunQueuesExact ==
    ASSUME DISCIPLINED, ~(FASTPATH /\ FASTFAULT)
    PROVE  Spec => []RunQueueExact
<1>1. IInv => RunQueueExact
  BY DEF IInv
<1> QED BY <1>1, Invariance, PTL

\* The point of no return of the send phase (ipc.c:84-87) is sound: the
\* receiver is still blocked for this sender when the sender resumes it.
THEOREM PointOfNoReturn ==
    ASSUME DISCIPLINED, ~(FASTPATH /\ FASTFAULT)
    PROVE  Spec => []ReceiverHolds
<1>1. IInv => ReceiverHolds
  BY DEF IInv
<1> QED BY <1>1, Invariance, PTL

\* No receiver sleeps while a sender that it would accept sleeps in its queue
\* (resume_sender in both IPC paths).
THEOREM Rendezvous ==
    ASSUME DISCIPLINED, ~(FASTPATH /\ FASTFAULT)
    PROVE  Spec => []NoMissedRendezvous
<1>1. IInv => NoMissedRendezvous
  BY DEF IInv
<1> QED BY <1>1, Invariance, PTL

\* No task waits for anything while it has a pending notification (notify and
\* the receive phase).
THEOREM Wakeups ==
    ASSUME DISCIPLINED, ~(FASTPATH /\ FASTFAULT)
    PROVE  Spec => []NoLostWakeup
<1>1. IInv => NoLostWakeup
  BY DEF IInv
<1> QED BY <1>1, Invariance, PTL

\* A server's non-blocking reply to a call finds the caller waiting for it
\* (ipc_reply in libs/resea/ipc.c).
THEOREM RepliesFindCallers ==
    ASSUME DISCIPLINED, ~(FASTPATH /\ FASTFAULT)
    PROVE  Spec => []CallersWait
<1>1. IInv => CallersWait
  BY DEF IInv, CallersInv, CallersWait
<1> QED BY <1>1, Invariance, PTL

\* The CPU does not idle while a task is runnable (scheduler, handle_irq and
\* handle_timer_irq).
THEOREM NoIdling ==
    ASSUME DISCIPLINED, ~(FASTPATH /\ FASTFAULT)
    PROVE  Spec => []WorkConserving
<1>1. IInv => WorkConserving
  BY DEF IInv
<1> QED BY <1>1, Invariance, PTL

\* handle_irq never notifies a task that has been destroyed (task_destroy
\* releases its interrupts).
THEOREM IrqsReachLiveTasks ==
    ASSUME DISCIPLINED, ~(FASTPATH /\ FASTFAULT)
    PROVE  Spec => []IrqOwnersLive
<1>1. IInv => IrqOwnersLive
  BY DEF IInv
<1> QED BY <1>1, Invariance, PTL
=============================================================================
