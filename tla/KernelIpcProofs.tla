--------------------------- MODULE KernelIpcProofs ---------------------------
(***************************************************************************)
(* The steps of ipc() and task_exit() that deliver a message or put the    *)
(* running task to sleep preserve the invariant.                           *)
(***************************************************************************)
EXTENDS KernelInvariant

USE ZenonT(10), SMTT(30)

(***************************************************************************)
(* Delivery of a message to a blocked receiver.                            *)
(***************************************************************************)
LEMMA AfterSendStack ==
    ASSUME TypeInv, IInv, NEW t \in Tasks, frame[t].pc \in {"copyin", "send", "send_wake"},
           AfterSend(t)
    PROVE  \E f, g :
             /\ frame' = [frame EXCEPT ![t] = f] /\ saved' = [saved EXCEPT ![t] = g]
             /\ FrameArgs(t, f) /\ FrameArgs(t, g)
             /\ g.pc \in {"user", "copyin", "copyout", "create"}
             /\ f.pc \in {"user", "exiting", "send", "recv"}
             /\ IsCall(t) => /\ f.pc = "recv" /\ f.src = frame[t].dst
                             /\ "NOBLOCK" \notin f.flags
<1>1. CASE "RECV" \in frame[t].flags
  <2> DEFINE f == [frame[t] EXCEPT !.pc = "recv", !.dst = NULL, !.m = NoMessage]
  <2>1. frame' = [frame EXCEPT ![t] = f] /\ UNCHANGED saved
    BY <1>1 DEF AfterSend
  <2>2. f.pc = "recv" /\ f.src = frame[t].src /\ f.flags = frame[t].flags
    BY SMTT(30) DEF TypeInv, TypeOK, Frames
  <2> HIDE DEF f
  <2>3. saved' = [saved EXCEPT ![t] = saved[t]]
    BY <2>1 DEF TypeInv, TypeOK
  <2>4. FrameArgs(t, f)
    BY <2>2 DEF FrameArgs, SendPcs
  <2>5. IsCall(t) => f.src = frame[t].dst /\ "NOBLOCK" \notin f.flags
    BY <2>2 DEF IsCall
  <2>6. FrameArgs(t, saved[t]) /\ saved[t].pc \in {"user", "copyin", "copyout", "create"}
    BY FrameArgsFacts
  <2> QED BY <2>1, <2>2, <2>3, <2>4, <2>5, <2>6
<1>2. CASE "RECV" \notin frame[t].flags
  <2>1. IpcReturns(t, FALSE) /\ ~IsCall(t)
    BY <1>2 DEF AfterSend, IsCall
  <2>2. PICK f, g :
          /\ frame' = [frame EXCEPT ![t] = f] /\ saved' = [saved EXCEPT ![t] = g]
          /\ FrameArgs(t, f) /\ FrameArgs(t, g) /\ g.pc = "user"
          /\ f.pc \in {"user", "exiting", "send"}
    BY <2>1, IpcReturnsStack
  <2> QED BY <2>1, <2>2
<1> QED BY <1>1, <1>2

\* The calls that a delivery from t to d answers and opens.
LEMMA OwedAfterSend ==
    ASSUME TypeInv, NEW t \in Tasks, NEW d \in Tasks, d # t, d = frame[t].dst,
           SendMessage(t)
    PROVE  /\ owed'[t] = owed[t] \ {d}
           /\ owed'[d] = IF IsCall(t) THEN owed[d] \cup {t} ELSE owed[d]
           /\ \A s \in Tasks : s # t /\ s # d => owed'[s] = owed[s]
<1> DEFINE call == IsCall(t)
<1>1. owed' = [owed EXCEPT ![t] = owed[t] \ {d},
                           ![d] = IF call THEN owed[d] \cup {t} ELSE owed[d]]
  <2>1. owed' = [owed EXCEPT ![t] = @ \ {d}, ![d] = IF call THEN @ \cup {t} ELSE @]
    BY DEF SendMessage
  <2> HIDE DEF call
  <2> QED BY <2>1
<1>2. owed \in [Tasks -> SUBSET Tasks]
  BY DEF TypeInv, TypeOK
<1> HIDE DEF call
<1>3. /\ owed'[t] = owed[t] \ {d}
      /\ owed'[d] = IF call THEN owed[d] \cup {t} ELSE owed[d]
      /\ \A s \in Tasks : s # t /\ s # d => owed'[s] = owed[s]
  BY <1>1, <1>2
<1> QED BY <1>3 DEF call

LEMMA DeliverInv ==
    ASSUME TypeInv, TypeInv', IInv, NEW t \in Tasks, current = t,
           frame[t].pc \in {"copyin", "send", "send_wake"},
           ReceiverReady(frame[t].dst, t), Deliver(t), UNCHANGED notifications
    PROVE  IInv'
<1> DEFINE d == frame[t].dst
<1>1. /\ d \in Tasks /\ d # t /\ state[d] = "blocked"
      /\ src[d] \in {IPC_ANY, t} /\ src[d] # IPC_DENY
  <2>1. d \in Tasks
    BY DEF TypeInv, FramesTyped, FrameTyped, SendPcs
  <2>2. d # t
    BY DEF IInv, FramesInv, FrameArgs, SendPcs
  <2> QED BY <2>1, <2>2, TaskFacts DEF ReceiverReady
<1>2. /\ frame[d].pc = "recv_wake"
      /\ state[t] = "runnable" /\ t # IDLE_TASK
      /\ \A x \in Tasks : x # t => frame[x].pc # "fastcopy"
      /\ \A r \in Tasks : t \notin Range(senders[r])
  BY <1>1, CurrentFacts DEF IInv, FramesInv
<1>3. PICK f, g :
        /\ frame' = [frame EXCEPT ![t] = f] /\ saved' = [saved EXCEPT ![t] = g]
        /\ FrameArgs(t, f) /\ FrameArgs(t, g)
        /\ g.pc \in {"user", "copyin", "copyout", "create"}
        /\ f.pc \in {"user", "exiting", "send", "recv"}
        /\ IsCall(t) => /\ f.pc = "recv" /\ f.src = d
                        /\ "NOBLOCK" \notin f.flags
  BY AfterSendStack DEF Deliver
<1>4. /\ frame'[t] = f /\ saved'[t] = g
      /\ \A x \in Tasks : x # t => frame'[x] = frame[x] /\ saved'[x] = saved[x]
  BY <1>3 DEF TypeInv, TypeOK
<1>5. /\ state' = [state EXCEPT ![d] = "runnable"]
      /\ runqueues' = enqueue_task(runqueues, d)
      /\ UNCHANGED <<src, notifications, senders, pager, priority, current, irq_owners>>
  BY DEF Deliver
<1>6. /\ state'[d] = "runnable"
      /\ \A x \in Tasks : x # d => state'[x] = state[x]
  BY <1>1, <1>5 DEF TypeInv, TypeOK
<1>8. \A s \in Tasks : t \notin owed[s]
  BY NotOwed
<1>9. /\ owed'[t] = owed[t] \ {d}
      /\ owed'[d] = IF IsCall(t) THEN owed[d] \cup {t} ELSE owed[d]
      /\ \A s \in Tasks : s # t /\ s # d => owed'[s] = owed[s]
  BY <1>1, OwedAfterSend DEF Deliver
<1> HIDE DEF d
<1>10. FramesInv'
  <2> SUFFICES ASSUME NEW x \in Tasks
               PROVE  (/\ state[x] = "unused" => frame[x].pc = "user" /\ x # current
                       /\ state[x] = "blocked" =>
                            \/ frame[x].pc = "recv_wake" /\ src[x] # IPC_DENY
                            \/ frame[x].pc \in {"send_wake", "exited"} /\ src[x] = IPC_DENY
                       /\ pager[x] # x
                       /\ FrameArgs(x, frame[x]) /\ FrameArgs(x, saved[x])
                       /\ frame[x].pc = "fastcopy" =>
                            FASTPATH /\ current = x /\ notifications[x] = {}
                       /\ saved[x].pc \in {"user", "copyin", "copyout", "create"})'
    BY DEF FramesInv
  <2>1. CASE x = t
    BY SMTT(30), <2>1, <1>1, <1>2, <1>3, <1>4, <1>5, <1>6 DEF IInv, FramesInv, FrameArgs
  <2>2. CASE x # t
    BY SMTT(30), <2>2, <1>1, <1>2, <1>4, <1>5, <1>6 DEF IInv, FramesInv, FrameArgs
  <2> QED BY <2>1, <2>2
<1>11. SendersInv'
  <2>1. ASSUME NEW r \in Tasks, NEW s \in Range(senders[r])
        PROVE  frame'[s] = frame[s] /\ state'[s] = state[s]
    BY SMTT(30), <1>1, <1>4, <1>2, <1>6, SenderFacts, TaskFacts
  <2> QED BY SMTT(30), <2>1, <1>5 DEF IInv, SendersInv
<1>12. CallersInv'
  <2> SUFFICES ASSUME NEW s \in Tasks, NEW c \in owed'[s]
               PROVE  \/ c # current /\ state'[c] = "blocked" /\ src[c] = s
                      \/ /\ c = current /\ frame'[c].pc = "recv" /\ frame'[c].src = s
                         /\ "NOBLOCK" \notin frame'[c].flags
    BY <1>5 DEF CallersInv
  <2>1. c \in Tasks
    BY DEF TypeInv, TypeOK
  <2>2. CASE c = t
    <3>1. s = d /\ IsCall(t)
      BY <2>2, <1>8, <1>9
    <3> QED BY <3>1, <2>2, <1>3, <1>4
  <2>3. CASE c # t
    <3>1. c \in owed[s] /\ (s = t => c # d)
      BY <2>3, <1>9
    <3>2. state[c] = "blocked" /\ src[c] = s
      BY <2>3, <3>1 DEF IInv, CallersInv
    <3>3. c # d
      BY <3>1, <3>2, <1>1, TaskFacts
    <3> QED BY <2>1, <2>3, <3>2, <3>3, <1>6
  <2> QED BY <2>2, <2>3
<1>13. RunQueueExact'
  <2>1. Lists(enqueue_task(runqueues, d), Ready(state, current) \cup {d}, priority)
    <3>1. d \notin Ready(state, current)
      BY <1>1 DEF Ready
    <3> QED BY <3>1, <1>1, ListsReady, EnqueueLists DEF TypeInv
  <2>2. Ready(state', current') = Ready(state, current) \cup {d}
    BY SMTT(30), <1>1, <1>5, <1>6 DEF Ready
  <2>3. state'[current'] = "runnable"
    BY <1>2, <1>5, <1>6
  <2>4. Exact(runqueues', state', current', priority')
    BY <2>1, <2>2, <2>3, <1>5 DEF Exact
  <2> QED BY <2>4, RunQueueEquiv DEF TypeInv
<1>14. WorkConserving' /\ IrqOwnersLive'
  <2>1. WorkConserving'
    BY <1>2, <1>5 DEF WorkConserving
  <2>2. ASSUME NEW i \in Irqs, irq_owners[i] # NULL PROVE state'[irq_owners[i]] # "unused"
    <3>1. irq_owners[i] \in Tasks /\ state[irq_owners[i]] # "unused"
      BY <2>2 DEF IInv, IrqOwnersLive, TypeInv, TypeOK
    <3> QED BY <3>1, <1>6
  <2> QED BY <2>1, <2>2, <1>5 DEF IrqOwnersLive
<1>15. ReceiverHolds'
  <2> SUFFICES ASSUME NEW x \in Tasks
               PROVE  /\ OnItsWay(x)' => /\ state'[frame'[x].dst] = "blocked"
                                         /\ src[frame'[x].dst] = x
                      /\ ~Running(x, "fastcopy")'
    BY <1>5 DEF ReceiverHolds
  <2>1. CASE x = t
    BY <2>1, <1>3, <1>4 DEF OnItsWay, Running
  <2>2. CASE x # t
    <3>1. ~Running(x, "fastcopy")'
      BY <2>2, <1>4, <1>2 DEF Running
    <3>2. ASSUME OnItsWay(x)'
          PROVE  state'[frame'[x].dst] = "blocked" /\ src[frame'[x].dst] = x
      <4>1. x # d /\ frame[x].pc = "send_wake" /\ state[x] = "runnable"
        BY <3>2, <2>2, <1>2, <1>4, <1>6 DEF OnItsWay
      <4>2. state[frame[x].dst] = "blocked" /\ src[frame[x].dst] = x
        BY <4>1 DEF IInv, ReceiverHolds, OnItsWay
      <4>3. frame[x].dst # d /\ frame[x].dst \in Tasks
        BY SMTT(30), <4>1, <4>2, <2>2, <1>1, TaskFacts
           DEF TypeInv, FramesTyped, FrameTyped, SendPcs
      <4> QED BY <2>2, <4>2, <4>3, <1>4, <1>6
    <3> QED BY <3>1, <3>2
  <2> QED BY <2>1, <2>2
<1>16. NoMissedRendezvous' /\ NoLostWakeup'
  <2>1. NoMissedRendezvous'
    BY <1>5, <1>6 DEF IInv, NoMissedRendezvous
  <2>2. NoLostWakeup'
    BY <1>5, <1>6 DEF IInv, NoLostWakeup
  <2> QED BY <2>1, <2>2
<1> QED BY <1>10, <1>11, <1>12, <1>13, <1>14, <1>15, <1>16 DEF IInv

LEMMA SendStepsInv ==
    ASSUME TypeInv, TypeInv', IInv, NEW t \in Tasks, SendReady(t) \/ SendWake(t)
    PROVE  IInv'
<1>1. CASE SendReady(t)
  BY <1>1, DeliverInv DEF SendReady, AtSend, Running
<1>2. CASE SendWake(t)
  <2>1. /\ current = t /\ frame[t].pc = "send_wake"
        /\ Deliver(t) /\ UNCHANGED notifications
    BY <1>2 DEF SendWake, Running
  <2>2. OnItsWay(t)
    BY <2>1, CurrentFacts DEF OnItsWay
  <2>3. ReceiverReady(frame[t].dst, t)
    BY <2>2 DEF IInv, ReceiverHolds, ReceiverReady
  <2> QED BY <2>1, <2>3, DeliverInv
<1> QED BY <1>1, <1>2

-----------------------------------------------------------------------------
(***************************************************************************)
(* The running task blocks for good or in a sender queue.                  *)
(***************************************************************************)
LEMMA DenyBlockInv ==
    ASSUME TypeInv, TypeInv', IInv, NEW t \in Tasks, current = t,
           frame[t].pc # "recv", NEW pc \in {"send_wake", "exited"},
           pc = "send_wake" => frame[t].dst # t,
           frame' = [frame EXCEPT ![t].pc = pc],
           state' = [state EXCEPT ![t] = "blocked"],
           src' = [src EXCEPT ![t] = IPC_DENY],
           task_switch(runqueues),
           \A r \in Tasks :
             /\ IsInjective(senders'[r])
             /\ \A s \in Range(senders'[r]) :
                  \/ s \in Range(senders[r])
                  \/ /\ s = t /\ pc = "send_wake" /\ r = frame[t].dst
                     /\ ~ReceiverReady(r, t),
           UNCHANGED <<notifications, pager, priority, irq_owners, saved, owed>>
    PROVE  IInv'
<1>1. /\ frame'[t].pc = pc /\ frame'[t].dst = frame[t].dst
      /\ frame'[t].src = frame[t].src
      /\ \A x \in Tasks : x # t => frame'[x] = frame[x]
  BY SMTT(30) DEF TypeInv, TypeOK, Frames
<1>2. /\ state'[t] = "blocked" /\ src'[t] = IPC_DENY
      /\ \A x \in Tasks : x # t => state'[x] = state[x] /\ src'[x] = src[x]
  BY DEF TypeInv, TypeOK
<1>3. /\ state[t] = "runnable" /\ t # IDLE_TASK
      /\ \A x \in Tasks : x # t => frame[x].pc # "fastcopy"
      /\ \A r \in Tasks : t \notin Range(senders[r])
  BY CurrentFacts
<1>4. \A s \in Tasks : t \notin owed[s]
  BY NotOwed
<1>5. /\ RunQueueExact' /\ WorkConserving'
      /\ current' # IDLE_TASK => current' \in Ready(state, current)
  <2>1. \A x \in Tasks : state'[x] = "runnable" <=> x \in Ready(state, current)
    BY <1>2 DEF Ready
  <2> QED BY <2>1, ListsReady, SwitchInv
<1>6. current' # IDLE_TASK => state[current'] = "runnable" /\ current' # t
  BY <1>5 DEF Ready
<1>7. \A x \in Tasks : x # IDLE_TASK
  BY TaskFacts
<1>8. FramesInv'
  <2> SUFFICES ASSUME NEW x \in Tasks
               PROVE  (/\ state[x] = "unused" => frame[x].pc = "user" /\ x # current
                       /\ state[x] = "blocked" =>
                            \/ frame[x].pc = "recv_wake" /\ src[x] # IPC_DENY
                            \/ frame[x].pc \in {"send_wake", "exited"} /\ src[x] = IPC_DENY
                       /\ pager[x] # x
                       /\ FrameArgs(x, frame[x]) /\ FrameArgs(x, saved[x])
                       /\ frame[x].pc = "fastcopy" =>
                            FASTPATH /\ current = x /\ notifications[x] = {}
                       /\ saved[x].pc \in {"user", "copyin", "copyout", "create"})'
    BY DEF FramesInv
  <2>1. CASE x = t
    BY SMTT(30), <2>1, <1>1, <1>2 DEF IInv, FramesInv, FrameArgs, SendPcs
  <2>2. CASE x # t
    BY SMTT(30), <2>2, <1>1, <1>2, <1>3, <1>6, <1>7 DEF IInv, FramesInv, FrameArgs
  <2> QED BY <2>1, <2>2
<1>9. SendersInv'
  <2> SUFFICES ASSUME NEW r \in Tasks, NEW s \in Range(senders'[r])
               PROVE  /\ state'[s] = "blocked" /\ src'[s] = IPC_DENY
                      /\ frame'[s].pc = "send_wake" /\ frame'[s].dst = r
    BY DEF SendersInv
  <2>1. CASE s \in Range(senders[r])
    BY SMTT(30), <2>1, SenderFacts, <1>1, <1>2
  <2>2. CASE s = t /\ pc = "send_wake" /\ r = frame[t].dst
    BY <2>2, <1>1, <1>2
  <2> QED BY <2>1, <2>2
<1>10. CallersInv'
  <2> SUFFICES ASSUME NEW s \in Tasks, NEW c \in owed[s]
               PROVE  c # current' /\ state'[c] = "blocked" /\ src'[c] = s
    BY DEF CallersInv
  <2>1. c \in Tasks /\ c # t
    BY SMTT(30), <1>4 DEF TypeInv, TypeOK
  <2>2. state[c] = "blocked" /\ src[c] = s
    BY <2>1 DEF IInv, CallersInv
  <2> QED BY <2>1, <2>2, <1>2, <1>6, <1>7
<1>11. ReceiverHolds'
  <2> SUFFICES ASSUME NEW x \in Tasks
               PROVE  /\ OnItsWay(x)' => /\ state'[frame'[x].dst] = "blocked"
                                         /\ src'[frame'[x].dst] = x
                      /\ ~Running(x, "fastcopy")'
    BY DEF ReceiverHolds
  <2>1. CASE x = t
    BY <2>1, <1>1, <1>2 DEF OnItsWay, Running
  <2>2. CASE x # t
    <3>1. ~Running(x, "fastcopy")'
      BY <2>2, <1>1, <1>3 DEF Running
    <3>2. ASSUME OnItsWay(x)'
          PROVE  state'[frame'[x].dst] = "blocked" /\ src'[frame'[x].dst] = x
      <4>1. frame[x].pc = "send_wake" /\ state[x] = "runnable"
        BY <3>2, <2>2, <1>1, <1>2 DEF OnItsWay
      <4>2. state[frame[x].dst] = "blocked" /\ src[frame[x].dst] = x
        BY <4>1 DEF IInv, ReceiverHolds, OnItsWay
      <4>3. frame[x].dst # t /\ frame[x].dst \in Tasks
        BY <4>1, <4>2, <1>3 DEF TypeInv, FramesTyped, FrameTyped, SendPcs
      <4> QED BY <2>2, <4>2, <4>3, <1>1, <1>2
    <3> QED BY <3>1, <3>2
  <2> QED BY <2>1, <2>2
<1>12. NoMissedRendezvous'
  <2> SUFFICES ASSUME NEW r \in Tasks, NEW s \in Tasks, state'[r] = "blocked",
                      s \in Range(senders'[r])
               PROVE  src'[r] \notin {IPC_ANY, s}
    BY DEF NoMissedRendezvous
  <2>1. CASE r = t
    BY SMTT(30), <2>1, <1>2, TaskFacts
  <2>2. CASE r # t
    <3>1. CASE s \in Range(senders[r])
      BY <2>2, <3>1, <1>2 DEF IInv, NoMissedRendezvous
    <3>2. CASE s = t /\ ~ReceiverReady(r, t)
      BY <2>2, <3>2, <1>2 DEF ReceiverReady
    <3> QED BY <3>1, <3>2
  <2> QED BY <2>1, <2>2
<1>13. NoLostWakeup'
  BY <1>2, TaskFacts DEF IInv, NoLostWakeup
<1>14. IrqOwnersLive'
  <2> SUFFICES ASSUME NEW i \in Irqs, irq_owners[i] # NULL
               PROVE  state'[irq_owners[i]] # "unused"
    BY DEF IrqOwnersLive
  <2>1. irq_owners[i] \in Tasks /\ state[irq_owners[i]] # "unused"
    BY DEF IInv, IrqOwnersLive, TypeInv, TypeOK
  <2> QED BY <2>1, <1>2
<1> QED BY <1>5, <1>8, <1>9, <1>10, <1>11, <1>12, <1>13, <1>14 DEF IInv

LEMMA BlockStepsInv ==
    ASSUME TypeInv, TypeInv', IInv, NEW t \in Tasks, SendBlock(t) \/ ExitBlock(t)
    PROVE  IInv'
<1>1. CASE SendBlock(t)
  <2> DEFINE d == frame[t].dst
  <2>1. /\ current = t /\ frame[t].pc \in {"copyin", "send"}
        /\ ~ReceiverReady(d, t)
        /\ frame' = [frame EXCEPT ![t].pc = "send_wake"]
        /\ state' = [state EXCEPT ![t] = "blocked"]
        /\ src' = [src EXCEPT ![t] = IPC_DENY]
        /\ senders' = [senders EXCEPT ![d] = Append(senders[d], t)]
        /\ task_switch(runqueues)
        /\ UNCHANGED <<notifications, pager, priority, irq_owners, saved, owed>>
    BY <1>1 DEF SendBlock, AtSend, Running
  <2>2. d \in Tasks /\ d # t
    BY <2>1 DEF TypeInv, FramesTyped, FrameTyped, SendPcs, IInv, FramesInv, FrameArgs
  <2>3. \A r \in Tasks : senders[r] \in Seq(Tasks) /\ IsInjective(senders[r])
    BY DEF TypeInv, TypeOK, IInv, SendersInv
  <2>4. t \notin Range(senders[d])
    BY <2>1, <2>2, CurrentFacts
  <2> HIDE DEF d
  <2>5. IsInjective(Append(senders[d], t)) /\ Range(Append(senders[d], t)) = Range(senders[d]) \cup {t}
    BY SMTT(30), <2>2, <2>3, <2>4, AppendRange
  <2>6. /\ senders'[d] = Append(senders[d], t)
        /\ \A r \in Tasks : r # d => senders'[r] = senders[r]
    BY <2>1, <2>2 DEF TypeInv, TypeOK
  <2>7. ASSUME NEW r \in Tasks
        PROVE  /\ IsInjective(senders'[r])
               /\ \A s \in Range(senders'[r]) :
                    s \in Range(senders[r]) \/ (s = t /\ r = d)
    <3>1. CASE r = d
      BY <3>1, <2>5, <2>6
    <3>2. CASE r # d
      BY <3>2, <2>3, <2>6
    <3> QED BY <3>1, <3>2
  <2>8. /\ frame[t].dst # t
        /\ \A r \in Tasks :
             /\ IsInjective(senders'[r])
             /\ \A s \in Range(senders'[r]) :
                  \/ s \in Range(senders[r])
                  \/ s = t /\ r = frame[t].dst /\ ~ReceiverReady(r, t)
    BY <2>1, <2>2, <2>7 DEF d
  <2> QED BY <2>1, <2>8, DenyBlockInv
<1>2. CASE ExitBlock(t)
  <2>1. /\ current = t /\ frame[t].pc = "exiting"
        /\ frame' = [frame EXCEPT ![t].pc = "exited"]
        /\ state' = [state EXCEPT ![t] = "blocked"]
        /\ src' = [src EXCEPT ![t] = IPC_DENY]
        /\ task_switch(runqueues)
        /\ UNCHANGED <<notifications, senders, pager, priority, irq_owners, saved, owed>>
    BY <1>2 DEF ExitBlock, Running
  <2>2. \A r \in Tasks : IsInjective(senders'[r])
    BY <2>1 DEF IInv, SendersInv
  <2> QED BY <2>1, <2>2, DenyBlockInv
<1> QED BY <1>1, <1>2

-----------------------------------------------------------------------------
(***************************************************************************)
(* The running task blocks in a receive from s0.  D is the set of tasks    *)
(* that it has just resumed by a message (the fastpath): {} or its         *)
(* destination.  W is the set of senders that the receive resumes: {} or   *)
(* the first acceptable one; e is whom the task then waits for.            *)
(***************************************************************************)
Receives(t, s0, D, st, W, e, rq2) ==
    /\ W \subseteq Range(senders[t]) /\ (\A x \in W : x = e)
    /\ s0 # IPC_ANY => e = s0
    /\ state'[t] = "blocked" /\ src'[t] = e
    /\ \A x \in Tasks : x # t =>
         /\ state'[x] = IF x \in W THEN "runnable" ELSE st[x]
         /\ src'[x] = src[x]
    /\ IsInjective(senders'[t])
    /\ Range(senders'[t]) = Range(senders[t]) \ W
    /\ \A x \in Range(senders'[t]) : e \notin {IPC_ANY, x}
    /\ \A r \in Tasks : r # t => senders'[r] = senders[r]
    /\ Lists(rq2, Ready(state, current) \cup D \cup W, priority)
    /\ task_switch(rq2)

LEMMA ReceiveEffect ==
    ASSUME TypeInv, IInv, NEW t \in Tasks, current = t,
           NEW s0 \in Tasks \cup {IPC_ANY}, NEW D \in SUBSET Tasks, t \notin D,
           \A x \in D : state[x] = "blocked" /\ src[x] # IPC_DENY,
           NEW st \in [Tasks -> {"unused", "runnable", "blocked"}], NEW rq,
           Lists(rq, Ready(state, current) \cup D, priority),
           ReceiveFrom(t, s0, st, rq)
    PROVE  \E W \in SUBSET Tasks, e \in Tasks \cup {IPC_ANY}, rq2 \in RunQueues :
             Receives(t, s0, D, st, W, e, rq2)
<1>1. /\ senders[t] \in Seq(Tasks) /\ IsInjective(senders[t])
      /\ src \in [Tasks -> Tasks \cup {IPC_ANY, IPC_DENY}]
      /\ senders \in [Tasks -> Seq(Tasks)]
      /\ Range(senders[t]) \subseteq Tasks
  <2>1. /\ src \in [Tasks -> Tasks \cup {IPC_ANY, IPC_DENY}]
        /\ senders \in [Tasks -> Seq(Tasks)]
    BY DEF TypeInv, TypeOK
  <2>2. SendersInv
    BY DEF IInv
  <2>3. IsInjective(senders[t])
    BY <2>2 DEF SendersInv
  <2>4. senders[t] \in Seq(Tasks)
    BY <2>1
  <2>5. Range(senders[t]) \subseteq Tasks
    BY <2>4, RangeTyped
  <2> QED BY <2>1, <2>3, <2>4, <2>5
<1>2. CASE Acceptable(t, s0) = {}
  <2>1. /\ src' = [src EXCEPT ![t] = s0] /\ state' = [st EXCEPT ![t] = "blocked"]
        /\ task_switch(rq) /\ senders' = senders
    BY <1>2 DEF ReceiveFrom
  <2>2. \A x \in Range(senders[t]) : s0 \notin {IPC_ANY, x}
    BY <1>2 DEF Acceptable
  <2>3. /\ src'[t] = s0 /\ state'[t] = "blocked"
        /\ \A x \in Tasks : x # t => state'[x] = st[x] /\ src'[x] = src[x]
    BY <1>1, <2>1
  <2>4. Lists(rq, Ready(state, current) \cup D \cup {}, priority)
    <3>1. Ready(state, current) \cup D \cup {} = Ready(state, current) \cup D
      OBVIOUS
    <3> QED BY <3>1
  <2> rq \in RunQueues
    BY DEF Lists
  <2> WITNESS {} \in SUBSET Tasks, s0 \in Tasks \cup {IPC_ANY}, rq \in RunQueues
  <2> QED BY <1>1, <2>1, <2>2, <2>3, <2>4 DEF Receives
<1>3. CASE Acceptable(t, s0) # {}
  <2> DEFINE w == FirstAcceptable(t, s0)
  <2>1. /\ src' = [src EXCEPT ![t] = w]
        /\ state' = [st EXCEPT ![w] = "runnable", ![t] = "blocked"]
        /\ senders' = [senders EXCEPT ![t] = list_remove(senders[t], w)]
        /\ task_switch(enqueue_task(rq, w))
    BY <1>3 DEF ReceiveFrom
  <2>2. w \in Range(senders[t]) /\ (s0 # IPC_ANY => w = s0)
    <3>1. PICK x \in Range(senders[t]) : s0 \in {IPC_ANY, x}
      BY <1>3 DEF Acceptable
    <3>2. CASE s0 = IPC_ANY
      <4>1. senders[t] # <<>>
        BY SMTT(30), <3>1 DEF Range
      <4>2. Head(senders[t]) \in Range(senders[t])
        BY <4>1, <1>1, TailRange
      <4> QED BY <4>2, <3>2 DEF FirstAcceptable
    <3>3. CASE s0 # IPC_ANY
      BY <3>1, <3>3 DEF FirstAcceptable
    <3> QED BY <3>2, <3>3
  <2> HIDE DEF w
  <2>3. w \in Tasks /\ w # t /\ state[w] = "blocked" /\ src[w] = IPC_DENY
    BY <2>2, SenderFacts
  <2>4. /\ src'[t] = w /\ state'[t] = "blocked"
        /\ \A x \in Tasks : x # t =>
             state'[x] = (IF x \in {w} THEN "runnable" ELSE st[x]) /\ src'[x] = src[x]
    BY <1>1, <2>1, <2>3
  <2>5. /\ IsInjective(list_remove(senders[t], w))
        /\ Range(list_remove(senders[t], w)) = Range(senders[t]) \ {w}
    BY SMTT(30), <1>1, RemoveRange
  <2>6. /\ senders'[t] = list_remove(senders[t], w)
        /\ \A r \in Tasks : r # t => senders'[r] = senders[r]
    BY <1>1, <2>1
  <2>7. \A x \in Range(senders'[t]) : w \notin {IPC_ANY, x}
    BY <2>3, <2>5, <2>6, TaskFacts
  <2>8. w \notin Ready(state, current) \cup D
    BY <2>3 DEF Ready
  <2>9. Lists(enqueue_task(rq, w), Ready(state, current) \cup D \cup {w}, priority)
    <3>1. Ready(state, current) \cup D \in SUBSET Tasks
      BY DEF Ready
    <3> QED BY <3>1, <2>3, <2>8, EnqueueLists DEF TypeInv
  <2> {w} \in SUBSET Tasks /\ w \in Tasks \cup {IPC_ANY}
    BY <2>3
  <2>10. {w} \subseteq Range(senders[t]) /\ \A x \in {w} : x = w
    BY <2>2
  <2> enqueue_task(rq, w) \in RunQueues
    BY <2>9 DEF Lists
  <2> WITNESS {w} \in SUBSET Tasks, w \in Tasks \cup {IPC_ANY},
              enqueue_task(rq, w) \in RunQueues
  <2> QED BY <2>1, <2>2, <2>4, <2>5, <2>6, <2>7, <2>9, <2>10 DEF Receives
<1> QED BY <1>2, <1>3

LEMMA ReceiveInv ==
    ASSUME TypeInv, TypeInv', IInv, NEW t \in Tasks, current = t,
           NEW s0 \in Tasks \cup {IPC_ANY}, s0 = IPC_ANY => notifications[t] = {},
           NEW D \in SUBSET Tasks, t \notin D,
           \A x \in D : state[x] = "blocked" /\ src[x] \in {IPC_ANY, t},
           NEW st \in [Tasks -> {"unused", "runnable", "blocked"}],
           \A x \in Tasks : st[x] = IF x \in D THEN "runnable" ELSE state[x],
           NEW rq, Lists(rq, Ready(state, current) \cup D, priority),
           ReceiveFrom(t, s0, st, rq),
           frame' = [frame EXCEPT ![t] = Past(frame[t], "recv_wake")],
           \A s \in Tasks : \A c \in owed'[s] :
             (c # t /\ c \notin D /\ c \in owed[s]) \/ (c = t /\ s = s0),
           UNCHANGED <<notifications, pager, priority, irq_owners, saved>>
    PROVE  IInv'
<1>0. /\ \A x \in D : src[x] # IPC_DENY
      /\ \A x \in Tasks : x # IDLE_TASK /\ x # IPC_ANY /\ x # IPC_DENY
      /\ IPC_ANY # IPC_DENY
  BY TaskFacts
<1>a. PICK W \in SUBSET Tasks, e \in Tasks \cup {IPC_ANY}, rq2 \in RunQueues :
             Receives(t, s0, D, st, W, e, rq2)
  BY <1>0, ReceiveEffect
<1>1. /\ W \subseteq Range(senders[t]) /\ (\A x \in W : x = e)
      /\ s0 # IPC_ANY => e = s0
      /\ state'[t] = "blocked" /\ src'[t] = e
      /\ \A x \in Tasks : x # t =>
           /\ state'[x] = IF x \in W THEN "runnable" ELSE st[x]
           /\ src'[x] = src[x]
      /\ IsInjective(senders'[t])
      /\ Range(senders'[t]) = Range(senders[t]) \ W
      /\ \A x \in Range(senders'[t]) : e \notin {IPC_ANY, x}
      /\ \A r \in Tasks : r # t => senders'[r] = senders[r]
      /\ Lists(rq2, Ready(state, current) \cup D \cup W, priority)
      /\ task_switch(rq2)
  BY <1>a DEF Receives
<1>2. /\ state[t] = "runnable" /\ t # IDLE_TASK
      /\ \A x \in Tasks : x # t => frame[x].pc # "fastcopy"
      /\ \A r \in Tasks : t \notin Range(senders[r])
  BY CurrentFacts
<1>3. ASSUME NEW x \in W
      PROVE  /\ x \in Tasks /\ x # t /\ state[x] = "blocked" /\ src[x] = IPC_DENY
             /\ frame[x].pc = "send_wake" /\ frame[x].dst = t /\ e = x /\ x \notin D
  BY <1>0, <1>1, SenderFacts
<1>4. ASSUME NEW x \in Tasks, x # t
      PROVE  /\ state'[x] = IF x \in D \cup W THEN "runnable" ELSE state[x]
             /\ src'[x] = src[x] /\ frame'[x] = frame[x]
  <2>1. frame'[x] = frame[x]
    BY <1>4 DEF TypeInv, TypeOK
  <2>2. /\ state'[x] = IF x \in W THEN "runnable" ELSE st[x]
        /\ src'[x] = src[x]
    BY <1>1, <1>4
  <2>3. st[x] = IF x \in D THEN "runnable" ELSE state[x]
    OBVIOUS
  <2> QED BY <2>1, <2>2, <2>3
<1>5. /\ frame'[t].pc = "recv_wake" /\ state'[t] = "blocked" /\ src'[t] = e
      /\ FrameArgs(t, frame'[t])
  <2>1. frame'[t] = Past(frame[t], "recv_wake") /\ frame[t] \in Frames
    BY DEF TypeInv, TypeOK
  <2>2. Past(frame[t], "recv_wake").pc = "recv_wake"
    BY <2>1, PastTyped DEF Pcs
  <2>3. FrameArgs(t, Past(frame[t], "recv_wake"))
    BY FrameArgsFacts
  <2>4. state'[t] = "blocked" /\ src'[t] = e
    BY <1>1
  <2> QED BY <2>1, <2>2, <2>3, <2>4
<1>6. /\ RunQueueExact' /\ WorkConserving'
      /\ current' # IDLE_TASK => current' \in Ready(state, current) \cup D \cup W
  <2> DEFINE S == Ready(state, current) \cup D \cup W
  <2>1. S \in SUBSET Tasks
    BY DEF Ready
  <2>2. \A x \in Tasks : state'[x] = "runnable" <=> x \in S
    <3>1. t \notin S
      BY <1>3 DEF Ready
    <3>2. \A x \in Tasks : x # t => (state'[x] = "runnable" <=> x \in S)
      BY <1>4 DEF Ready
    <3> QED BY <3>1, <3>2, <1>5
  <2>3. Lists(rq2, S, priority) /\ priority \in [Tasks -> Prios]
    BY <1>1, ListsReady
  <2> HIDE DEF S
  <2>4. /\ RunQueueExact' /\ WorkConserving'
        /\ current' # IDLE_TASK => current' \in S
    BY <1>1, <2>1, <2>2, <2>3, SwitchInv
  <2> QED BY <2>4 DEF S
<1>7. current' # IDLE_TASK => current' \in Tasks /\ state'[current'] = "runnable"
  BY <1>6 DEF RunQueueExact, TypeInv, TypeOK
<1>8. FramesInv'
  <2> SUFFICES ASSUME NEW x \in Tasks
               PROVE  (/\ state[x] = "unused" => frame[x].pc = "user" /\ x # current
                       /\ state[x] = "blocked" =>
                            \/ frame[x].pc = "recv_wake" /\ src[x] # IPC_DENY
                            \/ frame[x].pc \in {"send_wake", "exited"} /\ src[x] = IPC_DENY
                       /\ pager[x] # x
                       /\ FrameArgs(x, frame[x]) /\ FrameArgs(x, saved[x])
                       /\ frame[x].pc = "fastcopy" =>
                            FASTPATH /\ current = x /\ notifications[x] = {}
                       /\ saved[x].pc \in {"user", "copyin", "copyout", "create"})'
    BY DEF FramesInv
  <2>0. (FrameArgs(x, saved[x]))' = FrameArgs(x, saved[x])
    BY DEF FrameArgs
  <2>1. CASE x = t
    <3>1. src'[t] # IPC_DENY
      BY <1>0, <1>5
    <3>2. (FrameArgs(x, frame[x]))'
      BY <2>1, <1>5 DEF FrameArgs
    <3> QED BY <2>0, <2>1, <1>5, <3>1, <3>2 DEF IInv, FramesInv
  <2>2. CASE x # t
    <3>1. /\ state'[x] = IF x \in D \cup W THEN "runnable" ELSE state[x]
          /\ src'[x] = src[x] /\ frame'[x] = frame[x]
      BY <2>2, <1>4
    <3>2. (FrameArgs(x, frame[x]))' = FrameArgs(x, frame[x])
      BY <3>1 DEF FrameArgs
    <3>3. state'[x] = "unused" => x # current'
      BY <1>0, <1>7
    <3>4. /\ state[x] = "unused" => frame[x].pc = "user"
          /\ state[x] = "blocked" =>
               \/ frame[x].pc = "recv_wake" /\ src[x] # IPC_DENY
               \/ frame[x].pc \in {"send_wake", "exited"} /\ src[x] = IPC_DENY
          /\ pager[x] # x /\ FrameArgs(x, frame[x]) /\ FrameArgs(x, saved[x])
          /\ saved[x].pc \in {"user", "copyin", "copyout", "create"}
      BY DEF IInv, FramesInv
    <3>5. frame[x].pc # "fastcopy"
      BY <2>2, <1>2
    <3>6. state'[x] \in {"runnable", state[x]}
      BY <3>1
    <3> QED BY <2>0, <3>1, <3>2, <3>3, <3>4, <3>5, <3>6
  <2> QED BY <2>1, <2>2
<1>9. SendersInv'
  <2> SUFFICES ASSUME NEW r \in Tasks
               PROVE  /\ IsInjective(senders'[r])
                      /\ \A s \in Range(senders'[r]) :
                           /\ state'[s] = "blocked" /\ src'[s] = IPC_DENY
                           /\ frame'[s].pc = "send_wake" /\ frame'[s].dst = r
    BY DEF SendersInv
  <2>1. IsInjective(senders'[r])
    BY <1>1 DEF IInv, SendersInv
  <2>2. ASSUME NEW s \in Range(senders'[r])
        PROVE  /\ state'[s] = "blocked" /\ src'[s] = IPC_DENY
               /\ frame'[s].pc = "send_wake" /\ frame'[s].dst = r
    <3>1. s \in Range(senders[r]) /\ (r = t => s \notin W)
      BY <1>1
    <3>2. /\ s \in Tasks /\ s # t /\ state[s] = "blocked" /\ src[s] = IPC_DENY
          /\ frame[s].pc = "send_wake" /\ frame[s].dst = r
      BY <3>1, <1>2, SenderFacts
    <3>3. s \notin D /\ s \notin W
      BY <3>1, <3>2, <1>0, <1>3
    <3> QED BY <3>2, <3>3, <1>4
  <2> QED BY <2>1, <2>2
<1>10. CallersInv'
  <2> SUFFICES ASSUME NEW s \in Tasks, NEW c \in owed'[s]
               PROVE  c # current' /\ state'[c] = "blocked" /\ src'[c] = s
    BY DEF CallersInv
  <2>1. CASE c = t /\ s = s0
    BY <2>1, <1>0, <1>1, <1>5, <1>7
  <2>2. CASE c # t /\ c \notin D /\ c \in owed[s]
    <3>1. c \in Tasks /\ state[c] = "blocked" /\ src[c] = s
      BY <2>2 DEF IInv, CallersInv, TypeInv, TypeOK
    <3>2. c \notin W
      BY <3>1, <1>0, <1>3
    <3>3. state'[c] = "blocked" /\ src'[c] = s
      BY <2>2, <3>1, <3>2, <1>4
    <3> QED BY <3>1, <3>3, <1>0, <1>7
  <2> QED BY <2>1, <2>2
<1>11. ReceiverHolds'
  <2> SUFFICES ASSUME NEW x \in Tasks
               PROVE  /\ OnItsWay(x)' => /\ state'[frame'[x].dst] = "blocked"
                                         /\ src'[frame'[x].dst] = x
                      /\ ~Running(x, "fastcopy")'
    BY DEF ReceiverHolds
  <2>1. CASE x = t
    BY <2>1, <1>5 DEF OnItsWay, Running
  <2>2. CASE x # t
    <3>1. ~Running(x, "fastcopy")'
      BY <2>2, <1>2, <1>4 DEF Running
    <3>2. ASSUME OnItsWay(x)'
          PROVE  state'[frame'[x].dst] = "blocked" /\ src'[frame'[x].dst] = x
      <4>1. frame[x].pc = "send_wake" /\ frame'[x] = frame[x] /\ state'[x] = "runnable"
        BY <3>2, <2>2, <1>4 DEF OnItsWay
      <4>2. CASE x \in W
        <5>1. frame[x].dst = t /\ e = x
          BY <4>2, <1>3
        <5>2. state'[t] = "blocked" /\ src'[t] = e
          BY <1>5
        <5> QED BY <4>1, <5>1, <5>2
      <4>3. CASE x \notin W
        <5>1. x \notin D
          <6>1. x \in D => frame[x].pc = "recv_wake"
            BY <1>0 DEF IInv, FramesInv
          <6> QED BY <6>1, <4>1
        <5>2. state[x] = "runnable"
          BY <2>2, <4>1, <4>3, <5>1, <1>4
        <5>3. state[frame[x].dst] = "blocked" /\ src[frame[x].dst] = x
          BY <4>1, <5>2 DEF IInv, ReceiverHolds, OnItsWay
        <5>4. frame[x].dst \in Tasks
          BY <4>1 DEF TypeInv, FramesTyped, FrameTyped, SendPcs
        <5>5. frame[x].dst # t /\ frame[x].dst \notin D /\ frame[x].dst \notin W
          BY <5>3, <2>2, <1>0, <1>2, <1>3
        <5> QED BY <4>1, <5>3, <5>4, <5>5, <1>4
      <4> QED BY <4>2, <4>3
    <3> QED BY <3>1, <3>2
  <2> QED BY <2>1, <2>2
<1>12. NoMissedRendezvous'
  <2> SUFFICES ASSUME NEW r \in Tasks, NEW s \in Tasks, state'[r] = "blocked",
                      s \in Range(senders'[r])
               PROVE  src'[r] \notin {IPC_ANY, s}
    BY DEF NoMissedRendezvous
  <2>1. CASE r = t
    BY <2>1, <1>1, <1>5
  <2>2. CASE r # t
    BY <2>2, <1>1, <1>4 DEF IInv, NoMissedRendezvous
  <2> QED BY <2>1, <2>2
<1>13. NoLostWakeup'
  <2> SUFFICES ASSUME NEW x \in Tasks, state'[x] = "blocked", src'[x] = IPC_ANY
               PROVE  notifications[x] = {}
    BY DEF NoLostWakeup
  <2>1. CASE x = t
    <3>1. e = IPC_ANY
      BY <2>1, <1>5
    <3> QED BY <2>1, <3>1, <1>1
  <2>2. CASE x # t
    BY <2>2, <1>4 DEF IInv, NoLostWakeup
  <2> QED BY <2>1, <2>2
<1>14. IrqOwnersLive'
  <2> SUFFICES ASSUME NEW i \in Irqs, irq_owners[i] # NULL
               PROVE  state'[irq_owners[i]] # "unused"
    BY DEF IrqOwnersLive
  <2>1. irq_owners[i] \in Tasks /\ state[irq_owners[i]] # "unused"
    BY SMTT(30) DEF IInv, IrqOwnersLive, TypeInv, TypeOK
  <2> QED BY <2>1, <1>4, <1>5
<1> QED BY <1>6, <1>8, <1>9, <1>10, <1>11, <1>12, <1>13, <1>14 DEF IInv

LEMMA RecvBlockInv ==
    ASSUME TypeInv, TypeInv', IInv, NEW t \in Tasks, RecvBlock(t)
    PROVE  IInv'
<1> DEFINE s0 == frame[t].src
           D == {}
           st == state
           rq == runqueues
<1>1. /\ current = t /\ NothingPending(t) /\ frame[t].pc = "recv"
      /\ ReceiveFrom(t, s0, st, rq)
      /\ frame' = [frame EXCEPT ![t] = Past(frame[t], "recv_wake")]
      /\ UNCHANGED <<notifications, pager, priority, irq_owners, saved>>
  BY DEF RecvBlock, Running
<1>2. s0 \in Tasks \cup {IPC_ANY} /\ st \in [Tasks -> {"unused", "runnable", "blocked"}]
  BY DEF TypeInv, TypeOK, Frames
<1>3. s0 = IPC_ANY => notifications[t] = {}
  BY <1>1 DEF NothingPending
<1>4. \A s \in Tasks : \A c \in owed'[s] :
        (c # t /\ c \notin D /\ c \in owed[s]) \/ (c = t /\ s = s0)
  <2>1. owed' = owed
    BY DEF RecvBlock
  <2> QED BY <2>1, <1>1 DEF IInv, CallersInv
<1>5. Lists(rq, Ready(state, current) \cup D, priority)
  <2>1. Ready(state, current) \cup D = Ready(state, current)
    OBVIOUS
  <2> QED BY <2>1, ListsReady
<1>6. /\ D \in SUBSET Tasks /\ t \notin D
      /\ \A x \in D : state[x] = "blocked" /\ src[x] \in {IPC_ANY, t}
      /\ \A x \in Tasks : st[x] = IF x \in D THEN "runnable" ELSE state[x]
  OBVIOUS
<1> HIDE DEF s0, D, st, rq
<1> QED BY <1>1, <1>2, <1>3, <1>4, <1>5, <1>6, ReceiveInv

LEMMA FastCallInv ==
    ASSUME TypeInv, TypeInv', IInv, NEW t \in Tasks, FastCall(t)
    PROVE  IInv'
<1> DEFINE s0 == frame[t].src
           d == frame[t].dst
           st == [state EXCEPT ![d] = "runnable"]
           rq == enqueue_task(runqueues, d)
<1>1. /\ current = t /\ frame[t].pc = "fastcopy"
      /\ ReceiveFrom(t, s0, st, rq) /\ SendMessage(t)
      /\ frame' = [frame EXCEPT ![t] = Past(frame[t], "recv_wake")]
      /\ UNCHANGED <<notifications, pager, priority, irq_owners, saved>>
  BY DEF FastCall, Running
<1>2. s0 \in Tasks \cup {IPC_ANY} /\ state \in [Tasks -> {"unused", "runnable", "blocked"}]
  BY DEF TypeInv, TypeOK, Frames
<1>3. notifications[t] = {}
  BY <1>1 DEF IInv, FramesInv
<1>4. /\ d \in Tasks /\ d # t /\ state[d] = "blocked" /\ src[d] \in {IPC_ANY, t}
  <2>1. d \in Tasks
    BY <1>1 DEF TypeInv, FramesTyped, FrameTyped, SendPcs
  <2>2. d # t
    BY <1>1 DEF IInv, FramesInv, FrameArgs, SendPcs
  <2>3. ReceiverReady(d, t)
    BY <1>1 DEF IInv, ReceiverHolds, Running
  <2> QED BY <2>1, <2>2, <2>3 DEF ReceiverReady
<1>5. /\ owed'[t] = owed[t] \ {d}
      /\ owed'[d] = IF IsCall(t) THEN owed[d] \cup {t} ELSE owed[d]
      /\ \A s \in Tasks : s # t /\ s # d => owed'[s] = owed[s]
  BY <1>1, <1>4, OwedAfterSend
<1>6. \A s \in Tasks : t \notin owed[s]
  BY <1>1, NotOwed
<1>7. IsCall(t) => s0 = d
  BY DEF IsCall
<1> HIDE DEF s0, d
<1>8. ASSUME NEW s \in Tasks, NEW c \in owed'[s]
      PROVE  (c # t /\ c \notin {d} /\ c \in owed[s]) \/ (c = t /\ s = s0)
  <2>1. CASE c = t
    BY <2>1, <1>5, <1>6, <1>7
  <2>2. CASE c # t
    <3>1. c \in owed[s] /\ (s = t => c # d)
      BY SMTT(30), <2>2, <1>5
    <3>2. state[c] = "blocked" /\ src[c] = s
      BY <2>2, <3>1, <1>1 DEF IInv, CallersInv
    <3>3. c # d
      BY <3>1, <3>2, <1>4, TaskFacts
    <3> QED BY <2>2, <3>1, <3>3
  <2> QED BY <2>1, <2>2
<1>9. /\ st \in [Tasks -> {"unused", "runnable", "blocked"}]
      /\ \A x \in Tasks : st[x] = IF x \in {d} THEN "runnable" ELSE state[x]
  BY <1>2, <1>4
<1>10. Lists(rq, Ready(state, current) \cup {d}, priority)
  <2>1. d \notin Ready(state, current)
    BY <1>4 DEF Ready
  <2> QED BY <2>1, <1>4, ListsReady, EnqueueLists DEF TypeInv
<1>11. {d} \in SUBSET Tasks /\ t \notin {d}
       /\ \A x \in {d} : state[x] = "blocked" /\ src[x] \in {IPC_ANY, t}
  BY <1>4
<1> HIDE DEF st, rq
<1> QED BY <1>1, <1>2, <1>3, <1>8, <1>9, <1>10, <1>11, ReceiveInv
=============================================================================
