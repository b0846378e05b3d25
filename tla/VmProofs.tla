------------------------------ MODULE VmProofs ------------------------------
(***************************************************************************)
(* Proofs about out-of-line payloads (Ool) for any set of tasks, any       *)
(* calling relation and any payloads.                                      *)
(***************************************************************************)
EXTENDS Ool, QueueLemmas

USE ZenonT(10), SMTT(30)

\* What the constants stand for: task IDs are positive and vm is not one of the
\* tasks, malloc() does not return NULL here, programs only name tasks, and vm
\* has its own pages.
OolConstants ==
    /\ VM \notin Tasks /\ NULL \notin All /\ ANY \notin All
    /\ NULL \notin Bufs
    /\ Calls \subseteq Tasks \X All /\ Sends \subseteq Tasks \X All
    /\ Faulting \subseteq Tasks

-----------------------------------------------------------------------------
(***************************************************************************)
(* The inductive invariant.                                                *)
(***************************************************************************)
Pcs == {"idle", "serve", "reg", "copy", "send", "recv", "verify", "dead", "panic"}

OolTyped ==
    /\ in_use \in [All -> BOOLEAN]
    /\ ool_buf \in [All -> Bufs \cup {NULL}]
    /\ ool_ptr \in [All -> Bufs \cup {NULL}]
    /\ received_ool \in [All -> [from : Tasks, buf : Bufs] \cup {NotReceived}]
    /\ ool_sender_queue \in [All -> Seq(Tasks)]
    /\ mem \in [All -> [Bufs -> Payloads \cup {NULL}]]
    /\ pc \in [Tasks -> Pcs]
    /\ op \in [Tasks -> Ops] /\ msg \in [Tasks -> Ops]
    /\ client \in [Tasks -> Tasks \cup {NULL}]
    /\ vm_panic \in BOOLEAN

\* What a task's place in the wrappers says about its operation.
Placed(t) ==
    /\ pc[t] \in {"copy", "send"} => op[t].peer \in All /\ op[t].kind # "recv"
    /\ pc[t] = "copy" => op[t].ool
    /\ pc[t] = "reg" => (op[t].kind = "recv" /\ ~op[t].ool) \/ op[t].peer \in All
    /\ pc[t] \in {"reg", "copy", "send"} /\ op[t].ool => <<t, op[t].peer>> \in OolTo
    /\ pc[t] = "serve" => client[t] # NULL
    /\ ~in_use[t] => pc[t] \in {"dead", "panic"}

\* A task has one buffer, which is registered, filled or about to be registered.
Buffered(t) ==
    /\ ool_buf[t] \in {NULL, ool_ptr[t]}
    /\ received_ool[t].buf \in {NULL, ool_ptr[t]}
    /\ ool_buf[t] = NULL \/ received_ool[t] = NotReceived
    /\ t \in Tasks /\ pc[t] = "reg" =>
         ool_ptr[t] # NULL /\ ool_buf[t] = NULL /\ received_ool[t] = NotReceived

\* s has had its payload copied and its message is on its way; then nobody else's
\* is, and the receiver is not about to claim another one.
InFlight(s) ==
    LET d == op[s].peer
    IN  /\ received_ool[d] = [from |-> s, buf |-> op[s].id]
        /\ mem[d][op[s].id] = op[s].payload
        /\ d \in Tasks => pc[d] # "verify"

\* d has received the message and not yet claimed its payload.
Arrived(d) ==
    /\ msg[d].peer \in Tasks
    /\ Genuine(d, msg[d])
    /\ mem[d][msg[d].id] = msg[d].payload

\* The senders that wait for d, unless they have been killed, wait for d.
Queued(d) ==
    /\ IsInjective(ool_sender_queue[d])
    /\ \A s \in Range(ool_sender_queue[d]) :
         in_use[s] => pc[s] = "copy" /\ op[s].peer = d

OolInv ==
    /\ OolTyped
    /\ \A t \in Tasks : Placed(t)
    /\ \A t \in All : Buffered(t)
    /\ \A s \in Tasks : pc[s] = "send" /\ op[s].ool => InFlight(s)
    /\ \A d \in Tasks : pc[d] = "verify" => Arrived(d)
    /\ \A d \in All : Queued(d)

-----------------------------------------------------------------------------
LEMMA NotReceivedFields == NotReceived.from = NULL /\ NotReceived.buf = NULL
BY DEF NotReceived

LEMMA OolInitInv ==
    ASSUME OolConstants, Init
    PROVE  OolInv
<1>1. OolTyped
  <2>1. /\ ool_buf \in [All -> Bufs \cup {NULL}]
        /\ ool_ptr \in [All -> Bufs \cup {NULL}]
    BY DEF Init
  <2>2. NoOp \in Ops
    BY DEF NoOp, Ops
  <2>3. op \in [Tasks -> Ops] /\ msg \in [Tasks -> Ops]
    BY <2>2 DEF Init
  <2>4. /\ received_ool \in [All -> [from : Tasks, buf : Bufs] \cup {NotReceived}]
        /\ mem \in [All -> [Bufs -> Payloads \cup {NULL}]]
    BY DEF Init
  <2>5. in_use \in [All -> BOOLEAN] /\ vm_panic \in BOOLEAN
    BY Zenon DEF Init
  <2>6. pc \in [Tasks -> Pcs] /\ client \in [Tasks -> Tasks \cup {NULL}]
    BY DEF Init, Pcs
  <2>7. ool_sender_queue \in [All -> Seq(Tasks)]
    BY SMTT(30) DEF Init
  <2> QED BY <2>1, <2>3, <2>4, <2>5, <2>6, <2>7 DEF OolTyped
<1>2. /\ \A t \in Tasks : pc[t] = "idle" /\ in_use[t] /\ t \in All
      /\ \A t \in All : ool_sender_queue[t] = <<>> /\ received_ool[t] = NotReceived
      /\ \A t \in All : ool_buf[t] = ool_ptr[t]
  BY DEF Init, All
<1>3. \A t \in Tasks : Placed(t)
  BY <1>2 DEF Placed
<1>4. \A t \in All : Buffered(t)
  BY SMTT(30), <1>2 DEF Buffered, NotReceived
<1>5. \A d \in All : Queued(d)
  BY SMTT(30), <1>2 DEF Queued, IsInjective, Range
<1> QED BY <1>1, <1>2, <1>3, <1>4, <1>5 DEF OolInv

-----------------------------------------------------------------------------
(***************************************************************************)
(* Tasks enter an ipc_* function.                                          *)
(***************************************************************************)
LEMMA EnterEffect ==
    ASSUME OolTyped, NEW t \in Tasks, NEW o \in Ops, Enter(t, o)
    PROVE  /\ op' = [op EXCEPT ![t] = o]
           /\ \A x \in Tasks : x # t => op'[x] = op[x] /\ pc'[x] = pc[x]
           /\ op'[t] = o /\ pc'[t] \in {"reg", "recv", "copy", "send"}
           /\ \A x \in All : x # t => ool_ptr'[x] = ool_ptr[x]
           /\ \/ /\ ool_ptr[t] = NULL /\ NeedsBuffer(o)
                 /\ ool_ptr'[t] \in Bufs /\ pc'[t] = "reg"
              \/ /\ ool_ptr[t] # NULL \/ ~NeedsBuffer(o)
                 /\ ool_ptr'[t] = ool_ptr[t] /\ pc'[t] = Registered(o)
           /\ op' \in [Tasks -> Ops] /\ pc' \in [Tasks -> Pcs]
           /\ ool_ptr' \in [All -> Bufs \cup {NULL}]
           /\ UNCHANGED <<vmvars, mem, msg>>
<1>1. PICK b \in Bufs :
        IF ool_ptr[t] = NULL /\ NeedsBuffer(o)
        THEN ool_ptr' = [ool_ptr EXCEPT ![t] = b] /\ pc' = [pc EXCEPT ![t] = "reg"]
        ELSE UNCHANGED ool_ptr /\ pc' = [pc EXCEPT ![t] = Registered(o)]
  BY DEF Enter, pre_recv
<1>2. op' = [op EXCEPT ![t] = o] /\ UNCHANGED <<vmvars, mem, msg>>
  BY DEF Enter
<1>3. Registered(o) \in {"recv", "copy", "send"}
  BY DEF Registered
<1>4. /\ op \in [Tasks -> Ops] /\ pc \in [Tasks -> Pcs]
      /\ ool_ptr \in [All -> Bufs \cup {NULL}] /\ t \in All
  BY DEF OolTyped, All
<1>5. {"reg", "recv", "copy", "send"} \subseteq Pcs
  BY DEF Pcs
<1>6. op' \in [Tasks -> Ops] /\ op'[t] = o /\ \A x \in Tasks : x # t => op'[x] = op[x]
  BY <1>2, <1>4
<1>7. CASE ool_ptr[t] = NULL /\ NeedsBuffer(o)
  BY <1>1, <1>2, <1>4, <1>5, <1>6, <1>7
<1>8. CASE ~(ool_ptr[t] = NULL /\ NeedsBuffer(o))
  BY SMTT(30), <1>1, <1>2, <1>3, <1>4, <1>5, <1>6, <1>8
<1> QED BY <1>7, <1>8

LEMMA EnterInv ==
    ASSUME OolConstants, OolInv, NEW t \in Tasks, pc[t] \in {"idle", "serve"},
           NEW o \in Ops, Enter(t, o), UNCHANGED client,
           o.kind = "recv" \/ o.peer \in All,
           o.ool => o.kind # "recv" /\ <<t, o.peer>> \in OolTo
    PROVE  OolInv'
<1>1. /\ \A x \in Tasks : x # t => op'[x] = op[x] /\ pc'[x] = pc[x]
      /\ op'[t] = o /\ pc'[t] \in {"reg", "recv", "copy", "send"}
      /\ \A x \in All : x # t => ool_ptr'[x] = ool_ptr[x]
      /\ \/ /\ ool_ptr[t] = NULL /\ NeedsBuffer(o)
            /\ ool_ptr'[t] \in Bufs /\ pc'[t] = "reg"
         \/ /\ ool_ptr[t] # NULL \/ ~NeedsBuffer(o)
            /\ ool_ptr'[t] = ool_ptr[t] /\ pc'[t] = Registered(o)
      /\ op' \in [Tasks -> Ops] /\ pc' \in [Tasks -> Pcs]
      /\ ool_ptr' \in [All -> Bufs \cup {NULL}]
  BY EnterEffect DEF OolInv
<1>2. UNCHANGED <<in_use, ool_buf, received_ool, ool_sender_queue, vm_panic, mem, msg, client>>
  BY DEF Enter, vmvars
<1>3. OolTyped'
  BY <1>1, <1>2 DEF OolInv, OolTyped
<1>4. in_use[t]
  BY DEF OolInv, Placed
<1>5. ASSUME NEW x \in Tasks PROVE Placed(x)'
  BY <1>1, <1>2, <1>4 DEF OolInv, Placed, Registered
<1>6. ASSUME NEW x \in All PROVE Buffered(x)'
  <2>1. Buffered(x) /\ received_ool[x] \in [from : Tasks, buf : Bufs] \cup {NotReceived}
    BY DEF OolInv, OolTyped
  <2>2. CASE x # t
    BY <1>1, <1>2, <2>1, <2>2 DEF Buffered
  <2>3. CASE x = t
    <3>1. CASE pc'[t] = "reg"
      <4>1. ool_ptr[t] = NULL /\ ool_ptr'[t] \in Bufs
        BY <1>1, <3>1 DEF Registered
      <4>2. ool_buf[t] = NULL /\ received_ool[t] = NotReceived
        BY <2>1, <2>3, <4>1 DEF Buffered, NotReceived, OolConstants
      <4> QED BY SMTT(30), <1>2, <2>3, <4>1, <4>2 DEF Buffered, NotReceived, OolConstants
    <3>2. CASE pc'[t] # "reg"
      BY <1>1, <1>2, <2>1, <2>3, <3>2 DEF Buffered
    <3> QED BY <3>1, <3>2
  <2> QED BY <2>2, <2>3
<1>7. ASSUME NEW s \in Tasks, pc'[s] = "send", op'[s].ool PROVE InFlight(s)'
  <2>1. s # t
    BY <1>1, <1>7 DEF Registered
  <2>2. InFlight(s) /\ op[s].peer \in All
    BY <2>1, <1>1, <1>7 DEF OolInv, Placed
  <2> QED BY <2>1, <2>2, <1>1, <1>2 DEF InFlight
<1>8. ASSUME NEW d \in Tasks, pc'[d] = "verify" PROVE Arrived(d)'
  <2>1. d # t
    BY <1>1, <1>8
  <2> QED BY <2>1, <1>1, <1>2, <1>8 DEF OolInv, Arrived, Genuine
<1>9. ASSUME NEW d \in All PROVE Queued(d)'
  <2>1. Queued(d) /\ Range(ool_sender_queue[d]) \subseteq Tasks
    BY RangeTyped DEF OolInv, OolTyped
  <2>2. t \notin Range(ool_sender_queue[d])
    BY <2>1, <1>4 DEF Queued
  <2> QED BY <2>1, <2>2, <1>1, <1>2 DEF Queued
<1> QED BY <1>3, <1>5, <1>6, <1>7, <1>8, <1>9 DEF OolInv

LEMMA IpcInv ==
    ASSUME OolConstants, OolInv, NEW t \in Tasks,
           ipc_reply(t) \/ ipc_recv(t) \/ \E s \in All : ipc_call(t, s) \/ ipc_send(t, s)
    PROVE  OolInv'
<1>1. CASE ipc_reply(t)
  <2>1. PICK p \in Payloads : Enter(t, Op("reply", t, client[t], p))
    BY <1>1 DEF ipc_reply
  <2>2. pc[t] = "serve" /\ UNCHANGED client
    BY <1>1 DEF ipc_reply
  <2>3. client[t] \in Tasks
    BY <2>2 DEF OolInv, OolTyped, Placed
  <2> DEFINE o == Op("reply", t, client[t], p)
  <2>4. o \in Ops /\ o.kind = "reply" /\ o.peer \in All /\ (o.ool => <<t, o.peer>> \in OolTo)
    <3>1. /\ client[t] \in All /\ client[t] \in All \cup {ANY, NULL}
          /\ p \in Payloads \cup {NULL} /\ "reply" \in {"call", "send", "reply", "recv"}
      BY <2>3 DEF All
    <3> QED BY <3>1 DEF Op, Ops
  <2> HIDE DEF o
  <2>5. Enter(t, o)
    BY <2>1 DEF o
  <2> QED BY <2>2, <2>4, <2>5, EnterInv
<1>2. CASE ipc_recv(t)
  <2> DEFINE o == Op("recv", t, ANY, NULL)
  <2>1. o \in Ops /\ o.kind = "recv" /\ ~o.ool
    <3>1. /\ ANY \in All \cup {ANY, NULL} /\ NULL \in Payloads \cup {NULL}
          /\ "recv" \in {"call", "send", "reply", "recv"}
      OBVIOUS
    <3> QED BY <3>1 DEF Op, Ops
  <2>2. Enter(t, o) /\ pc[t] = "idle" /\ UNCHANGED client
    BY <1>2 DEF ipc_recv
  <2> HIDE DEF o
  <2> QED BY <2>1, <2>2, EnterInv
<1>3. ASSUME NEW s \in All, ipc_call(t, s) \/ ipc_send(t, s) PROVE OolInv'
  <2>1. PICK p \in Payloads, k \in {"call", "send"} : Enter(t, Op(k, t, s, p))
    BY <1>3 DEF ipc_call, ipc_send
  <2> DEFINE o == Op(k, t, s, p)
  <2>2. o \in Ops /\ o.kind # "recv" /\ o.peer \in All /\ (o.ool => <<t, o.peer>> \in OolTo)
    <3>1. /\ s \in All \cup {ANY, NULL} /\ p \in Payloads \cup {NULL}
          /\ k \in {"call", "send", "reply", "recv"} /\ k # "recv"
      OBVIOUS
    <3> QED BY <3>1 DEF Op, Ops
  <2>3. Enter(t, o) /\ pc[t] \in {"idle", "serve"} /\ UNCHANGED client
    BY <1>3, <2>1 DEF ipc_call, ipc_send
  <2> HIDE DEF o
  <2> QED BY <2>2, <2>3, EnterInv
<1> QED BY <1>1, <1>2, <1>3

-----------------------------------------------------------------------------
(***************************************************************************)
(* The kernel delivers a message, or the send fails; a task exits.         *)
(***************************************************************************)
LEMMA DeliverEffect ==
    ASSUME OolInv, NEW s \in Tasks, NEW d \in Tasks, Deliver(s, d)
    PROVE  /\ pc[s] = "send" /\ pc[d] = "recv" /\ op[s].peer = d /\ op[s].kind # "recv"
           /\ msg'[d].peer = s /\ msg'[d].kind = op[s].kind /\ msg'[d].id = op[s].id
           /\ msg'[d].payload = op[s].payload
           /\ msg' \in [Tasks -> Ops] /\ \A x \in Tasks : x # d => msg'[x] = msg[x]
           /\ pc'[s] = IF op[s].kind = "call" THEN "recv" ELSE "idle"
           /\ pc'[d] = IF op[s].ool THEN "verify" ELSE Return(d, op[d])
           /\ \A x \in Tasks : x # s /\ x # d => pc'[x] = pc[x] /\ client'[x] = client[x]
           /\ client'[s] = IF op[s].kind = "reply" THEN NULL ELSE client[s]
           /\ client'[d] = IF op[s].ool THEN client[d] ELSE ClientAfter(d, op[d])
           /\ pc' \in [Tasks -> Pcs] /\ client' \in [Tasks -> Tasks \cup {NULL}]
           /\ UNCHANGED <<vmvars, ool_ptr, mem, op>>
<1>1. /\ pc[s] = "send" /\ pc[d] = "recv" /\ op[s].peer = d
      /\ msg' = [msg EXCEPT ![d] = [op[s] EXCEPT !.peer = s]]
      /\ pc' = [pc EXCEPT ![s] = IF op[s].kind = "call" THEN "recv" ELSE "idle",
                          ![d] = IF op[s].ool THEN "verify" ELSE Return(d, op[d])]
      /\ client' = [client EXCEPT ![s] = ClientAfter(s, op[s]),
                                  ![d] = IF op[s].ool THEN @ ELSE ClientAfter(d, op[d])]
      /\ UNCHANGED <<vmvars, ool_ptr, mem, op>>
  BY DEF Deliver, Ready
<1>2. /\ op \in [Tasks -> Ops] /\ msg \in [Tasks -> Ops] /\ pc \in [Tasks -> Pcs]
      /\ client \in [Tasks -> Tasks \cup {NULL}] /\ s \in All /\ s # d
  BY <1>1 DEF OolInv, OolTyped, All
<1>3. op[s].kind # "recv"
  BY <1>1 DEF OolInv, Placed
<1>4. /\ msg'[d].peer = s /\ msg'[d].kind = op[s].kind /\ msg'[d].id = op[s].id
      /\ msg'[d].payload = op[s].payload
      /\ msg' \in [Tasks -> Ops] /\ \A x \in Tasks : x # d => msg'[x] = msg[x]
  <2> DEFINE o == [op[s] EXCEPT !.peer = s]
  <2>1. /\ o \in Ops /\ o.peer = s /\ o.kind = op[s].kind /\ o.id = op[s].id
        /\ o.payload = op[s].payload
    BY SMTT(30), <1>2 DEF Ops
  <2> HIDE DEF o
  <2>2. msg' = [msg EXCEPT ![d] = o]
    BY <1>1 DEF o
  <2> QED BY <1>2, <2>1, <2>2
<1>5. ClientAfter(s, op[s]) = IF op[s].kind = "reply" THEN NULL ELSE client[s]
  BY <1>3 DEF ClientAfter
<1>6. ClientAfter(d, op[d]) \in Tasks \cup {NULL}
  BY <1>2, <1>4 DEF ClientAfter
<1>7. Return(d, op[d]) \in Pcs /\ {"recv", "idle", "verify"} \subseteq Pcs
  BY DEF Return, Pcs
<1>8. /\ pc'[s] = IF op[s].kind = "call" THEN "recv" ELSE "idle"
      /\ pc'[d] = IF op[s].ool THEN "verify" ELSE Return(d, op[d])
      /\ \A x \in Tasks : x # s /\ x # d => pc'[x] = pc[x]
      /\ pc' \in [Tasks -> Pcs]
  BY <1>1, <1>2, <1>7
<1>9. /\ client'[s] = IF op[s].kind = "reply" THEN NULL ELSE client[s]
      /\ client'[d] = IF op[s].ool THEN client[d] ELSE ClientAfter(d, op[d])
      /\ \A x \in Tasks : x # s /\ x # d => client'[x] = client[x]
      /\ client' \in [Tasks -> Tasks \cup {NULL}]
  BY <1>1, <1>2, <1>5, <1>6
<1> QED BY <1>1, <1>3, <1>4, <1>8, <1>9

LEMMA DeliverInv ==
    ASSUME OolConstants, OolInv, NEW s \in Tasks, NEW d \in Tasks, Deliver(s, d)
    PROVE  OolInv'
<1>1. /\ pc[s] = "send" /\ pc[d] = "recv" /\ op[s].peer = d /\ op[s].kind # "recv"
      /\ msg'[d].peer = s /\ msg'[d].kind = op[s].kind /\ msg'[d].id = op[s].id
      /\ msg'[d].payload = op[s].payload
      /\ msg' \in [Tasks -> Ops] /\ \A x \in Tasks : x # d => msg'[x] = msg[x]
      /\ pc'[s] = IF op[s].kind = "call" THEN "recv" ELSE "idle"
      /\ pc'[d] = IF op[s].ool THEN "verify" ELSE Return(d, op[d])
      /\ \A x \in Tasks : x # s /\ x # d => pc'[x] = pc[x] /\ client'[x] = client[x]
      /\ client'[s] = IF op[s].kind = "reply" THEN NULL ELSE client[s]
      /\ client'[d] = IF op[s].ool THEN client[d] ELSE ClientAfter(d, op[d])
      /\ pc' \in [Tasks -> Pcs] /\ client' \in [Tasks -> Tasks \cup {NULL}]
      /\ UNCHANGED <<vmvars, ool_ptr, mem, op>>
  BY DeliverEffect
<1>2. UNCHANGED <<in_use, ool_buf, received_ool, ool_sender_queue, vm_panic, ool_ptr, mem, op>>
  BY <1>1 DEF vmvars
<1>3. OolTyped'
  BY <1>1, <1>2 DEF OolInv, OolTyped
<1>4. in_use[s] /\ in_use[d] /\ s # d /\ NULL \notin Tasks
  BY <1>1 DEF OolInv, Placed, OolConstants, All
<1>5. Return(d, op[d]) \in {"idle", "serve"}
  BY DEF Return
<1>6. Return(d, op[d]) = "serve" => ClientAfter(d, op[d]) # NULL
  BY SMTT(30), <1>1, <1>4 DEF Return, ClientAfter
<1>7. ASSUME NEW x \in Tasks PROVE Placed(x)'
  <2>1. Placed(x)
    BY DEF OolInv
  <2>2. CASE x = s
    BY <1>1, <1>2, <1>4, <2>2 DEF Placed
  <2>3. CASE x = d
    BY <1>1, <1>2, <1>4, <1>5, <1>6, <2>3 DEF Placed
  <2>4. CASE x # s /\ x # d
    BY <1>1, <1>2, <2>1, <2>4 DEF Placed
  <2> QED BY <2>2, <2>3, <2>4
<1>8. \A x \in Tasks : pc'[x] \in {"reg", "copy"} => pc'[x] = pc[x]
  BY <1>1, <1>5
<1>9. ASSUME NEW x \in All PROVE Buffered(x)'
  BY <1>2, <1>8 DEF Buffered, OolInv
<1>10. ASSUME NEW x \in Tasks, pc'[x] = "send", op'[x].ool PROVE InFlight(x)'
  <2>1. x # s /\ x # d /\ pc[x] = "send" /\ op[x].ool
    BY <1>1, <1>2, <1>5, <1>10
  <2>2. InFlight(x)
    BY <2>1 DEF OolInv
  <2>3. ASSUME op[x].peer = d, op[s].ool PROVE FALSE
    <3>1. InFlight(s)
      BY <1>1, <2>3 DEF OolInv
    <3>2. received_ool[d].from = s /\ received_ool[d].from = x
      BY SMTT(30), <1>1, <2>2, <2>3, <3>1 DEF InFlight
    <3> QED BY <2>1, <3>2
  <2>4. op[x].peer \in Tasks => pc'[op[x].peer] # "verify"
    BY <1>1, <1>5, <2>2, <2>3 DEF InFlight
  <2> QED BY <1>2, <2>2, <2>4 DEF InFlight
<1>11. ASSUME NEW x \in Tasks, pc'[x] = "verify" PROVE Arrived(x)'
  <2>1. CASE x = d
    <3>1. op[s].ool
      BY <1>1, <1>5, <1>11, <2>1
    <3>2. InFlight(s)
      BY <1>1, <3>1 DEF OolInv
    <3> QED BY <1>1, <1>2, <2>1, <3>2 DEF InFlight, Arrived, Genuine
  <2>2. CASE x # d
    BY SMTT(30), <1>1, <1>2, <1>11, <2>2 DEF OolInv, Arrived, Genuine
  <2> QED BY <2>1, <2>2
<1>12. ASSUME NEW x \in All PROVE Queued(x)'
  <2>1. Queued(x) /\ Range(ool_sender_queue[x]) \subseteq Tasks
    BY RangeTyped DEF OolInv, OolTyped
  <2>2. s \notin Range(ool_sender_queue[x]) /\ d \notin Range(ool_sender_queue[x])
    BY <2>1, <1>1, <1>4 DEF Queued
  <2> QED BY SMTT(30), <2>1, <2>2, <1>1, <1>2 DEF Queued
<1> QED BY <1>3, <1>7, <1>9, <1>10, <1>11, <1>12 DEF OolInv

LEMMA SendFailsInv ==
    ASSUME OolConstants, OolInv, NEW s \in Tasks, SendFails(s)
    PROVE  OolInv'
<1>1. /\ pc[s] = "send"
      /\ pc' = [pc EXCEPT ![s] = IF op[s].kind = "call" /\ client[s] # NULL
                                 THEN "serve" ELSE "idle"]
      /\ client' = [client EXCEPT ![s] = IF op[s].kind = "reply" THEN NULL ELSE @]
      /\ UNCHANGED <<in_use, ool_buf, received_ool, ool_sender_queue, vm_panic,
                     ool_ptr, mem, op, msg>>
  BY DEF SendFails, vmvars
<1>2. /\ pc'[s] \in {"serve", "idle"} /\ (pc'[s] = "serve" => client'[s] # NULL)
      /\ \A x \in Tasks : x # s => pc'[x] = pc[x] /\ client'[x] = client[x]
      /\ pc' \in [Tasks -> Pcs] /\ client' \in [Tasks -> Tasks \cup {NULL}]
  BY <1>1 DEF OolInv, OolTyped, Pcs
<1>3. OolTyped'
  BY <1>1, <1>2 DEF OolInv, OolTyped
<1>4. in_use[s]
  BY <1>1 DEF OolInv, Placed
<1>5. ASSUME NEW x \in Tasks PROVE Placed(x)'
  BY <1>1, <1>2, <1>4 DEF Placed, OolInv
<1>6. ASSUME NEW x \in All PROVE Buffered(x)'
  BY <1>1, <1>2 DEF Buffered, OolInv
<1>7. ASSUME NEW x \in Tasks, pc'[x] = "send", op'[x].ool PROVE InFlight(x)'
  <2>1. x # s /\ InFlight(x)
    BY <1>1, <1>2, <1>7 DEF OolInv
  <2> QED BY <1>1, <1>2, <2>1 DEF InFlight
<1>8. ASSUME NEW x \in Tasks, pc'[x] = "verify" PROVE Arrived(x)'
  BY <1>1, <1>2, <1>8 DEF OolInv, Arrived, Genuine
<1>9. ASSUME NEW x \in All PROVE Queued(x)'
  <2>1. Queued(x) /\ Range(ool_sender_queue[x]) \subseteq Tasks
    BY RangeTyped DEF OolInv, OolTyped
  <2>2. s \notin Range(ool_sender_queue[x])
    BY <2>1, <1>1, <1>4 DEF Queued
  <2> QED BY <2>1, <2>2, <1>1, <1>2 DEF Queued
<1> QED BY <1>3, <1>5, <1>6, <1>7, <1>8, <1>9 DEF OolInv

LEMMA ExitInv ==
    ASSUME OolConstants, OolInv, NEW t \in Tasks, Exit(t)
    PROVE  OolInv'
<1>1. /\ pc[t] \in {"idle", "serve"} /\ pc' = [pc EXCEPT ![t] = "dead"]
      /\ in_use' = [in_use EXCEPT ![t] = FALSE]
      /\ UNCHANGED <<ool_buf, received_ool, ool_sender_queue, vm_panic, ool_ptr, mem,
                     op, msg, client>>
  BY DEF Exit, taskvars
<1>2. /\ pc'[t] = "dead" /\ \A x \in Tasks : x # t => pc'[x] = pc[x] /\ in_use'[x] = in_use[x]
      /\ \A x \in Tasks : in_use'[x] => in_use[x] /\ x # t
      /\ pc' \in [Tasks -> Pcs] /\ in_use' \in [All -> BOOLEAN]
  BY <1>1 DEF OolInv, OolTyped, Pcs, All
<1>3. OolTyped'
  BY <1>1, <1>2 DEF OolInv, OolTyped
<1>4. ASSUME NEW x \in Tasks PROVE Placed(x)'
  BY SMTT(30), <1>1, <1>2 DEF Placed, OolInv
<1>5. ASSUME NEW x \in All PROVE Buffered(x)'
  BY <1>1, <1>2 DEF Buffered, OolInv
<1>6. ASSUME NEW x \in Tasks, pc'[x] = "send", op'[x].ool PROVE InFlight(x)'
  <2>1. x # t /\ InFlight(x)
    BY <1>1, <1>2, <1>6 DEF OolInv
  <2> QED BY <1>1, <1>2, <2>1 DEF InFlight
<1>7. ASSUME NEW x \in Tasks, pc'[x] = "verify" PROVE Arrived(x)'
  BY <1>1, <1>2, <1>7 DEF OolInv, Arrived, Genuine
<1>8. ASSUME NEW x \in All PROVE Queued(x)'
  <2>1. Queued(x) /\ Range(ool_sender_queue[x]) \subseteq Tasks
    BY RangeTyped DEF OolInv, OolTyped
  <2> QED BY <2>1, <1>1, <1>2 DEF Queued
<1> QED BY <1>3, <1>4, <1>5, <1>6, <1>7, <1>8 DEF OolInv

-----------------------------------------------------------------------------
(***************************************************************************)
(* vm's handlers.                                                          *)
(***************************************************************************)
\* The end of a copy, seen from every task; o is what vaddr2paddr has found.
CopyTo(s, d, b, o) ==
    /\ \A x \in Tasks : x # s => op'[x] = op[x]
    /\ op'[s].kind = op[s].kind /\ op'[s].peer = op[s].peer
    /\ op'[s].ool = op[s].ool /\ op'[s].payload = op[s].payload
    /\ o = "ok" => op'[s].id = b /\ received_ool'[d] = [from |-> s, buf |-> b]
                   /\ ool_buf'[d] = NULL /\ mem'[d][b] = op[s].payload
    /\ o # "ok" => received_ool'[d] = received_ool[d] /\ ool_buf'[d] = b
    /\ \A x \in All : x # d => /\ received_ool'[x] = received_ool[x]
                               /\ ool_buf'[x] = ool_buf[x] /\ mem'[x] = mem[x]
    /\ \A x \in All : in_use'[x] = (in_use[x] /\ <<x, o>> \notin {<<s, "src">>, <<d, "dst">>})
    /\ pc'[s] = CASE o = "ok" -> "send" [] o = "src" -> "dead" [] OTHER -> "panic"
    /\ \A x \in Tasks : x # s =>
         pc'[x] = IF x = d /\ o = "dst" THEN "dead"
                  ELSE IF x = d /\ pc[d] = "reg" THEN Registered(op[d]) ELSE pc[x]

LEMMA CopyEffect ==
    ASSUME OolTyped, NEW s \in Tasks, NEW d \in All, NEW b \in Bufs, Copy(s, d, b)
    PROVE  /\ \E o \in CopyOutcomes(s, d) : CopyTo(s, d, b, o)
           /\ op' \in [Tasks -> Ops] /\ pc' \in [Tasks -> Pcs] /\ in_use' \in [All -> BOOLEAN]
           /\ received_ool' \in [All -> [from : Tasks, buf : Bufs] \cup {NotReceived}]
           /\ ool_buf' \in [All -> Bufs \cup {NULL}]
           /\ mem' \in [All -> [Bufs -> Payloads \cup {NULL}]]
<1>1. PICK o \in CopyOutcomes(s, d) :
        /\ IF o = "ok" THEN Copied(s, d, b)
           ELSE /\ ool_buf' = [ool_buf EXCEPT ![d] = b]
                /\ UNCHANGED <<received_ool, mem, op>>
        /\ in_use' = [t \in All |-> IF <<t, o>> \in {<<s, "src">>, <<d, "dst">>}
                                    THEN FALSE ELSE in_use[t]]
        /\ pc' = After(o, s, d)
  BY DEF Copy
<1>2. /\ op \in [Tasks -> Ops] /\ pc \in [Tasks -> Pcs] /\ in_use \in [All -> BOOLEAN]
      /\ received_ool \in [All -> [from : Tasks, buf : Bufs] \cup {NotReceived}]
      /\ ool_buf \in [All -> Bufs \cup {NULL}]
      /\ mem \in [All -> [Bufs -> Payloads \cup {NULL}]]
      /\ s \in All /\ o \in {"ok", "src", "dst"}
  BY DEF OolTyped, All, CopyOutcomes
<1>3. /\ in_use' \in [All -> BOOLEAN]
      /\ \A x \in All : in_use'[x] = (in_use[x] /\ <<x, o>> \notin {<<s, "src">>, <<d, "dst">>})
  BY <1>1, <1>2
<1>4. /\ pc' \in [Tasks -> Pcs]
      /\ pc'[s] = CASE o = "ok" -> "send" [] o = "src" -> "dead" [] OTHER -> "panic"
      /\ \A x \in Tasks : x # s =>
           pc'[x] = IF x = d /\ o = "dst" THEN "dead"
                    ELSE IF x = d /\ pc[d] = "reg" THEN Registered(op[d]) ELSE pc[x]
  <2>1. \A x \in Tasks :
          pc'[x] = IF x = s THEN [ok |-> "send", src |-> "dead", dst |-> "panic"][o]
                   ELSE IF x = d /\ o = "dst" THEN "dead"
                   ELSE IF x = d /\ pc[d] = "reg" THEN Registered(op[d]) ELSE pc[x]
    BY <1>1 DEF After
  <2>2. [ok |-> "send", src |-> "dead", dst |-> "panic"][o]
          = CASE o = "ok" -> "send" [] o = "src" -> "dead" [] OTHER -> "panic"
    BY SMTT(30), <1>2
  <2>3. pc'[s] = CASE o = "ok" -> "send" [] o = "src" -> "dead" [] OTHER -> "panic"
    BY <2>1, <2>2
  <2>4. \A x \in Tasks : x # s =>
           pc'[x] = IF x = d /\ o = "dst" THEN "dead"
                    ELSE IF x = d /\ pc[d] = "reg" THEN Registered(op[d]) ELSE pc[x]
    BY <2>1
  <2>5. \A x \in Tasks : pc'[x] \in Pcs
    BY <2>3, <2>4, <1>2 DEF Pcs, Registered
  <2>6. pc' = [x \in Tasks |-> pc'[x]]
    BY <1>1 DEF After
  <2> QED BY <2>3, <2>4, <2>5, <2>6
<1>5. CASE o = "ok"
  <2>1. /\ received_ool' = [received_ool EXCEPT ![d] = [from |-> s, buf |-> b]]
        /\ ool_buf' = [ool_buf EXCEPT ![d] = NULL]
        /\ mem' = [mem EXCEPT ![d][b] = op[s].payload]
        /\ op' = [op EXCEPT ![s].id = b]
    BY <1>1, <1>5 DEF Copied
  <2>2. /\ op' \in [Tasks -> Ops] /\ \A x \in Tasks : x # s => op'[x] = op[x]
        /\ op'[s].kind = op[s].kind /\ op'[s].peer = op[s].peer
        /\ op'[s].ool = op[s].ool /\ op'[s].payload = op[s].payload /\ op'[s].id = b
    BY <1>2, <2>1 DEF Ops
  <2>3. op[s].payload \in Payloads \cup {NULL}
    BY <1>2 DEF Ops
  <2>4. /\ mem' \in [All -> [Bufs -> Payloads \cup {NULL}]] /\ mem'[d][b] = op[s].payload
        /\ \A x \in All : x # d => mem'[x] = mem[x]
    BY <1>2, <2>1, <2>3
  <2>5. /\ received_ool' \in [All -> [from : Tasks, buf : Bufs] \cup {NotReceived}]
        /\ received_ool'[d] = [from |-> s, buf |-> b]
        /\ ool_buf' \in [All -> Bufs \cup {NULL}] /\ ool_buf'[d] = NULL
        /\ \A x \in All : x # d => received_ool'[x] = received_ool[x]
                                   /\ ool_buf'[x] = ool_buf[x]
    BY <1>2, <2>1
  <2>6. CopyTo(s, d, b, o)
    BY <1>3, <1>4, <1>5, <2>2, <2>4, <2>5 DEF CopyTo
  <2> QED BY <1>3, <1>4, <2>2, <2>4, <2>5, <2>6
<1>6. CASE o # "ok"
  <2>1. ool_buf' = [ool_buf EXCEPT ![d] = b] /\ UNCHANGED <<received_ool, mem, op>>
    BY <1>1, <1>6
  <2>2. CopyTo(s, d, b, o)
    BY <1>2, <1>3, <1>4, <1>6, <2>1 DEF CopyTo
  <2> QED BY <1>2, <1>3, <1>4, <2>1, <2>2
<1> QED BY <1>5, <1>6

\* handle_ool_send's copy, whether the sender has just asked for it or has
\* waited: d's buffer b is empty and s leaves the queue, if it was in one.
LEMMA CopyInv ==
    ASSUME OolConstants, OolInv, NEW s \in Tasks, NEW d \in All, NEW b \in Bufs,
           Copy(s, d, b), pc[s] = "copy", op[s].peer = d, in_use[s],
           received_ool[d] = NotReceived,
           ool_ptr' \in [All -> Bufs \cup {NULL}], ool_ptr'[d] = b,
           \A x \in All : x # d => ool_ptr'[x] = ool_ptr[x],
           ool_sender_queue' \in [All -> Seq(Tasks)],
           \A x \in All : /\ IsInjective(ool_sender_queue'[x])
                          /\ Range(ool_sender_queue'[x]) \subseteq Range(ool_sender_queue[x])
                          /\ s \notin Range(ool_sender_queue'[x]),
           UNCHANGED <<msg, client, vm_panic>>
    PROVE  OolInv'
<1>1. /\ \E o \in CopyOutcomes(s, d) : CopyTo(s, d, b, o)
      /\ op' \in [Tasks -> Ops] /\ pc' \in [Tasks -> Pcs] /\ in_use' \in [All -> BOOLEAN]
      /\ received_ool' \in [All -> [from : Tasks, buf : Bufs] \cup {NotReceived}]
      /\ ool_buf' \in [All -> Bufs \cup {NULL}]
      /\ mem' \in [All -> [Bufs -> Payloads \cup {NULL}]]
  BY CopyEffect DEF OolInv
<1>2. PICK o \in {"ok", "src", "dst"} : CopyTo(s, d, b, o)
  BY <1>1 DEF CopyOutcomes
<1>3. OolTyped'
  BY <1>1 DEF OolInv, OolTyped
<1>4. /\ op[s].ool /\ op[s].kind # "recv" /\ <<s, d>> \in OolTo
      /\ NULL \notin Tasks /\ NULL \notin Bufs /\ s \in All
  BY DEF OolInv, Placed, OolConstants, All
<1>5. d \in Tasks => pc[d] # "verify"
  <2>1. received_ool[d].from \notin Tasks
    BY SMTT(30), <1>4 DEF NotReceived
  <2>2. ASSUME d \in Tasks, pc[d] = "verify" PROVE FALSE
    <3>1. Arrived(d)
      BY <2>2 DEF OolInv
    <3>2. received_ool[d].from = msg[d].peer
      BY SMTT(30), <3>1 DEF Arrived, Genuine
    <3> QED BY <2>1, <3>1, <3>2 DEF Arrived
  <2> QED BY <2>2
<1>6. ASSUME NEW x \in Tasks PROVE Placed(x)'
  <2>1. Placed(x) /\ x \in All
    BY DEF OolInv, All
  <2>2. CASE x = s
    BY <1>2, <1>4, <2>2 DEF CopyTo, Placed
  <2>3. CASE x # s /\ x = d
    <3>1. op'[x] = op[x] /\ client'[x] = client[x]
      BY <1>2, <2>3 DEF CopyTo
    <3>2. CASE o = "dst"
      BY SMTT(30), <1>2, <2>3, <3>1, <3>2 DEF CopyTo, Placed
    <3>3. CASE o # "dst" /\ pc[d] = "reg"
      <4>1. in_use[x]
        BY <2>1, <2>3, <3>3 DEF Placed
      <4>2. in_use'[x] /\ pc'[x] = Registered(op[x])
        <5>1. /\ in_use'[x] = (in_use[x] /\ <<x, o>> \notin {<<s, "src">>, <<d, "dst">>})
              /\ pc'[x] = IF x = d /\ o = "dst" THEN "dead"
                         ELSE IF x = d /\ pc[d] = "reg" THEN Registered(op[d]) ELSE pc[x]
          BY <1>2, <2>1, <2>3 DEF CopyTo
        <5>2. <<x, o>> \notin {<<s, "src">>, <<d, "dst">>}
          BY <2>3, <3>3
        <5> QED BY <2>3, <3>3, <4>1, <5>1, <5>2
      <4> QED BY <2>1, <2>3, <3>1, <3>3, <4>2 DEF Placed, Registered
    <3>4. CASE o # "dst" /\ pc[d] # "reg"
      <4>1. in_use'[x] = in_use[x] /\ pc'[x] = pc[x]
        <5>1. in_use[x] \in BOOLEAN
          BY <2>1 DEF OolInv, OolTyped
        <5> QED BY SMTT(30), <1>2, <2>1, <2>3, <3>4, <5>1 DEF CopyTo
      <4> QED BY <2>1, <3>1, <4>1 DEF Placed
    <3> QED BY <3>2, <3>3, <3>4
  <2>4. CASE x # s /\ x # d
    BY <1>2, <2>1, <2>4 DEF CopyTo, Placed
  <2> QED BY <2>2, <2>3, <2>4
<1>7. \A x \in Tasks : pc'[x] \in {"reg", "verify"} => pc'[x] = pc[x] /\ x # s
  BY <1>2 DEF CopyTo, Registered
<1>8. d \in Tasks => pc'[d] # "reg"
  BY <1>2 DEF CopyTo, Registered
<1>9. ASSUME NEW x \in All PROVE Buffered(x)'
  <2>1. Buffered(x)
    BY DEF OolInv
  <2>2. CASE x = d
    BY SMTT(30), <1>2, <1>4, <1>8, <2>2 DEF CopyTo, Buffered, NotReceived
  <2>3. CASE x # d
    BY <1>2, <1>7, <2>1, <2>3 DEF CopyTo, Buffered
  <2> QED BY <2>2, <2>3
<1>10. ASSUME NEW x \in Tasks, pc'[x] = "send", op'[x].ool PROVE InFlight(x)'
  <2>1. CASE x = s
    <3>1. o = "ok"
      BY <1>2, <1>10, <2>1 DEF CopyTo
    <3> QED BY SMTT(30), <1>2, <1>5, <1>7, <2>1, <3>1 DEF CopyTo, InFlight
  <2>2. CASE x # s
    <3>1. op'[x] = op[x] /\ pc[x] = "send"
      BY SMTT(30), <1>2, <1>10, <2>2 DEF CopyTo, Registered
    <3>2. InFlight(x) /\ op[x].peer \in All
      BY <1>10, <3>1 DEF OolInv, Placed
    <3>3. op[x].peer # d
      BY SMTT(30), <3>2, <1>4 DEF InFlight, NotReceived
    <3> QED BY SMTT(30), <1>2, <1>7, <3>1, <3>2, <3>3 DEF CopyTo, InFlight
  <2> QED BY <2>1, <2>2
<1>11. ASSUME NEW x \in Tasks, pc'[x] = "verify" PROVE Arrived(x)'
  <2>1. pc[x] = "verify" /\ x # d /\ x \in All
    BY <1>5, <1>7, <1>11 DEF All
  <2>2. Arrived(x)
    BY <2>1 DEF OolInv
  <2> QED BY <1>2, <2>1, <2>2 DEF CopyTo, Arrived, Genuine
<1>12. ASSUME NEW x \in All PROVE Queued(x)'
  <2>1. Queued(x) /\ Range(ool_sender_queue[x]) \subseteq Tasks
    BY RangeTyped DEF OolInv, OolTyped
  <2>2. ASSUME NEW y \in Range(ool_sender_queue'[x]), in_use'[y]
        PROVE  pc'[y] = "copy" /\ op'[y].peer = x
    <3>1. y \in Range(ool_sender_queue[x]) /\ y \in Tasks /\ y \in All /\ y # s
      BY <2>1, <2>2 DEF All
    <3>2. in_use[y] /\ ~(y = d /\ o = "dst")
      BY <1>2, <2>2, <3>1 DEF CopyTo
    <3>3. pc[y] = "copy" /\ op[y].peer = x
      BY <2>1, <3>1, <3>2 DEF Queued
    <3> QED BY <1>2, <3>1, <3>2, <3>3 DEF CopyTo
  <2> QED BY <2>2 DEF Queued
<1> QED BY <1>3, <1>6, <1>9, <1>10, <1>11, <1>12 DEF OolInv

\* task_lookup's assertion fails: nothing but vm_panic changes, and ool_ptr when
\* vm has allocated its next buffer.
LEMMA PanicInv ==
    ASSUME OolInv, task_lookup_fails, UNCHANGED <<msg, client>>,
           ool_ptr' \in [All -> Bufs \cup {NULL}],
           \A x \in All : \/ ool_ptr'[x] = ool_ptr[x]
                          \/ /\ ool_buf[x] = NULL /\ received_ool[x] = NotReceived
                             /\ ool_ptr'[x] # NULL
    PROVE  OolInv'
<1>1. /\ vm_panic' = TRUE
      /\ UNCHANGED <<in_use, ool_buf, received_ool, ool_sender_queue, mem, pc, op>>
  BY DEF task_lookup_fails
<1>2. OolTyped'
  BY <1>1 DEF OolInv, OolTyped
<1>3. ASSUME NEW x \in Tasks
      PROVE  /\ Placed(x)' /\ (pc'[x] = "verify" => Arrived(x)')
             /\ pc'[x] = "send" /\ op'[x].ool => InFlight(x)'
  <2>1. /\ Placed(x) /\ (pc[x] = "verify" => Arrived(x))
        /\ pc[x] = "send" /\ op[x].ool => InFlight(x)
    BY DEF OolInv
  <2>2. Placed(x)'
    BY <1>1, <2>1 DEF Placed
  <2>3. pc'[x] = "verify" => Arrived(x)'
    BY <1>1, <2>1 DEF Arrived, Genuine
  <2>4. pc'[x] = "send" /\ op'[x].ool => InFlight(x)'
    BY <1>1, <2>1 DEF InFlight
  <2> QED BY <2>2, <2>3, <2>4
<1>4. ASSUME NEW x \in All PROVE Buffered(x)' /\ Queued(x)'
  <2>1. Buffered(x) /\ Queued(x)
    BY DEF OolInv
  <2>2. Buffered(x)'
    BY <1>1, <2>1, NotReceivedFields DEF Buffered
  <2>3. Queued(x)'
    BY <1>1, <2>1 DEF Queued
  <2> QED BY <2>2, <2>3
<1> QED BY <1>2, <1>3, <1>4 DEF OolInv

\* A task that is in some queue is not in another one.
LEMMA OneQueue ==
    ASSUME OolInv, NEW s \in Tasks, pc[s] = "copy", NEW x \in All, op[s].peer # x
    PROVE  s \notin Range(ool_sender_queue[x])
BY DEF OolInv, Queued, Placed

LEMMA HandleSendInv ==
    ASSUME OolConstants, OolInv, NEW s \in Tasks, handle_ool_send(s)
    PROVE  OolInv'
<1> DEFINE d == op[s].peer
<1>1. /\ pc[s] = "copy" /\ s \notin Range(ool_sender_queue[d])
      /\ UNCHANGED <<ool_ptr, msg, client>>
      /\ \/ task_lookup_fails
         \/ /\ ool_buf[d] = NULL
            /\ ool_sender_queue' = [ool_sender_queue EXCEPT ![d] = Append(@, s)]
            /\ UNCHANGED <<in_use, ool_buf, received_ool, vm_panic, mem, pc, op>>
         \/ /\ ool_buf[d] # NULL
            /\ Copy(s, d, ool_buf[d]) /\ UNCHANGED <<ool_sender_queue, vm_panic>>
  BY DEF handle_ool_send
<1>2. d \in All /\ in_use[s]
  BY <1>1 DEF OolInv, Placed
<1> HIDE DEF d
<1>3. CASE task_lookup_fails
  <2>1. ool_ptr' \in [All -> Bufs \cup {NULL}]
    BY <1>1 DEF OolInv, OolTyped
  <2> QED BY <1>1, <1>3, <2>1, PanicInv
<1>4. CASE /\ ool_buf[d] = NULL
           /\ ool_sender_queue' = [ool_sender_queue EXCEPT ![d] = Append(@, s)]
           /\ UNCHANGED <<in_use, ool_buf, received_ool, vm_panic, mem, pc, op>>
  <2>1. ool_sender_queue \in [All -> Seq(Tasks)] /\ IsInjective(ool_sender_queue[d])
    BY <1>2 DEF OolInv, OolTyped, Queued
  <2>2. ool_sender_queue[d] \in Seq(Tasks)
    BY <1>2, <2>1
  <2>3. /\ Append(ool_sender_queue[d], s) \in Seq(Tasks)
        /\ IsInjective(Append(ool_sender_queue[d], s))
        /\ Range(Append(ool_sender_queue[d], s)) = Range(ool_sender_queue[d]) \cup {s}
    BY SMTT(30), <1>1, <2>1, <2>2, AppendRange
  <2>4. /\ ool_sender_queue' \in [All -> Seq(Tasks)]
        /\ IsInjective(ool_sender_queue'[d])
        /\ Range(ool_sender_queue'[d]) = Range(ool_sender_queue[d]) \cup {s}
        /\ \A x \in All : x # d => ool_sender_queue'[x] = ool_sender_queue[x]
    BY <1>2, <1>4, <2>1, <2>3
  <2>5. OolTyped'
    BY <1>1, <1>4, <2>4 DEF OolInv, OolTyped
  <2>6. /\ \A x \in Tasks : Placed(x)' /\ (pc'[x] = "verify" => Arrived(x)')
        /\ \A x \in Tasks : pc'[x] = "send" /\ op'[x].ool => InFlight(x)'
        /\ \A x \in All : Buffered(x)'
    BY <1>1, <1>4 DEF OolInv, Placed, Arrived, Genuine, InFlight, Buffered
  <2>7. ASSUME NEW x \in All PROVE Queued(x)'
    BY <1>1, <1>4, <2>4 DEF OolInv, Queued, d
  <2> QED BY <2>5, <2>6, <2>7 DEF OolInv
<1>5. CASE /\ ool_buf[d] # NULL
           /\ Copy(s, d, ool_buf[d]) /\ UNCHANGED <<ool_sender_queue, vm_panic>>
  <2>1. /\ ool_buf[d] \in Bufs /\ ool_ptr[d] = ool_buf[d] /\ received_ool[d] = NotReceived
        /\ ool_ptr \in [All -> Bufs \cup {NULL}] /\ ool_sender_queue \in [All -> Seq(Tasks)]
    BY <1>2, <1>5 DEF OolInv, OolTyped, Buffered
  <2>2. ASSUME NEW x \in All
        PROVE  IsInjective(ool_sender_queue[x]) /\ s \notin Range(ool_sender_queue[x])
    BY <1>1, OneQueue DEF OolInv, Queued, d
  <2>3. op[s].peer = d
    BY DEF d
  <2> QED BY <1>1, <1>2, <1>5, <2>1, <2>2, <2>3, CopyInv
<1> QED BY <1>1, <1>3, <1>4, <1>5

LEMMA RegisterInv ==
    ASSUME OolConstants, OolInv, NEW d \in All, NEW b \in Bufs, Register(d, b),
           ool_buf[d] = NULL, received_ool[d] = NotReceived, d \in Tasks => pc[d] = "reg",
           ool_ptr' \in [All -> Bufs \cup {NULL}], ool_ptr'[d] = b,
           \A x \in All : x # d => ool_ptr'[x] = ool_ptr[x],
           UNCHANGED <<msg, client>>
    PROVE  OolInv'
<1> DEFINE q == ool_sender_queue[d]
<1>1. \/ /\ q = <<>>
         /\ ool_buf' = [ool_buf EXCEPT ![d] = b]
         /\ pc' = [t \in Tasks |-> IF t = d THEN Registered(op[d]) ELSE pc[t]]
         /\ UNCHANGED <<in_use, received_ool, ool_sender_queue, vm_panic, mem, op>>
      \/ task_lookup_fails
      \/ /\ q # <<>> /\ in_use[Head(q)]
         /\ ool_sender_queue' = [ool_sender_queue EXCEPT ![d] = Tail(@)]
         /\ Copy(Head(q), d, b)
         /\ UNCHANGED vm_panic
  BY DEF Register
<1>2. /\ ool_sender_queue \in [All -> Seq(Tasks)] /\ q \in Seq(Tasks) /\ IsInjective(q)
      /\ Range(q) \subseteq Tasks
  BY RangeTyped DEF OolInv, OolTyped, Queued
<1>3. CASE /\ ool_buf' = [ool_buf EXCEPT ![d] = b]
           /\ pc' = [t \in Tasks |-> IF t = d THEN Registered(op[d]) ELSE pc[t]]
           /\ UNCHANGED <<in_use, received_ool, ool_sender_queue, vm_panic, mem, op>>
  <2>1. /\ \A x \in Tasks : x # d => pc'[x] = pc[x]
        /\ d \in Tasks => pc'[d] = Registered(op[d]) /\ in_use[d]
        /\ ool_buf'[d] = b /\ \A x \in All : x # d => ool_buf'[x] = ool_buf[x]
        /\ ool_buf' \in [All -> Bufs \cup {NULL}]
    BY <1>3 DEF OolInv, OolTyped, Placed
  <2>2. pc' \in [Tasks -> Pcs]
    BY <1>3 DEF OolInv, OolTyped, Pcs, Registered
  <2>3. OolTyped'
    BY <1>3, <2>1, <2>2 DEF OolInv, OolTyped
  <2>4. ASSUME NEW x \in Tasks PROVE Placed(x)'
    <3>1. Placed(x)
      BY DEF OolInv
    <3>2. CASE x = d
      BY <1>3, <2>1, <3>1, <3>2 DEF Placed, Registered
    <3>3. CASE x # d
      BY <1>3, <2>1, <3>1, <3>3 DEF Placed
    <3> QED BY <3>2, <3>3
  <2>5. ASSUME NEW x \in All PROVE Buffered(x)'
    <3>1. CASE x = d
      BY SMTT(30), <1>3, <2>1, <3>1 DEF Buffered, NotReceived, Registered
    <3>2. CASE x # d
      BY <1>3, <2>1, <3>2 DEF OolInv, Buffered
    <3> QED BY <3>1, <3>2
  <2>6. ASSUME NEW x \in Tasks, pc'[x] = "send", op'[x].ool PROVE InFlight(x)'
    <3>1. pc[x] = "send" /\ op[x].ool
      BY <1>3, <2>1, <2>6 DEF Registered
    <3>2. InFlight(x)
      BY <3>1 DEF OolInv
    <3> QED BY <1>3, <2>1, <3>2 DEF InFlight, Registered
  <2>7. ASSUME NEW x \in Tasks, pc'[x] = "verify" PROVE Arrived(x)'
    <3>1. pc[x] = "verify"
      BY <2>1, <2>7 DEF Registered
    <3> QED BY <1>3, <3>1 DEF OolInv, Arrived, Genuine
  <2>8. ASSUME NEW x \in All PROVE Queued(x)'
    <3>1. Queued(x) /\ Range(ool_sender_queue[x]) \subseteq Tasks
      BY RangeTyped DEF OolInv, OolTyped
    <3> QED BY <1>3, <2>1, <3>1 DEF Queued
  <2> QED BY <2>3, <2>4, <2>5, <2>6, <2>7, <2>8 DEF OolInv
<1>4. CASE task_lookup_fails
  <2>1. NULL \notin Bufs
    BY DEF OolConstants
  <2> QED BY <1>4, <2>1, PanicInv
<1>5. CASE /\ q # <<>> /\ in_use[Head(q)]
           /\ ool_sender_queue' = [ool_sender_queue EXCEPT ![d] = Tail(@)]
           /\ Copy(Head(q), d, b)
           /\ UNCHANGED vm_panic
  <2> DEFINE s == Head(q)
  <2>1. /\ Tail(q) \in Seq(Tasks) /\ IsInjective(Tail(q)) /\ s \in Range(q)
        /\ Range(Tail(q)) = Range(q) \ {s}
    BY <1>2, <1>5, TailRange
  <2>2. s \in Tasks /\ pc[s] = "copy" /\ op[s].peer = d
    BY <1>2, <1>5, <2>1 DEF OolInv, Queued
  <2>3. /\ ool_sender_queue' \in [All -> Seq(Tasks)] /\ ool_sender_queue'[d] = Tail(q)
        /\ \A x \in All : x # d => ool_sender_queue'[x] = ool_sender_queue[x]
    BY <1>2, <1>5, <2>1
  <2>4. ASSUME NEW x \in All
        PROVE  /\ IsInjective(ool_sender_queue'[x])
               /\ Range(ool_sender_queue'[x]) \subseteq Range(ool_sender_queue[x])
               /\ s \notin Range(ool_sender_queue'[x])
    <3>1. CASE x = d
      BY <2>1, <2>3, <3>1
    <3>2. CASE x # d
      BY <2>2, <2>3, <3>2, OneQueue DEF OolInv, Queued
    <3> QED BY <3>1, <3>2
  <2> HIDE DEF s, q
  <2>5. Copy(s, d, b) /\ in_use[s]
    BY <1>5 DEF s
  <2> QED BY SMTT(30), <1>5, <2>2, <2>3, <2>4, <2>5, CopyInv
<1> QED BY <1>1, <1>3, <1>4, <1>5

LEMMA HandleRecvInv ==
    ASSUME OolConstants, OolInv, NEW d \in Tasks, handle_ool_recv(d)
    PROVE  OolInv'
<1>1. pc[d] = "reg" /\ UNCHANGED <<ool_ptr, msg, client>>
  BY DEF handle_ool_recv
<1>2. /\ ool_buf[d] = NULL /\ received_ool[d] = NotReceived /\ d \in All
      /\ ool_ptr[d] \in Bufs /\ ool_ptr \in [All -> Bufs \cup {NULL}]
  BY <1>1 DEF OolInv, OolTyped, Buffered, All
<1>3. Register(d, ool_ptr[d])
  BY <1>2 DEF handle_ool_recv
<1> QED BY <1>1, <1>2, <1>3, RegisterInv

LEMMA VmRegistersInv ==
    ASSUME OolConstants, OolInv, VmRegisters
    PROVE  OolInv'
<1>1. PICK b \in Bufs : ool_ptr' = [ool_ptr EXCEPT ![VM] = b] /\ Register(VM, b)
  BY DEF VmRegisters
<1>2. ool_ptr[VM] = NULL /\ UNCHANGED <<msg, client>> /\ VM \in All /\ VM \notin Tasks
  BY DEF VmRegisters, OolConstants, All
<1>3. Buffered(VM) /\ received_ool[VM] \in [from : Tasks, buf : Bufs] \cup {NotReceived}
  BY <1>2 DEF OolInv, OolTyped
<1>4. ool_buf[VM] = NULL /\ received_ool[VM] = NotReceived
  BY <1>2, <1>3 DEF Buffered, OolConstants
<1>5. /\ ool_ptr' \in [All -> Bufs \cup {NULL}] /\ ool_ptr'[VM] = b
      /\ \A x \in All : x # VM => ool_ptr'[x] = ool_ptr[x]
  BY <1>1, <1>2 DEF OolInv, OolTyped
<1> QED BY <1>1, <1>2, <1>4, <1>5, RegisterInv

\* The receiver claims its payload, which is always genuine.
LEMMA VerifyEffect ==
    ASSUME OolConstants, OolInv, NEW d \in Tasks, handle_ool_verify(d)
    PROVE  /\ pc[d] = "verify" /\ Arrived(d) /\ d \in All
           /\ received_ool'[d] = NotReceived /\ ool_ptr'[d] = NULL
           /\ pc'[d] = Return(d, op[d]) /\ client'[d] = ClientAfter(d, op[d])
           /\ \A x \in All : x # d => /\ received_ool'[x] = received_ool[x]
                                      /\ ool_ptr'[x] = ool_ptr[x]
           /\ \A x \in Tasks : x # d => pc'[x] = pc[x] /\ client'[x] = client[x]
           /\ received_ool' \in [All -> [from : Tasks, buf : Bufs] \cup {NotReceived}]
           /\ ool_ptr' \in [All -> Bufs \cup {NULL}] /\ pc' \in [Tasks -> Pcs]
           /\ client' \in [Tasks -> Tasks \cup {NULL}]
           /\ UNCHANGED <<in_use, ool_buf, ool_sender_queue, vm_panic, mem, op, msg>>
<1>1. pc[d] = "verify" /\ UNCHANGED <<in_use, ool_buf, ool_sender_queue, vm_panic, mem, op, msg>>
  BY DEF handle_ool_verify
<1>2. Arrived(d) /\ d \in All
  BY <1>1 DEF OolInv, All
<1>3. Genuine(d, msg[d])
  BY <1>2 DEF Arrived
<1>4. /\ received_ool' = [received_ool EXCEPT ![d] = NotReceived]
      /\ ool_ptr' = [ool_ptr EXCEPT ![d] = NULL]
      /\ pc' = [pc EXCEPT ![d] = Return(d, op[d])]
      /\ client' = [client EXCEPT ![d] = ClientAfter(d, op[d])]
  BY <1>3 DEF handle_ool_verify, Claimed
<1>5. Return(d, op[d]) \in Pcs
  BY DEF Return, Pcs
<1>6. ClientAfter(d, op[d]) \in Tasks \cup {NULL}
  BY <1>1, <1>2 DEF ClientAfter, Arrived, OolInv, OolTyped
<1>7. /\ received_ool \in [All -> [from : Tasks, buf : Bufs] \cup {NotReceived}]
      /\ ool_ptr \in [All -> Bufs \cup {NULL}] /\ pc \in [Tasks -> Pcs]
      /\ client \in [Tasks -> Tasks \cup {NULL}]
  BY DEF OolInv, OolTyped
<1> QED BY <1>1, <1>2, <1>4, <1>5, <1>6, <1>7

LEMMA HandleVerifyInv ==
    ASSUME OolConstants, OolInv, NEW d \in Tasks, handle_ool_verify(d)
    PROVE  OolInv'
<1>1. /\ pc[d] = "verify" /\ Arrived(d) /\ d \in All
      /\ received_ool'[d] = NotReceived /\ ool_ptr'[d] = NULL
      /\ pc'[d] = Return(d, op[d]) /\ client'[d] = ClientAfter(d, op[d])
      /\ \A x \in All : x # d => /\ received_ool'[x] = received_ool[x]
                                 /\ ool_ptr'[x] = ool_ptr[x]
      /\ \A x \in Tasks : x # d => pc'[x] = pc[x] /\ client'[x] = client[x]
      /\ received_ool' \in [All -> [from : Tasks, buf : Bufs] \cup {NotReceived}]
      /\ ool_ptr' \in [All -> Bufs \cup {NULL}] /\ pc' \in [Tasks -> Pcs]
      /\ client' \in [Tasks -> Tasks \cup {NULL}]
      /\ UNCHANGED <<in_use, ool_buf, ool_sender_queue, vm_panic, mem, op, msg>>
  BY VerifyEffect
<1>2. OolTyped'
  BY <1>1 DEF OolInv, OolTyped
<1>3. pc'[d] \in {"idle", "serve"} /\ in_use[d] /\ NULL \notin Tasks
  BY <1>1 DEF Return, OolInv, Placed, OolConstants, All
<1>4. pc'[d] = "serve" => client'[d] # NULL
  BY <1>1, <1>3 DEF Return, ClientAfter, Arrived
<1>5. ASSUME NEW x \in Tasks PROVE Placed(x)'
  BY <1>1, <1>3, <1>4 DEF OolInv, Placed
<1>6. received_ool[d].from = msg[d].peer /\ received_ool[d] # NotReceived
  <2>1. Arrived(d)
    BY <1>1
  <2>2. received_ool[d].from = msg[d].peer /\ msg[d].peer \in Tasks
    BY SMTT(30), <2>1 DEF Arrived, Genuine
  <2> QED BY <1>3, <2>2, NotReceivedFields
<1>7. ASSUME NEW x \in All PROVE Buffered(x)'
  <2>1. Buffered(x)
    BY DEF OolInv
  <2>2. CASE x = d
    <3>1. ool_buf[d] = NULL
      BY <1>6, <2>1, <2>2 DEF Buffered
    <3> QED BY <1>1, <1>3, <2>2, <3>1, NotReceivedFields DEF Buffered
  <2>3. CASE x # d
    BY <1>1, <2>1, <2>3 DEF Buffered
  <2> QED BY <2>2, <2>3
<1>8. ASSUME NEW x \in Tasks, pc'[x] = "send", op'[x].ool PROVE InFlight(x)'
  <2>1. x # d /\ pc[x] = "send" /\ op[x].ool
    BY <1>1, <1>3, <1>8
  <2>2. InFlight(x) /\ op[x].peer \in All
    BY <2>1 DEF OolInv, Placed
  <2>3. op[x].peer # d
    BY <2>2, <1>1 DEF InFlight
  <2> QED BY <1>1, <1>3, <2>2, <2>3 DEF InFlight
<1>9. ASSUME NEW x \in Tasks, pc'[x] = "verify" PROVE Arrived(x)'
  <2>1. x # d /\ pc[x] = "verify" /\ x \in All
    BY <1>1, <1>3, <1>9 DEF All
  <2> QED BY <1>1, <2>1 DEF OolInv, Arrived, Genuine
<1>10. ASSUME NEW x \in All PROVE Queued(x)'
  <2>1. Queued(x) /\ Range(ool_sender_queue[x]) \subseteq Tasks
    BY RangeTyped DEF OolInv, OolTyped
  <2> QED BY <1>1, <1>3, <2>1 DEF Queued
<1> QED BY <1>2, <1>5, <1>7, <1>8, <1>9, <1>10 DEF OolInv

\* vm answers a request; a payload in it is always genuine.
LEMMA VmServesEffect ==
    ASSUME OolConstants, OolInv, NEW c \in Tasks, VmServes(c)
    PROVE  /\ pc[c] = "send" /\ op[c].peer = VM /\ VM \in All /\ VM \notin Tasks
           /\ op[c].kind # "recv"
           /\ msg' \in [Tasks -> Ops] /\ \A x \in Tasks : x # c => msg'[x] = msg[x]
           /\ \/ ~op[c].ool /\ UNCHANGED <<received_ool, ool_ptr>>
              \/ /\ op[c].ool /\ InFlight(c)
                 /\ received_ool' = [received_ool EXCEPT ![VM] = NotReceived]
                 /\ ool_ptr' = [ool_ptr EXCEPT ![VM] = NULL]
           /\ pc'[c] = IF op[c].kind = "call" /\ client[c] # NULL THEN "serve" ELSE "idle"
           /\ pc' \in [Tasks -> Pcs] /\ \A x \in Tasks : x # c => pc'[x] = pc[x]
           /\ UNCHANGED <<in_use, ool_buf, ool_sender_queue, mem, op, client, vm_panic>>
<1>1. /\ pc[c] = "send" /\ op[c].peer = VM /\ VM \in All /\ VM \notin Tasks
      /\ msg' = [msg EXCEPT ![c] = NoOp] /\ pc' = [pc EXCEPT ![c] = Return(c, op[c])]
      /\ UNCHANGED <<in_use, ool_buf, ool_sender_queue, mem, op, client>>
  BY DEF VmServes, OolConstants, All
<1>2. op[c].kind # "recv"
  BY <1>1 DEF OolInv, Placed
<1>3. Return(c, op[c]) = IF op[c].kind = "call" /\ client[c] # NULL THEN "serve" ELSE "idle"
  BY <1>2 DEF Return
<1>4. /\ msg' \in [Tasks -> Ops] /\ \A x \in Tasks : x # c => msg'[x] = msg[x]
  <2>1. NoOp \in Ops
    BY DEF NoOp, Ops
  <2> QED BY <1>1, <2>1 DEF OolInv, OolTyped
<1>5. /\ pc' \in [Tasks -> Pcs] /\ \A x \in Tasks : x # c => pc'[x] = pc[x]
      /\ pc'[c] = IF op[c].kind = "call" /\ client[c] # NULL THEN "serve" ELSE "idle"
  BY <1>1, <1>3 DEF OolInv, OolTyped, Pcs
<1>6. CASE ~op[c].ool
  BY <1>1, <1>2, <1>4, <1>5, <1>6 DEF VmServes
<1>7. CASE op[c].ool
  <2>1. InFlight(c)
    BY <1>1, <1>7 DEF OolInv
  <2>2. op[c] \in Ops
    BY DEF OolInv, OolTyped
  <2>3. [op[c] EXCEPT !.peer = c].peer = c /\ [op[c] EXCEPT !.peer = c].id = op[c].id
    BY <2>2 DEF Ops
  <2>4. Genuine(VM, [op[c] EXCEPT !.peer = c])
    BY <1>1, <2>1, <2>3 DEF InFlight, Genuine
  <2>5. Claimed(VM) /\ UNCHANGED vm_panic
    BY <1>7, <2>4 DEF VmServes
  <2> QED BY <1>1, <1>2, <1>4, <1>5, <1>7, <2>1, <2>5 DEF Claimed
<1> QED BY <1>6, <1>7

LEMMA VmServesInv ==
    ASSUME OolConstants, OolInv, NEW c \in Tasks, VmServes(c)
    PROVE  OolInv'
<1>1. /\ pc[c] = "send" /\ op[c].peer = VM /\ VM \in All /\ VM \notin Tasks
      /\ op[c].kind # "recv"
      /\ msg' \in [Tasks -> Ops] /\ \A x \in Tasks : x # c => msg'[x] = msg[x]
      /\ \/ ~op[c].ool /\ UNCHANGED <<received_ool, ool_ptr>>
         \/ /\ op[c].ool /\ InFlight(c)
            /\ received_ool' = [received_ool EXCEPT ![VM] = NotReceived]
            /\ ool_ptr' = [ool_ptr EXCEPT ![VM] = NULL]
      /\ pc'[c] = IF op[c].kind = "call" /\ client[c] # NULL THEN "serve" ELSE "idle"
      /\ pc' \in [Tasks -> Pcs] /\ \A x \in Tasks : x # c => pc'[x] = pc[x]
      /\ UNCHANGED <<in_use, ool_buf, ool_sender_queue, mem, op, client, vm_panic>>
  BY VmServesEffect
<1>2. /\ received_ool \in [All -> [from : Tasks, buf : Bufs] \cup {NotReceived}]
      /\ ool_ptr \in [All -> Bufs \cup {NULL}]
  BY DEF OolInv, OolTyped
<1>3. /\ received_ool' \in [All -> [from : Tasks, buf : Bufs] \cup {NotReceived}]
      /\ ool_ptr' \in [All -> Bufs \cup {NULL}]
      /\ \A x \in All : x # VM => received_ool'[x] = received_ool[x] /\ ool_ptr'[x] = ool_ptr[x]
  BY <1>1, <1>2
<1>4. OolTyped'
  BY <1>1, <1>3 DEF OolInv, OolTyped
<1>5. in_use[c]
  BY <1>1 DEF OolInv, Placed
<1>6. ASSUME NEW x \in Tasks PROVE Placed(x)'
  <2>1. Placed(x)
    BY DEF OolInv
  <2> QED BY <1>1, <1>5, <2>1 DEF Placed
<1>7. op[c].ool => received_ool[VM] # NotReceived /\ received_ool[VM].from = c
  <2>1. op[c].ool => received_ool[VM] = [from |-> c, buf |-> op[c].id]
    BY <1>1 DEF InFlight
  <2>2. c # NULL
    BY DEF OolConstants, All
  <2> QED BY SMTT(30), <2>1, <2>2, NotReceivedFields
<1>8. ASSUME NEW x \in All PROVE Buffered(x)'
  <2>1. Buffered(x)
    BY DEF OolInv
  <2>2. CASE x # VM
    BY <1>1, <1>3, <2>1, <2>2 DEF Buffered
  <2>3. CASE x = VM /\ ~op[c].ool
    <3>1. UNCHANGED <<received_ool, ool_ptr, ool_buf>> /\ x \notin Tasks
      BY <1>1, <2>3
    <3> QED BY <2>1, <3>1 DEF Buffered
  <2>4. CASE x = VM /\ op[c].ool
    <3>1. received_ool'[VM] = NotReceived /\ ool_buf'[VM] = NULL
      <4>1. ool_buf[VM] = NULL
        BY <1>7, <2>1, <2>4 DEF Buffered
      <4> QED BY <1>1, <1>2, <2>4, <4>1
    <3> QED BY <1>1, <2>4, <3>1, NotReceivedFields DEF Buffered
  <2> QED BY <2>2, <2>3, <2>4
<1>9. ASSUME NEW x \in Tasks, pc'[x] = "send", op'[x].ool PROVE InFlight(x)'
  <2>1. x # c /\ pc[x] = "send" /\ op[x].ool
    BY <1>1, <1>9
  <2>2. InFlight(x) /\ op[x].peer \in All
    BY <2>1 DEF OolInv, Placed
  <2>3. op[x].peer # VM \/ ~op[c].ool
    BY SMTT(30), <1>7, <2>1, <2>2 DEF InFlight
  <2>4. received_ool'[op[x].peer] = received_ool[op[x].peer]
    BY <1>1, <1>3, <2>2, <2>3
  <2> QED BY <1>1, <2>2, <2>4 DEF InFlight
<1>10. ASSUME NEW x \in Tasks, pc'[x] = "verify" PROVE Arrived(x)'
  <2>1. x # c /\ pc[x] = "verify" /\ x \in All /\ x # VM
    BY <1>1, <1>10 DEF All
  <2>2. Arrived(x)
    BY <2>1 DEF OolInv
  <2>3. received_ool'[x] = received_ool[x] /\ msg'[x] = msg[x] /\ mem'[x] = mem[x]
    BY <1>1, <1>3, <2>1
  <2> QED BY <2>2, <2>3 DEF Arrived, Genuine
<1>11. ASSUME NEW x \in All PROVE Queued(x)'
  <2>1. Queued(x) /\ Range(ool_sender_queue[x]) \subseteq Tasks
    BY RangeTyped DEF OolInv, OolTyped
  <2>2. c \notin Range(ool_sender_queue[x])
    BY <1>1, <1>5, <2>1 DEF Queued
  <2> QED BY <1>1, <2>1, <2>2 DEF Queued
<1> QED BY <1>4, <1>6, <1>8, <1>9, <1>10, <1>11 DEF OolInv

-----------------------------------------------------------------------------
LEMMA OolNextInv ==
    ASSUME OolConstants, OolInv, [Next]_vars
    PROVE  OolInv'
<1>1. CASE UNCHANGED vars
  <2>1. UNCHANGED <<in_use, ool_buf, received_ool, ool_sender_queue, vm_panic, ool_ptr,
                    mem, pc, op, msg, client>>
    BY <1>1 DEF vars, vmvars, taskvars
  <2>2. OolTyped'
    BY <2>1 DEF OolInv, OolTyped
  <2>3. /\ \A x \in Tasks : Placed(x)' /\ (pc'[x] = "verify" => Arrived(x)')
        /\ \A x \in Tasks : pc'[x] = "send" /\ op'[x].ool => InFlight(x)'
        /\ \A x \in All : Queued(x)' /\ Buffered(x)'
    BY <2>1 DEF OolInv, Placed, Arrived, Genuine, InFlight, Queued, Buffered
  <2> QED BY <2>2, <2>3 DEF OolInv
<1>2. CASE VmRegisters
  BY <1>2, VmRegistersInv
<1>3. ASSUME NEW t \in Tasks, TaskStep(t) PROVE OolInv'
  BY <1>3, IpcInv, SendFailsInv, DeliverInv DEF TaskStep
<1>4. ASSUME NEW t \in Tasks, VmStep(t) PROVE OolInv'
  BY <1>4, HandleSendInv, HandleRecvInv, HandleVerifyInv, VmServesInv DEF VmStep
<1>5. ASSUME NEW t \in Tasks, Exit(t) \/ \E s \in All : ipc_call(t, s) \/ ipc_send(t, s)
      PROVE  OolInv'
  BY <1>5, ExitInv, IpcInv
<1> QED BY <1>1, <1>2, <1>3, <1>4, <1>5 DEF Next

LEMMA OolInvariance ==
    ASSUME OolConstants
    PROVE  Spec => []OolInv
<1>1. Init => OolInv
  BY OolInitInv
<1>2. OolInv /\ [Next]_vars => OolInv'
  BY OolNextInv
<1> QED BY <1>1, <1>2, PTL DEF Spec

\* A payload is never overwritten or mixed up between handle_ool_send's copy and
\* the receiver's ool_verify, also when tasks exit or pages cannot be allocated.
THEOREM PayloadsIntact ==
    ASSUME OolConstants
    PROVE  Spec => []PayloadIntact
<1>1. OolInv => PayloadIntact
  BY DEF OolInv, InFlight, Arrived, PayloadIntact
<1> QED BY <1>1, OolInvariance, PTL

-----------------------------------------------------------------------------
(***************************************************************************)
(* vm survives as long as the tasks that payloads are sent to do.          *)
(***************************************************************************)
\* No task exits, or lacks pages, that a payload may be sent to.
Undying == \A t \in Tasks, u \in All : <<t, u>> \in OolTo => u \notin Mortal \cup Faulting

\* No assertion has failed, and whoever vm is going to look up is in use.
OolLive ==
    /\ ~vm_panic
    /\ \A t \in Tasks : pc[t] # "panic"
    /\ \A t \in Tasks, u \in All : <<t, u>> \in OolTo => in_use[u]
    /\ \A d \in All : \A s \in Range(ool_sender_queue[d]) : in_use[s]

\* s asks vm to copy its payload and has to wait for a buffer of d.
Enqueues(s, d) ==
    /\ pc[s] = "copy" /\ op[s].peer = d /\ ool_buf[d] = NULL
    /\ Range(ool_sender_queue'[d]) = Range(ool_sender_queue[d]) \cup {s}
    /\ \A x \in All : x # d => ool_sender_queue'[x] = ool_sender_queue[x]
    /\ UNCHANGED <<in_use, ool_buf, received_ool, pc, op, ool_ptr>>

\* d's buffer is registered and nobody has waited for it.
Registers(d, b) ==
    /\ ool_sender_queue[d] = <<>> /\ ool_buf'[d] = b /\ ool_ptr'[d] = b
    /\ \A x \in All : x # d => ool_buf'[x] = ool_buf[x] /\ ool_ptr'[x] = ool_ptr[x]
    /\ d \in Tasks => pc[d] = "reg" /\ pc'[d] = Registered(op[d])
    /\ \A x \in Tasks : x # d => pc'[x] = pc[x]
    /\ UNCHANGED <<in_use, received_ool, ool_sender_queue, op>>

\* vm copies the payload of s into d's buffer b, or fails to.
Copies(s, d, b, o) ==
    /\ pc[s] = "copy" /\ op[s].peer = d /\ in_use[s]
    /\ CopyTo(s, d, b, o) /\ ool_ptr'[d] = b
    /\ \A x \in All : x # d => ool_ptr'[x] = ool_ptr[x]
    /\ \A x \in All : /\ Range(ool_sender_queue'[x]) \subseteq Range(ool_sender_queue[x])
                      /\ s \notin Range(ool_sender_queue'[x])
                      /\ ool_sender_queue[x] = <<>> => ool_sender_queue'[x] = <<>>
    /\ d \in Tasks => pc[d] # "verify"

\* The steps of vm that hand out buffers.
Hands == VmRegisters \/ \E t \in Tasks : handle_ool_send(t) \/ handle_ool_recv(t)

\* One of the three happens in a step of Hands; no task that vm looks up is gone.
Handed ==
    \/ \E s \in Tasks, d \in All : Enqueues(s, d)
    \/ \E d \in All, b \in Bufs : Registers(d, b)
    \/ \E s \in Tasks, d \in All, b \in Bufs : \E o \in CopyOutcomes(s, d) : Copies(s, d, b, o)

LEMMA NotVerifying ==
    ASSUME OolConstants, OolInv, NEW d \in Tasks, received_ool[d] = NotReceived
    PROVE  pc[d] # "verify"
<1>1. received_ool[d].from \notin Tasks
  BY SMTT(30) DEF NotReceived, OolConstants, All
<1>2. ASSUME pc[d] = "verify" PROVE FALSE
  <2>1. Arrived(d)
    BY <1>2 DEF OolInv
  <2>2. received_ool[d].from = msg[d].peer
    BY SMTT(30), <2>1 DEF Arrived, Genuine
  <2> QED BY <1>1, <2>1, <2>2 DEF Arrived
<1> QED BY <1>2

LEMMA SendHands ==
    ASSUME OolConstants, OolInv, OolLive, NEW s \in Tasks, handle_ool_send(s)
    PROVE  Handed /\ UNCHANGED <<msg, client, vm_panic>>
<1> DEFINE d == op[s].peer
<1>1. pc[s] = "copy" /\ s \notin Range(ool_sender_queue[d]) /\ UNCHANGED <<ool_ptr, msg, client>>
  BY DEF handle_ool_send
<1>2. d \in All /\ in_use[s] /\ in_use[d] /\ s \in All
  BY <1>1 DEF OolInv, Placed, OolLive, All
<1>3. \/ /\ ool_buf[d] = NULL
         /\ ool_sender_queue' = [ool_sender_queue EXCEPT ![d] = Append(@, s)]
         /\ UNCHANGED <<in_use, ool_buf, received_ool, vm_panic, mem, pc, op>>
      \/ /\ ool_buf[d] # NULL
         /\ Copy(s, d, ool_buf[d]) /\ UNCHANGED <<ool_sender_queue, vm_panic>>
  BY <1>2 DEF handle_ool_send
<1> HIDE DEF d
<1>4. CASE /\ ool_buf[d] = NULL
           /\ ool_sender_queue' = [ool_sender_queue EXCEPT ![d] = Append(@, s)]
           /\ UNCHANGED <<in_use, ool_buf, received_ool, vm_panic, mem, pc, op>>
  <2>1. /\ ool_sender_queue \in [All -> Seq(Tasks)] /\ IsInjective(ool_sender_queue[d])
        /\ ool_sender_queue[d] \in Seq(Tasks)
    BY <1>2 DEF OolInv, OolTyped, Queued
  <2>2. Range(Append(ool_sender_queue[d], s)) = Range(ool_sender_queue[d]) \cup {s}
    BY SMTT(30), <1>1, <2>1, AppendRange
  <2>3. /\ Range(ool_sender_queue'[d]) = Range(ool_sender_queue[d]) \cup {s}
        /\ \A x \in All : x # d => ool_sender_queue'[x] = ool_sender_queue[x]
    BY <1>2, <1>4, <2>1, <2>2
  <2>4. Enqueues(s, d)
    BY <1>1, <1>4, <2>3 DEF Enqueues, d
  <2> QED BY <1>1, <1>2, <1>4, <2>4 DEF Handed
<1>5. CASE /\ ool_buf[d] # NULL
           /\ Copy(s, d, ool_buf[d]) /\ UNCHANGED <<ool_sender_queue, vm_panic>>
  <2>1. ool_buf[d] \in Bufs /\ ool_ptr[d] = ool_buf[d] /\ received_ool[d] = NotReceived
    BY <1>2, <1>5 DEF OolInv, OolTyped, Buffered
  <2>2. \A x \in All : s \notin Range(ool_sender_queue[x])
    BY <1>1, OneQueue DEF d
  <2>3. PICK o \in CopyOutcomes(s, d) : CopyTo(s, d, ool_buf[d], o)
    BY <1>2, <1>5, <2>1, CopyEffect DEF OolInv
  <2>4. Copies(s, d, ool_buf[d], o)
    BY <1>1, <1>2, <1>5, <2>1, <2>2, <2>3, NotVerifying DEF Copies, d
  <2> QED BY <1>1, <1>2, <1>5, <2>1, <2>4 DEF Handed
<1> QED BY <1>3, <1>4, <1>5

LEMMA RegisterHands ==
    ASSUME OolConstants, OolInv, OolLive, NEW d \in All, NEW b \in Bufs, Register(d, b),
           ool_buf[d] = NULL, received_ool[d] = NotReceived, d \in Tasks => pc[d] = "reg",
           ool_ptr'[d] = b, \A x \in All : x # d => ool_ptr'[x] = ool_ptr[x]
    PROVE  Handed /\ UNCHANGED vm_panic
<1> DEFINE q == ool_sender_queue[d]
<1>1. /\ ool_sender_queue \in [All -> Seq(Tasks)] /\ q \in Seq(Tasks) /\ IsInjective(q)
      /\ Range(q) \subseteq Tasks
  BY RangeTyped DEF OolInv, OolTyped, Queued
<1>2. CASE q = <<>>
  <2>1. /\ ool_buf' = [ool_buf EXCEPT ![d] = b]
        /\ pc' = [t \in Tasks |-> IF t = d THEN Registered(op[d]) ELSE pc[t]]
        /\ UNCHANGED <<in_use, received_ool, ool_sender_queue, vm_panic, mem, op>>
    BY <1>2 DEF Register
  <2>2. ool_buf'[d] = b /\ \A x \in All : x # d => ool_buf'[x] = ool_buf[x]
    BY <2>1 DEF OolInv, OolTyped
  <2>3. Registers(d, b)
    BY <1>2, <2>1, <2>2 DEF Registers
  <2> QED BY <2>1, <2>3 DEF Handed
<1>3. CASE q # <<>>
  <2> DEFINE s == Head(q)
  <2>1. /\ Tail(q) \in Seq(Tasks) /\ s \in Range(q) /\ Range(Tail(q)) = Range(q) \ {s}
    BY <1>1, <1>3, TailRange
  <2>2. in_use[s] /\ s \in Tasks /\ pc[s] = "copy" /\ op[s].peer = d
    BY <1>1, <2>1 DEF OolLive, OolInv, Queued
  <2>3. /\ ool_sender_queue' = [ool_sender_queue EXCEPT ![d] = Tail(@)]
        /\ Copy(s, d, b) /\ UNCHANGED vm_panic
    BY <1>3, <2>2 DEF Register
  <2>4. /\ ool_sender_queue'[d] = Tail(q)
        /\ \A x \in All : x # d => ool_sender_queue'[x] = ool_sender_queue[x]
    BY <1>1, <2>3
  <2>5. \A x \in All : /\ Range(ool_sender_queue'[x]) \subseteq Range(ool_sender_queue[x])
                       /\ s \notin Range(ool_sender_queue'[x])
                       /\ ool_sender_queue[x] = <<>> => ool_sender_queue'[x] = <<>>
    BY SMTT(30), <1>3, <2>1, <2>2, <2>4, OneQueue
  <2> HIDE DEF s, q
  <2>6. PICK o \in CopyOutcomes(s, d) : CopyTo(s, d, b, o)
    BY <2>2, <2>3, CopyEffect DEF OolInv
  <2>7. Copies(s, d, b, o)
    BY <2>2, <2>5, <2>6, NotVerifying DEF Copies
  <2> QED BY <2>2, <2>3, <2>7 DEF Handed
<1> QED BY <1>2, <1>3

LEMMA HandsEffect ==
    ASSUME OolConstants, OolInv, OolLive, Hands
    PROVE  Handed /\ UNCHANGED <<msg, client, vm_panic>>
<1>1. CASE VmRegisters
  <2>1. PICK b \in Bufs : ool_ptr' = [ool_ptr EXCEPT ![VM] = b] /\ Register(VM, b)
    BY <1>1 DEF VmRegisters
  <2>2. ool_ptr[VM] = NULL /\ UNCHANGED <<msg, client>> /\ VM \in All /\ VM \notin Tasks
    BY <1>1 DEF VmRegisters, OolConstants, All
  <2>3. Buffered(VM) /\ received_ool[VM] \in [from : Tasks, buf : Bufs] \cup {NotReceived}
    BY <2>2 DEF OolInv, OolTyped
  <2>4. ool_buf[VM] = NULL /\ received_ool[VM] = NotReceived
    BY <2>2, <2>3 DEF Buffered, OolConstants
  <2>5. ool_ptr'[VM] = b /\ \A x \in All : x # VM => ool_ptr'[x] = ool_ptr[x]
    BY <2>1, <2>2 DEF OolInv, OolTyped
  <2> QED BY <2>1, <2>2, <2>4, <2>5, RegisterHands
<1>2. ASSUME NEW d \in Tasks, handle_ool_recv(d)
      PROVE  Handed /\ UNCHANGED <<msg, client, vm_panic>>
  <2>1. pc[d] = "reg" /\ UNCHANGED <<ool_ptr, msg, client>>
    BY <1>2 DEF handle_ool_recv
  <2>2. ool_buf[d] = NULL /\ received_ool[d] = NotReceived /\ d \in All /\ ool_ptr[d] \in Bufs
    BY <2>1 DEF OolInv, OolTyped, Buffered, All
  <2>3. Register(d, ool_ptr[d])
    BY <1>2, <2>2 DEF handle_ool_recv
  <2> QED BY <2>1, <2>2, <2>3, RegisterHands
<1> QED BY <1>1, <1>2, SendHands DEF Hands

-----------------------------------------------------------------------------
\* The steps of the tasks and of vm other than Hands, and no step.
Others(t) ==
    \/ TaskStep(t) \/ handle_ool_verify(t) \/ VmServes(t) \/ Exit(t)
    \/ \E s \in All : ipc_call(t, s) \/ ipc_send(t, s)

LEMMA NextCases ==
    ASSUME [Next]_vars
    PROVE  UNCHANGED vars \/ Hands \/ \E t \in Tasks : Others(t)
BY DEF Next, Hands, Others, VmStep

LEMMA OthersLive ==
    ASSUME OolConstants, OolInv, OolLive, Undying, NEW t \in Tasks, Others(t)
    PROVE  OolLive'
<1>1. CASE Exit(t)
  <2>1. /\ t \in Mortal /\ pc[t] \in {"idle", "serve"} /\ pc' = [pc EXCEPT ![t] = "dead"]
        /\ in_use' = [in_use EXCEPT ![t] = FALSE] /\ UNCHANGED <<ool_sender_queue, vm_panic>>
    BY <1>1 DEF Exit
  <2>2. /\ \A x \in All : x # t => in_use'[x] = in_use[x]
        /\ \A x \in Tasks : pc'[x] # "panic"
    BY <2>1 DEF OolInv, OolTyped, OolLive
  <2>3. ASSUME NEW d \in All, NEW s \in Range(ool_sender_queue[d]) PROVE in_use'[s]
    <3>1. Queued(d) /\ s \in Tasks
      BY RangeTyped DEF OolInv, OolTyped
    <3>2. s # t /\ s \in All
      BY <2>1, <3>1 DEF Queued, OolLive, All
    <3> QED BY <2>2, <3>2 DEF OolLive
  <2> QED BY <2>1, <2>2, <2>3 DEF OolLive, Undying
<1>2. ASSUME UNCHANGED <<in_use, ool_sender_queue, vm_panic>>,
             \A x \in Tasks : pc'[x] # "panic"
      PROVE  OolLive'
  BY <1>2 DEF OolLive
<1>3. CASE \E u \in Tasks : Deliver(t, u)
  <2>1. PICK u \in Tasks : Deliver(t, u)
    BY <1>3
  <2>2. /\ \A x \in Tasks : pc'[x] = pc[x] \/ pc'[x] \in {"recv", "idle", "verify", Return(u, op[u])}
        /\ UNCHANGED <<in_use, ool_sender_queue, vm_panic>>
    <3>1. /\ pc'[t] = IF op[t].kind = "call" THEN "recv" ELSE "idle"
          /\ pc'[u] = IF op[t].ool THEN "verify" ELSE Return(u, op[u])
          /\ \A x \in Tasks : x # t /\ x # u => pc'[x] = pc[x]
          /\ UNCHANGED vmvars
      BY SMTT(30), <2>1, DeliverEffect
    <3> QED BY <3>1 DEF vmvars
  <2> QED BY <1>2, <2>2 DEF Return, OolLive
<1>4. CASE handle_ool_verify(t)
  <2>1. /\ \A x \in Tasks : pc'[x] = pc[x] \/ pc'[x] = Return(t, op[t])
        /\ UNCHANGED <<in_use, ool_sender_queue, vm_panic>>
    BY <1>4, VerifyEffect
  <2> QED BY <1>2, <2>1 DEF Return, OolLive
<1>5. CASE VmServes(t)
  <2>1. /\ \A x \in Tasks : pc'[x] = pc[x] \/ pc'[x] \in {"serve", "idle"}
        /\ UNCHANGED <<in_use, ool_sender_queue, vm_panic>>
    BY <1>5, VmServesEffect
  <2> QED BY <1>2, <2>1 DEF OolLive
<1>6. CASE SendFails(t)
  <2>1. /\ \A x \in Tasks : pc'[x] = pc[x] \/ pc'[x] \in {"serve", "idle"}
        /\ UNCHANGED <<in_use, ool_sender_queue, vm_panic>>
    BY <1>6 DEF SendFails, vmvars, OolInv, OolTyped
  <2> QED BY <1>2, <2>1 DEF OolLive
<1>7. CASE ipc_reply(t) \/ ipc_recv(t) \/ \E s \in All : ipc_call(t, s) \/ ipc_send(t, s)
  <2>1. PICK o : Enter(t, o)
    BY <1>7 DEF ipc_reply, ipc_recv, ipc_call, ipc_send
  <2>2. /\ \E k \in {"reg", "recv", "copy", "send"} : pc' = [pc EXCEPT ![t] = k]
        /\ UNCHANGED <<in_use, ool_sender_queue, vm_panic>>
    BY <2>1 DEF Enter, pre_recv, Registered, vmvars
  <2>3. \A x \in Tasks : pc'[x] # "panic"
    BY <2>2 DEF OolInv, OolTyped, OolLive
  <2> QED BY <1>2, <2>2, <2>3
<1> QED BY <1>1, <1>3, <1>4, <1>5, <1>6, <1>7 DEF Others, TaskStep

LEMMA HandsLive ==
    ASSUME OolConstants, OolInv, OolLive, Undying, Hands
    PROVE  OolLive'
<1>1. Handed /\ UNCHANGED vm_panic
  BY HandsEffect
<1>2. ASSUME NEW s \in Tasks, NEW d \in All, Enqueues(s, d) PROVE OolLive'
  <2>1. in_use[s]
    BY <1>2 DEF Enqueues, OolInv, Placed
  <2>2. \A x \in All : Range(ool_sender_queue'[x]) \subseteq Range(ool_sender_queue[x]) \cup {s}
    BY <1>2 DEF Enqueues
  <2> QED BY <1>1, <1>2, <2>1, <2>2 DEF Enqueues, OolLive
<1>3. ASSUME NEW d \in All, NEW b \in Bufs, Registers(d, b) PROVE OolLive'
  BY <1>1, <1>3 DEF Registers, OolLive, Registered
<1>4. ASSUME NEW s \in Tasks, NEW d \in All, NEW b \in Bufs, NEW o \in CopyOutcomes(s, d),
             Copies(s, d, b, o)
      PROVE  OolLive'
  <2>1. <<s, d>> \in OolTo
    BY <1>4 DEF Copies, OolInv, Placed
  <2>2. o = "ok" \/ (o = "src" /\ s \in Faulting)
    <3>1. d \notin Faulting
      BY <2>1 DEF Undying
    <3>2. CASE s \in Faulting
      <4>1. CopyOutcomes(s, d) = {"ok", "src"}
        BY <3>1, <3>2 DEF CopyOutcomes
      <4> QED BY <3>2, <4>1
    <3>3. CASE s \notin Faulting
      <4>1. CopyOutcomes(s, d) = {"ok"}
        BY <3>1, <3>3 DEF CopyOutcomes
      <4> QED BY <4>1
    <3> QED BY <3>2, <3>3
  <2>3. /\ \A x \in Tasks : pc'[x] # "panic"
        /\ \A x \in All : in_use[x] => in_use'[x] \/ (x = s /\ s \in Faulting)
    <3>1. CopyTo(s, d, b, o)
      BY <1>4 DEF Copies
    <3>2. pc'[s] \in {"send", "dead"}
      BY <2>2, <3>1 DEF CopyTo
    <3>3. \A x \in Tasks : x # s => pc'[x] = pc[x] \/ pc'[x] = Registered(op[d])
      BY <2>2, <3>1 DEF CopyTo
    <3>4. ASSUME NEW x \in All, in_use[x] PROVE in_use'[x] \/ (x = s /\ s \in Faulting)
      <4>1. in_use'[x] = (in_use[x] /\ <<x, o>> \notin {<<s, "src">>, <<d, "dst">>})
        BY <3>1 DEF CopyTo
      <4> QED BY <2>2, <3>4, <4>1
    <3> QED BY <3>2, <3>3, <3>4 DEF OolLive, Registered
  <2>4. ASSUME NEW x \in All, NEW y \in Range(ool_sender_queue'[x]) PROVE in_use'[y]
    <3>1. y # s /\ y \in Range(ool_sender_queue[x])
      BY <1>4 DEF Copies
    <3>2. y \in All
      BY <3>1, RangeTyped DEF OolInv, OolTyped, All
    <3> QED BY <2>3, <3>1, <3>2 DEF OolLive
  <2> QED BY <1>1, <2>3, <2>4 DEF OolLive, Undying
<1> QED BY <1>1, <1>2, <1>3, <1>4 DEF Handed

LEMMA LiveInvariance ==
    ASSUME OolConstants, Undying
    PROVE  Spec => [](OolInv /\ OolLive)
<1>1. Init => OolLive
  BY SMTT(30) DEF Init, OolLive, Range, All
<1>2. OolInv /\ OolLive /\ [Next]_vars => OolLive'
  <2> SUFFICES ASSUME OolInv, OolLive, [Next]_vars PROVE OolLive'
    OBVIOUS
  <2>1. CASE UNCHANGED vars
    BY <2>1 DEF vars, vmvars, OolLive
  <2> QED BY <2>1, NextCases, OthersLive, HandsLive
<1> QED BY <1>1, <1>2, OolInvariance, PTL DEF Spec

\* vm's assertions hold (`ASSERT(task->in_use)' in task_lookup, and that its own
\* payloads are genuine) as long as no task exits that is sent payloads.
THEOREM VmSurvives ==
    ASSUME OolConstants, Undying
    PROVE  Spec => []VmLives
<1>1. OolLive => VmLives
  BY DEF OolLive, VmLives
<1> QED BY <1>1, LiveInvariance, PTL

-----------------------------------------------------------------------------
(***************************************************************************)
(* Buffers and replies, when vm never runs out of pages.                   *)
(***************************************************************************)
\* Two tasks do not call each other, and a task whose calls are answered with
\* payloads is sent payloads by answers only.
Layered ==
    /\ \A c, s \in All : <<c, s>> \in Calls => <<s, c>> \notin Calls
    /\ \A c, s, x \in Tasks : <<c, s>> \in Calls /\ <<s, c>> \in OolTo /\ <<x, c>> \in OolTo
                                => <<x, c>> \notin Calls \cup Sends

\* c waits for the answer of s.
Serving(s, c) == pc[c] = "recv" /\ op[c].kind = "call" /\ op[c].peer = s

Waited(d) == ool_sender_queue[d] # <<>> => ool_buf[d] = NULL

\* A task that has a buffer has registered it, received into it, or is about to
\* register it; a task that will receive has one.
Armed(t) ==
    /\ ool_ptr[t] # NULL => \/ ool_buf[t] # NULL \/ received_ool[t] # NotReceived
                            \/ t \in Tasks /\ pc[t] = "reg"
    /\ t \in Tasks /\ pc[t] \in {"copy", "send", "recv"} /\ NeedsBuffer(op[t])
         => ool_ptr[t] # NULL

\* Where an operation comes from.
Calling(t) ==
    /\ op[t].kind = "reply" => op[t].peer \in Tasks
    /\ pc[t] \in {"reg", "copy", "send", "recv"} =>
         /\ op[t].kind = "call" => <<t, op[t].peer>> \in Calls
         /\ op[t].kind = "send" => t \notin Servers /\ <<t, op[t].peer>> \in Sends
         /\ op[t].kind = "reply" => client[t] = op[t].peer
         /\ op[t].kind # "none"

\* The client of a server waits for the server's answer.
Served(s) ==
    /\ client[s] # NULL => Serving(s, client[s])
    /\ pc[s] = "verify" /\ op[s].kind = "recv" /\ msg[s].kind = "call"
         => Serving(s, msg[s].peer)

\* A payload for a task whose calls are answered with payloads is an answer that
\* is on its way.
Answered(c) ==
    /\ received_ool[c] # NotReceived
    /\ \E s \in Tasks : <<c, s>> \in Calls /\ <<s, c>> \in OolTo
    /\ pc[c] # "verify"
    => LET x == received_ool[c].from
       IN  pc[x] = "send" /\ op[x].kind = "reply" /\ op[x].peer = c /\ op[x].ool

OolWaits == \A d \in All : Waited(d)

OolTidy ==
    /\ \A x \in All : Armed(x)
    /\ \A t \in Tasks : Calling(t) /\ Served(t) /\ Answered(t)

LEMMA TidyInit == Init => OolTidy
<1> SUFFICES ASSUME Init PROVE OolTidy
  OBVIOUS
<1>1. /\ \A x \in All : ool_sender_queue[x] = <<>> /\ ool_buf[x] = ool_ptr[x]
      /\ \A x \in All : received_ool[x] = NotReceived
      /\ \A t \in Tasks : /\ t \in All /\ pc[t] = "idle" /\ client[t] = NULL
                          /\ op[t].kind # "reply"
  BY DEF Init, All, NoOp
<1>2. \A x \in All : Armed(x)
  BY <1>1 DEF Armed
<1>3. \A t \in Tasks : Calling(t) /\ Served(t) /\ Answered(t)
  BY <1>1 DEF Calling, Served, Answered
<1> QED BY <1>2, <1>3 DEF OolTidy

\* The client of a server is a task, and not the server itself.
LEMMA ServingFacts ==
    ASSUME OolConstants, OolInv, OolTidy, Layered, NEW s \in Tasks, NEW c \in Tasks,
           Serving(s, c)
    PROVE  c # s /\ <<c, s>> \in Calls /\ s \in Servers /\ pc[c] = "recv"
<1>1. <<c, s>> \in Calls /\ c \in All /\ s \in All /\ pc[c] = "recv"
  BY DEF Serving, OolTidy, Calling, All
<1>2. c # s
  BY <1>1 DEF Layered
<1> QED BY <1>1, <1>2 DEF Servers

LEMMA EnterTidy ==
    ASSUME OolConstants, OolInv, OolTidy, NEW t \in Tasks, pc[t] \in {"idle", "serve"},
           NEW o \in Ops, Enter(t, o), UNCHANGED client, o.kind # "none",
           o.kind = "call" => <<t, o.peer>> \in Calls,
           o.kind = "send" => t \notin Servers /\ <<t, o.peer>> \in Sends,
           o.kind = "reply" => client[t] = o.peer /\ o.peer \in Tasks
    PROVE  OolTidy'
<1>1. /\ \A x \in Tasks : x # t => op'[x] = op[x] /\ pc'[x] = pc[x]
      /\ op'[t] = o /\ pc'[t] \in {"reg", "recv", "copy", "send"}
      /\ \A x \in All : x # t => ool_ptr'[x] = ool_ptr[x]
      /\ \/ /\ ool_ptr[t] = NULL /\ NeedsBuffer(o)
            /\ ool_ptr'[t] \in Bufs /\ pc'[t] = "reg"
         \/ /\ ool_ptr[t] # NULL \/ ~NeedsBuffer(o)
            /\ ool_ptr'[t] = ool_ptr[t] /\ pc'[t] = Registered(o)
  BY EnterEffect DEF OolInv
<1>2. UNCHANGED <<ool_buf, received_ool, ool_sender_queue, msg, client>>
  BY DEF Enter, vmvars
<1>3. ASSUME NEW x \in All PROVE Armed(x)'
  <2>1. Armed(x)
    BY DEF OolTidy
  <2>2. CASE x = t
    BY <1>1, <1>2, <2>1, <2>2 DEF Armed, Registered
  <2>3. CASE x # t
    BY <1>1, <1>2, <2>1, <2>3 DEF Armed
  <2> QED BY <2>2, <2>3
<1>4. ASSUME NEW x \in Tasks PROVE Calling(x)'
  BY <1>1, <1>2 DEF OolTidy, Calling
<1>5. ASSUME NEW x \in Tasks PROVE Served(x)'
  <2>1. \A c \in Tasks : Serving(x, c) => Serving(x, c)'
    BY <1>1 DEF Serving
  <2>2. client[x] \in Tasks \cup {NULL} /\ Served(x)
    BY DEF OolInv, OolTyped, OolTidy
  <2>3. pc'[x] = "verify" => pc[x] = "verify" /\ op'[x] = op[x] /\ msg[x].peer \in Tasks
    BY <1>1 DEF OolInv, Arrived
  <2> QED BY <1>2, <2>1, <2>2, <2>3 DEF Served
<1>6. ASSUME NEW x \in Tasks PROVE Answered(x)'
  <2>1. received_ool[x] \in [from : Tasks, buf : Bufs] \cup {NotReceived}
    BY DEF OolInv, OolTyped, All
  <2>2. received_ool[x] # NotReceived => received_ool[x].from \in Tasks
    BY <2>1
  <2>3. Answered(x)
    BY DEF OolTidy
  <2>4. \A y \in Tasks : pc[y] = "send" => pc'[y] = "send" /\ op'[y] = op[y]
    BY <1>1
  <2>5. pc'[x] # "verify" => pc[x] # "verify"
    BY <1>1
  <2> QED BY <1>2, <2>2, <2>3, <2>4, <2>5 DEF Answered
<1> QED BY <1>3, <1>4, <1>5, <1>6 DEF OolTidy

LEMMA IpcTidy ==
    ASSUME OolConstants, OolInv, OolTidy, NEW t \in Tasks,
           ipc_reply(t) \/ ipc_recv(t) \/ \E s \in All : ipc_call(t, s) \/ ipc_send(t, s)
    PROVE  OolTidy'
<1>1. CASE ipc_reply(t)
  <2>1. PICK p \in Payloads : Enter(t, Op("reply", t, client[t], p))
    BY <1>1 DEF ipc_reply
  <2>2. pc[t] = "serve" /\ UNCHANGED client
    BY <1>1 DEF ipc_reply
  <2>3. client[t] \in Tasks
    BY <2>2 DEF OolInv, OolTyped, Placed
  <2> DEFINE o == Op("reply", t, client[t], p)
  <2>4. /\ o \in Ops /\ o.kind = "reply" /\ o.peer = client[t]
        /\ o.kind # "none" /\ o.kind # "call" /\ o.kind # "send"
    BY <2>3 DEF Op, Ops, All
  <2> HIDE DEF o
  <2>5. Enter(t, o)
    BY <2>1 DEF o
  <2> QED BY <2>2, <2>3, <2>4, <2>5, EnterTidy
<1>2. CASE ipc_recv(t)
  <2> DEFINE o == Op("recv", t, ANY, NULL)
  <2>1. /\ o \in Ops /\ o.kind # "none"
        /\ o.kind # "call" /\ o.kind # "send" /\ o.kind # "reply"
    BY DEF Op, Ops
  <2>2. Enter(t, o) /\ pc[t] = "idle" /\ UNCHANGED client
    BY <1>2 DEF ipc_recv
  <2> HIDE DEF o
  <2> QED BY <2>1, <2>2, EnterTidy
<1>3. ASSUME NEW s \in All, ipc_call(t, s) PROVE OolTidy'
  <2>1. PICK p \in Payloads : Enter(t, Op("call", t, s, p))
    BY <1>3 DEF ipc_call
  <2> DEFINE o == Op("call", t, s, p)
  <2>2. o \in Ops /\ o.kind = "call" /\ o.peer = s
    BY DEF Op, Ops
  <2>3. Enter(t, o) /\ pc[t] \in {"idle", "serve"} /\ UNCHANGED client /\ <<t, s>> \in Calls
    BY <1>3, <2>1 DEF ipc_call
  <2> HIDE DEF o
  <2> QED BY <2>2, <2>3, EnterTidy
<1>4. ASSUME NEW s \in All, ipc_send(t, s) PROVE OolTidy'
  <2>1. PICK p \in Payloads : Enter(t, Op("send", t, s, p))
    BY <1>4 DEF ipc_send
  <2> DEFINE o == Op("send", t, s, p)
  <2>2. o \in Ops /\ o.kind = "send" /\ o.peer = s
    BY DEF Op, Ops
  <2>3. /\ Enter(t, o) /\ pc[t] = "idle" /\ UNCHANGED client
        /\ t \notin Servers /\ <<t, s>> \in Sends
    BY <1>4, <2>1 DEF ipc_send
  <2> HIDE DEF o
  <2> QED BY <2>2, <2>3, EnterTidy
<1> QED BY <1>1, <1>2, <1>3, <1>4

LEMMA DeliverTidy ==
    ASSUME OolConstants, OolInv, OolTidy, Layered, NEW s \in Tasks, NEW d \in Tasks,
           Deliver(s, d)
    PROVE  OolTidy'
<1>1. /\ pc[s] = "send" /\ pc[d] = "recv" /\ op[s].peer = d /\ op[s].kind # "recv"
      /\ msg'[d].peer = s /\ msg'[d].kind = op[s].kind
      /\ \A x \in Tasks : x # d => msg'[x] = msg[x]
      /\ pc'[s] = IF op[s].kind = "call" THEN "recv" ELSE "idle"
      /\ pc'[d] = IF op[s].ool THEN "verify" ELSE Return(d, op[d])
      /\ \A x \in Tasks : x # s /\ x # d => pc'[x] = pc[x] /\ client'[x] = client[x]
      /\ client'[s] = IF op[s].kind = "reply" THEN NULL ELSE client[s]
      /\ client'[d] = IF op[s].ool THEN client[d] ELSE ClientAfter(d, op[d])
      /\ UNCHANGED <<vmvars, ool_ptr, mem, op>>
  BY SMTT(30), DeliverEffect
<1>2. UNCHANGED <<ool_buf, received_ool, ool_sender_queue, ool_ptr, op>>
  BY <1>1 DEF vmvars
<1>3. /\ Return(d, op[d]) \in {"idle", "serve"} /\ s # d
      /\ op[d].kind = "recv" \/ op[d].peer = s
  BY <1>1 DEF Return, Deliver, Ready
<1>4. ASSUME NEW x \in All PROVE Armed(x)'
  <2>1. Armed(x)
    BY DEF OolTidy
  <2>2. x \in Tasks /\ pc'[x] \in {"copy", "send", "recv"} => pc[x] \in {"copy", "send", "recv"}
    BY <1>1, <1>3
  <2>3. x \in Tasks /\ pc[x] = "reg" => pc'[x] = "reg"
    BY <1>1
  <2> QED BY <1>2, <2>1, <2>2, <2>3 DEF Armed
<1>5. ASSUME NEW x \in Tasks PROVE Calling(x)'
  <2>1. Calling(x)
    BY DEF OolTidy
  <2>2. CASE x = s
    BY <1>1, <1>2, <2>1, <2>2 DEF Calling
  <2>3. CASE x = d
    BY <1>1, <1>3, <2>3 DEF Calling
  <2>4. CASE x # s /\ x # d
    BY <1>1, <1>2, <2>1, <2>4 DEF Calling
  <2> QED BY <2>2, <2>3, <2>4
<1>6. ASSUME NEW x \in Tasks, NEW c \in Tasks, Serving(x, c)
      PROVE  Serving(x, c)' \/ (x = s /\ c = d /\ op[s].kind = "reply")
  <2>1. c # x /\ <<c, x>> \in Calls /\ x \in Servers /\ pc[c] = "recv"
    BY <1>6, ServingFacts
  <2>2. CASE c # d
    BY <1>1, <1>2, <1>6, <2>1, <2>2 DEF Serving
  <2>3. CASE c = d
    <3>1. x = s
      BY <1>3, <1>6, <2>3 DEF Serving
    <3>2. Calling(s) /\ op[s].kind \in {"none", "call", "send", "reply", "recv"}
      BY DEF OolTidy, OolInv, OolTyped, Ops
    <3>3. op[s].kind = "reply"
      <4>1. op[s].kind # "call"
        BY <1>1, <2>1, <2>3, <3>1, <3>2 DEF Calling, Layered, All
      <4>2. op[s].kind # "send"
        BY <1>1, <2>1, <3>1, <3>2 DEF Calling
      <4> QED BY <1>1, <3>2, <4>1, <4>2 DEF Calling
    <3> QED BY <2>3, <3>1, <3>3
  <2> QED BY <2>2, <2>3
<1>7. ASSUME NEW x \in Tasks PROVE Served(x)'
  <2>1. client[x] \in Tasks \cup {NULL} /\ Served(x)
    BY DEF OolInv, OolTyped, OolTidy
  <2>2. pc[x] = "verify" => msg[x].peer \in Tasks
    BY DEF OolInv, Arrived
  <2>3. op[s].kind = "call" => Serving(d, s)'
    BY <1>1, <1>2 DEF Serving
  <2>4. CASE x = s
    <3>1. pc'[s] # "verify"
      BY <1>1
    <3>2. \A c \in Tasks : client'[s] = c => client[s] = c /\ op[s].kind # "reply" /\ Serving(s, c)
      <4>1. NULL \notin Tasks
        BY DEF OolConstants, All
      <4>2. \A c \in Tasks : client'[s] = c => client[s] = c /\ op[s].kind # "reply"
        BY <1>1, <4>1
      <4> QED BY <2>1, <2>4, <4>1, <4>2 DEF Served
    <3>3. \A c \in Tasks : client'[s] = c => Serving(s, c)'
      BY <1>6, <3>2
    <3>4. client'[s] \in Tasks \cup {NULL}
      BY <1>1, <2>1, <2>4
    <3> QED BY <2>4, <3>1, <3>3, <3>4 DEF Served
  <2>5. CASE x = d
    <3>1. \A c \in Tasks : client[d] = c => Serving(d, c)'
      <4>1. \A c \in Tasks : client[d] = c => Serving(d, c)
        BY <2>1, <2>5 DEF Served, OolConstants, All
      <4> QED BY <1>3, <1>6, <4>1
    <3>2. client'[d] \in {NULL, client[d]} \/ (client'[d] = s /\ op[s].kind = "call")
      BY <1>1, <1>3 DEF ClientAfter
    <3>3. client'[d] # NULL => \E c \in Tasks : client'[d] = c /\ Serving(d, c)'
      BY <2>1, <2>3, <2>5, <3>1, <3>2
    <3>4. pc'[d] = "verify" /\ op'[d].kind = "recv" /\ msg'[d].kind = "call"
            => msg'[d].peer = s /\ Serving(d, s)'
      BY <1>1, <2>3
    <3> QED BY <2>5, <3>3, <3>4 DEF Served
  <2>6. CASE x # s /\ x # d
    <3>1. \A c \in Tasks : Serving(x, c) => Serving(x, c)'
      BY <1>6, <2>6
    <3> QED BY <1>1, <1>2, <2>1, <2>2, <2>6, <3>1 DEF Served
  <2> QED BY <2>4, <2>5, <2>6
<1>8. ASSUME NEW x \in Tasks PROVE Answered(x)'
  <2>1. received_ool[x] \in [from : Tasks, buf : Bufs] \cup {NotReceived} /\ Answered(x)
    BY DEF OolInv, OolTyped, All, OolTidy
  <2>2. received_ool[x] # NotReceived => received_ool[x].from \in Tasks
    BY <2>1
  <2>3. pc[x] = "verify" => pc'[x] = "verify"
    BY <1>1
  <2>4. ASSUME NEW y \in Tasks, pc[y] = "send", op[y].peer = x, op[y].ool, pc'[x] # "verify"
        PROVE  pc'[y] = "send"
    <3>1. y # d /\ y # s
      BY <1>1, <2>4
    <3> QED BY <1>1, <2>4, <3>1
  <2> QED BY <1>2, <2>1, <2>2, <2>3, <2>4 DEF Answered
<1> QED BY <1>4, <1>5, <1>7, <1>8 DEF OolTidy

\* An answer for x is still on its way, or has been claimed.
LEMMA AnsweredKept ==
    ASSUME NEW x \in Tasks, Answered(x),
           received_ool[x] \in [from : Tasks, buf : Bufs] \cup {NotReceived},
           received_ool'[x] \in {received_ool[x], NotReceived},
           \A y \in Tasks : pc[y] = "send" /\ op[y].kind = "reply" /\ op[y].peer = x /\ op[y].ool
                           => pc'[y] = "send" /\ op'[y] = op[y],
           pc[x] = "verify" => pc'[x] = "verify" \/ received_ool'[x] = NotReceived
    PROVE  Answered(x)'
<1>1. received_ool[x] # NotReceived => received_ool[x].from \in Tasks
  OBVIOUS
<1> QED BY SMTT(30), <1>1 DEF Answered

\* A task returns from its operation or exits.
LEMMA LeavesTidy ==
    ASSUME OolConstants, OolInv, OolTidy, NEW t \in Tasks,
           pc[t] \notin {"reg", "recv"}, pc'[t] \in {"idle", "serve", "dead"},
           \A x \in Tasks : x # t => /\ pc'[x] = pc[x] /\ client'[x] = client[x]
                                     /\ msg'[x] = msg[x],
           client'[t] # NULL => \E c \in Tasks : client'[t] = c /\ Serving(t, c),
           \A x \in All : \/ received_ool'[x] = received_ool[x] /\ ool_ptr'[x] = ool_ptr[x]
                          \/ /\ x = t \/ x \notin Tasks
                             /\ received_ool'[x] = NotReceived /\ ool_ptr'[x] = NULL,
           pc[t] = "verify" => received_ool'[t] = NotReceived,
           pc[t] = "send" /\ op[t].kind = "reply" /\ op[t].ool => op[t].peer \notin Tasks,
           UNCHANGED <<ool_buf, op>>
    PROVE  OolTidy'
<1>1. ASSUME NEW x \in All PROVE Armed(x)'
  <2>1. Armed(x)
    BY DEF OolTidy
  <2>2. x \in Tasks /\ pc'[x] \in {"copy", "send", "recv"} => x # t /\ pc'[x] = pc[x]
    OBVIOUS
  <2>3. x \in Tasks /\ pc[x] = "reg" => pc'[x] = "reg"
    OBVIOUS
  <2>4. CASE received_ool'[x] = received_ool[x] /\ ool_ptr'[x] = ool_ptr[x]
    BY <2>1, <2>2, <2>3, <2>4 DEF Armed
  <2>5. CASE (x = t \/ x \notin Tasks) /\ ool_ptr'[x] = NULL
    BY <2>2, <2>5 DEF Armed
  <2> QED BY <2>4, <2>5
<1>2. ASSUME NEW x \in Tasks PROVE Calling(x)'
  BY DEF OolTidy, Calling
<1>3. ASSUME NEW x \in Tasks PROVE Served(x)'
  <2>1. \A c \in Tasks : Serving(x, c) => Serving(x, c)'
    BY DEF Serving
  <2>2. client[x] \in Tasks \cup {NULL} /\ Served(x)
    BY DEF OolInv, OolTyped, OolTidy
  <2>3. pc'[x] = "verify" => x # t /\ pc[x] = "verify" /\ msg[x].peer \in Tasks
    BY DEF OolInv, Arrived
  <2>4. client'[x] # NULL => \E c \in Tasks : client'[x] = c /\ Serving(x, c)
    BY <2>2 DEF Served
  <2> QED BY <2>1, <2>2, <2>3, <2>4 DEF Served
<1>4. ASSUME NEW x \in Tasks PROVE Answered(x)'
  <2>1. received_ool[x] \in [from : Tasks, buf : Bufs] \cup {NotReceived} /\ Answered(x)
    BY DEF OolInv, OolTyped, All, OolTidy
  <2>3. received_ool'[x] \in {received_ool[x], NotReceived}
    BY DEF All
  <2>4. \A y \in Tasks : pc[y] = "send" /\ op[y].kind = "reply" /\ op[y].peer = x /\ op[y].ool
                           => pc'[y] = "send" /\ op'[y] = op[y]
    BY SMTT(30)
  <2>5. pc[x] = "verify" => pc'[x] = "verify" \/ received_ool'[x] = NotReceived
    OBVIOUS
  <2> QED BY <2>1, <2>3, <2>4, <2>5, AnsweredKept
<1> QED BY <1>1, <1>2, <1>3, <1>4 DEF OolTidy

LEMMA ClientWaits ==
    ASSUME OolInv, OolTidy, NEW t \in Tasks, client[t] # NULL
    PROVE  \E c \in Tasks : client[t] = c /\ Serving(t, c)
BY DEF OolInv, OolTyped, OolTidy, Served

LEMMA SendFailsTidy ==
    ASSUME OolConstants, OolInv, OolLive, OolTidy, NEW t \in Tasks, SendFails(t)
    PROVE  OolTidy'
<1>1. /\ pc[t] = "send" /\ op[t].peer # VM
      /\ (op[t].kind = "reply" /\ ~Ready(t, op[t].peer)) \/ ~in_use[op[t].peer]
      /\ UNCHANGED <<vmvars, ool_ptr, op, msg>>
  BY DEF SendFails
<1>2. /\ pc'[t] \in {"idle", "serve", "dead"}
      /\ \A x \in Tasks : x # t => pc'[x] = pc[x] /\ client'[x] = client[x]
      /\ client'[t] \in {NULL, client[t]}
  BY DEF SendFails, OolInv, OolTyped
<1>3. client'[t] # NULL => \E c \in Tasks : client'[t] = c /\ Serving(t, c)
  BY <1>2, ClientWaits
<1>4. ASSUME op[t].kind = "reply", op[t].ool PROVE FALSE
  <2>1. in_use[op[t].peer] /\ op[t].peer \in All
    BY <1>1, <1>4 DEF OolInv, Placed, OolLive
  <2>2. client[t] = op[t].peer
    BY <1>1, <1>4 DEF OolTidy, Calling
  <2>3. client[t] # NULL
    BY <2>1, <2>2 DEF OolConstants
  <2>4. Ready(t, op[t].peer)
    BY SMTT(30), <2>2, <2>3, ClientWaits DEF Serving, Ready
  <2> QED BY <1>1, <2>1, <2>4
<1>5. UNCHANGED <<received_ool, ool_ptr, ool_buf, op, msg>>
  BY <1>1 DEF vmvars
<1>6. \A x \in Tasks : x # t => pc'[x] = pc[x] /\ client'[x] = client[x] /\ msg'[x] = msg[x]
  BY <1>2, <1>5
<1>7. pc[t] \notin {"reg", "recv"} /\ pc[t] # "verify"
  BY <1>1
<1>8. \A x \in All : \/ received_ool'[x] = received_ool[x] /\ ool_ptr'[x] = ool_ptr[x]
                     \/ /\ x = t \/ x \notin Tasks
                        /\ received_ool'[x] = NotReceived /\ ool_ptr'[x] = NULL
  BY <1>5
<1> QED BY <1>2, <1>3, <1>4, <1>5, <1>6, <1>7, <1>8, LeavesTidy

LEMMA ExitTidy ==
    ASSUME OolConstants, OolInv, OolTidy, NEW t \in Tasks, Exit(t)
    PROVE  OolTidy'
<1>1. /\ pc[t] \in {"idle", "serve"} /\ pc' = [pc EXCEPT ![t] = "dead"]
      /\ UNCHANGED <<ool_buf, received_ool, ool_ptr, op, msg, client>>
  BY DEF Exit, taskvars
<1>2. pc'[t] = "dead" /\ \A x \in Tasks : x # t => pc'[x] = pc[x]
  BY <1>1 DEF OolInv, OolTyped
<1>3. client'[t] # NULL => \E c \in Tasks : client'[t] = c /\ Serving(t, c)
  BY <1>1, ClientWaits
<1>4. pc[t] \notin {"reg", "recv", "verify", "send"} /\ pc'[t] \in {"idle", "serve", "dead"}
  BY <1>1, <1>2
<1>5. /\ \A x \in Tasks : x # t => pc'[x] = pc[x] /\ client'[x] = client[x] /\ msg'[x] = msg[x]
      /\ \A x \in All : \/ received_ool'[x] = received_ool[x] /\ ool_ptr'[x] = ool_ptr[x]
                        \/ /\ x = t \/ x \notin Tasks
                           /\ received_ool'[x] = NotReceived /\ ool_ptr'[x] = NULL
  BY <1>1, <1>2
<1> QED BY <1>1, <1>3, <1>4, <1>5, LeavesTidy

LEMMA VerifyTidy ==
    ASSUME OolConstants, OolInv, OolTidy, NEW d \in Tasks, handle_ool_verify(d)
    PROVE  OolTidy'
<1>1. /\ pc[d] = "verify" /\ Arrived(d) /\ d \in All
      /\ received_ool'[d] = NotReceived /\ ool_ptr'[d] = NULL
      /\ pc'[d] = Return(d, op[d]) /\ client'[d] = ClientAfter(d, op[d])
      /\ \A x \in All : x # d => /\ received_ool'[x] = received_ool[x]
                                 /\ ool_ptr'[x] = ool_ptr[x]
      /\ \A x \in Tasks : x # d => pc'[x] = pc[x] /\ client'[x] = client[x]
      /\ UNCHANGED <<ool_buf, op, msg>>
  BY VerifyEffect
<1>2. pc'[d] \in {"idle", "serve", "dead"}
  BY <1>1 DEF Return
<1>3. client'[d] # NULL => \E c \in Tasks : client'[d] = c /\ Serving(d, c)
  <2>1. CASE op[d].kind = "recv" /\ msg[d].kind = "call"
    <3>1. Serving(d, msg[d].peer) /\ msg[d].peer \in Tasks /\ client'[d] = msg[d].peer
      BY <1>1, <2>1 DEF OolTidy, Served, Arrived, ClientAfter
    <3> QED BY <3>1
  <2>2. CASE ~(op[d].kind = "recv" /\ msg[d].kind = "call")
    <3>1. client'[d] \in {NULL, client[d]}
      BY <1>1, <2>2 DEF ClientAfter
    <3> QED BY <3>1, ClientWaits
  <2> QED BY <2>1, <2>2
<1>4. /\ \A x \in Tasks : x # d => pc'[x] = pc[x] /\ client'[x] = client[x] /\ msg'[x] = msg[x]
      /\ \A x \in All : \/ received_ool'[x] = received_ool[x] /\ ool_ptr'[x] = ool_ptr[x]
                        \/ /\ x = d \/ x \notin Tasks
                           /\ received_ool'[x] = NotReceived /\ ool_ptr'[x] = NULL
  BY <1>1
<1>5. pc[d] \notin {"reg", "recv", "send"}
  BY <1>1
<1> QED BY <1>1, <1>2, <1>3, <1>4, <1>5, LeavesTidy

LEMMA VmServesTidy ==
    ASSUME OolConstants, OolInv, OolTidy, NEW c \in Tasks, VmServes(c)
    PROVE  OolTidy'
<1>1. /\ pc[c] = "send" /\ op[c].peer = VM /\ VM \in All /\ VM \notin Tasks
      /\ \A x \in Tasks : x # c => msg'[x] = msg[x]
      /\ \/ UNCHANGED <<received_ool, ool_ptr>>
         \/ /\ received_ool' = [received_ool EXCEPT ![VM] = NotReceived]
            /\ ool_ptr' = [ool_ptr EXCEPT ![VM] = NULL]
      /\ pc'[c] \in {"idle", "serve"}
      /\ \A x \in Tasks : x # c => pc'[x] = pc[x]
      /\ UNCHANGED <<ool_buf, op, client>>
  BY VmServesEffect
<1>2. \A x \in All : \/ received_ool'[x] = received_ool[x] /\ ool_ptr'[x] = ool_ptr[x]
                     \/ /\ x = c \/ x \notin Tasks
                        /\ received_ool'[x] = NotReceived /\ ool_ptr'[x] = NULL
  BY <1>1 DEF OolInv, OolTyped
<1>3. client'[c] # NULL => \E x \in Tasks : client'[c] = x /\ Serving(c, x)
  BY <1>1, ClientWaits
<1>4. /\ pc[c] \notin {"reg", "recv", "verify"} /\ pc'[c] \in {"idle", "serve", "dead"}
      /\ \A x \in Tasks : x # c => pc'[x] = pc[x] /\ client'[x] = client[x] /\ msg'[x] = msg[x]
      /\ op[c].peer \notin Tasks
  BY <1>1
<1> QED BY <1>1, <1>2, <1>3, <1>4, LeavesTidy

\* With pages for everybody a copy succeeds.
LEMMA CopySucceeds ==
    ASSUME Faulting = {}, NEW s, NEW d, NEW o \in CopyOutcomes(s, d)
    PROVE  o = "ok"
<1>1. CopyOutcomes(s, d) = {"ok"}
  BY DEF CopyOutcomes
<1> QED BY <1>1

LEMMA CopiesTidy ==
    ASSUME OolConstants, OolInv, OolTidy, Layered, NEW s \in Tasks, NEW d \in All,
           NEW b \in Bufs, Copies(s, d, b, "ok"), UNCHANGED <<msg, client>>
    PROVE  OolTidy'
<1>1. /\ pc[s] = "copy" /\ op[s].peer = d /\ pc'[s] = "send"
      /\ \A x \in Tasks : x # s => op'[x] = op[x]
      /\ op'[s].kind = op[s].kind /\ op'[s].peer = op[s].peer /\ op'[s].ool = op[s].ool
      /\ received_ool'[d] = [from |-> s, buf |-> b] /\ ool_ptr'[d] = b
      /\ \A x \in All : x # d => /\ received_ool'[x] = received_ool[x]
                                 /\ ool_buf'[x] = ool_buf[x] /\ ool_ptr'[x] = ool_ptr[x]
      /\ \A x \in Tasks : x # s =>
           pc'[x] = IF x = d /\ pc[d] = "reg" THEN Registered(op[d]) ELSE pc[x]
  BY DEF Copies, CopyTo
<1>2. \A x \in Tasks : /\ op'[x].kind = op[x].kind /\ op'[x].peer = op[x].peer
                       /\ op'[x].ool = op[x].ool
  BY <1>1
<1>3. /\ b # NULL /\ received_ool'[d] # NotReceived /\ received_ool'[d].from = s
      /\ Registered(op[d]) \in {"copy", "send", "recv"}
  <2>1. received_ool'[d].from = s /\ NotReceived.from \notin Tasks
    BY SMTT(30), <1>1 DEF NotReceived, OolConstants, All
  <2> QED BY <2>1 DEF OolConstants, Registered
<1>4. \A x \in Tasks : pc[x] \in {"send", "recv", "verify", "idle", "serve"} => pc'[x] = pc[x]
  BY <1>1
<1>5. \A x \in Tasks : /\ pc'[x] = "verify" => pc[x] = "verify"
                       /\ pc[x] = "reg" /\ x # d => pc'[x] = "reg"
                       /\ pc'[x] \in {"copy", "send", "recv"} =>
                            x = d \/ pc[x] \in {"copy", "send", "recv"}
                       /\ pc'[x] \in {"reg", "copy", "send", "recv"} =>
                            pc[x] \in {"reg", "copy", "send", "recv"}
  BY <1>1, <1>3
<1>6. ASSUME NEW x \in All PROVE Armed(x)'
  <2>1. CASE x = d
    BY <1>1, <1>3, <2>1 DEF Armed
  <2>2. CASE x # d
    <3>1. Armed(x)
      BY DEF OolTidy
    <3>2. x \in Tasks => NeedsBuffer(op[x])' = NeedsBuffer(op[x])
      BY <1>2 DEF NeedsBuffer
    <3>3. ool_ptr'[x] # NULL => \/ ool_buf'[x] # NULL \/ received_ool'[x] # NotReceived
                                \/ x \in Tasks /\ pc'[x] = "reg"
      BY <1>1, <1>5, <2>2, <3>1 DEF Armed
    <3>4. x \in Tasks /\ pc'[x] \in {"copy", "send", "recv"} /\ NeedsBuffer(op[x])'
            => ool_ptr'[x] # NULL
      BY <1>1, <1>5, <2>2, <3>1, <3>2 DEF Armed
    <3> QED BY <3>3, <3>4 DEF Armed
  <2> QED BY <2>1, <2>2
<1>7. ASSUME NEW x \in Tasks PROVE Calling(x)'
  BY <1>2, <1>5 DEF OolTidy, Calling
<1>8. ASSUME NEW x \in Tasks PROVE Served(x)'
  <2>1. \A c \in Tasks : Serving(x, c) => Serving(x, c)'
    BY <1>2, <1>4 DEF Serving
  <2>2. client[x] \in Tasks \cup {NULL} /\ Served(x)
    BY DEF OolInv, OolTyped, OolTidy
  <2>3. pc'[x] = "verify" => pc[x] = "verify" /\ msg[x].peer \in Tasks
    BY <1>5 DEF OolInv, Arrived
  <2>4. op'[x].kind = op[x].kind
    BY <1>2
  <2> QED BY <2>1, <2>2, <2>3, <2>4 DEF Served
<1>9. ASSUME NEW x \in Tasks PROVE Answered(x)'
  <2>1. CASE x = d
    <3>1. ASSUME NEW u \in Tasks, <<d, u>> \in Calls, <<u, d>> \in OolTo
          PROVE  op[s].kind = "reply"
      <4>1. <<s, d>> \in OolTo /\ op[s].kind # "recv" /\ Calling(s) /\ op[s] \in Ops
        BY <1>1 DEF OolInv, OolTyped, Placed, OolTidy
      <4>2. <<s, d>> \notin Calls /\ <<s, d>> \notin Sends
        BY <2>1, <3>1, <4>1 DEF Layered
      <4>3. op[s].kind \in {"none", "call", "send", "reply", "recv"}
        BY <4>1 DEF Ops
      <4> QED BY <1>1, <4>1, <4>2, <4>3 DEF Calling
    <3>2. op[s].ool
      BY <1>1 DEF OolInv, Placed
    <3> QED BY <1>1, <1>2, <1>3, <2>1, <3>1, <3>2 DEF Answered
  <2>2. CASE x # d
    <3>1. received_ool[x] \in [from : Tasks, buf : Bufs] \cup {NotReceived} /\ Answered(x)
      BY DEF OolInv, OolTyped, All, OolTidy
    <3>2. \A y \in Tasks : pc[y] = "send" => y # s /\ pc'[y] = "send" /\ op'[y] = op[y]
      BY <1>1, <1>4
    <3>3. received_ool'[x] = received_ool[x]
      BY <1>1, <2>2 DEF All
    <3>4. pc[x] = "verify" => pc'[x] = "verify"
      BY <1>4
    <3> QED BY <3>1, <3>2, <3>3, <3>4, AnsweredKept
  <2> QED BY <2>1, <2>2
<1> QED BY <1>6, <1>7, <1>8, <1>9 DEF OolTidy

LEMMA RegistersTidy ==
    ASSUME OolConstants, OolInv, OolTidy, NEW d \in All, NEW b \in Bufs,
           Registers(d, b), UNCHANGED <<msg, client>>
    PROVE  OolTidy'
<1>1. /\ ool_buf'[d] = b /\ ool_ptr'[d] = b /\ b # NULL
      /\ \A x \in All : x # d => ool_buf'[x] = ool_buf[x] /\ ool_ptr'[x] = ool_ptr[x]
      /\ d \in Tasks => pc[d] = "reg" /\ pc'[d] \in {"copy", "send", "recv"}
      /\ \A x \in Tasks : x # d => pc'[x] = pc[x]
      /\ UNCHANGED <<received_ool, op>>
  BY DEF Registers, Registered, OolConstants
<1>2. \A x \in Tasks : pc[x] \in {"send", "recv", "verify"} => pc'[x] = pc[x]
  BY <1>1
<1>3. ASSUME NEW x \in All PROVE Armed(x)'
  <2>1. Armed(x)
    BY DEF OolTidy
  <2>2. CASE x = d
    BY <1>1, <2>2 DEF Armed
  <2>3. CASE x # d
    BY <1>1, <2>1, <2>3 DEF Armed
  <2> QED BY <2>2, <2>3
<1>4. ASSUME NEW x \in Tasks PROVE Calling(x)'
  BY <1>1 DEF OolTidy, Calling
<1>5. ASSUME NEW x \in Tasks PROVE Served(x)'
  <2>1. \A c \in Tasks : Serving(x, c) => Serving(x, c)'
    BY <1>1, <1>2 DEF Serving
  <2>2. client[x] \in Tasks \cup {NULL} /\ Served(x)
    BY DEF OolInv, OolTyped, OolTidy
  <2>3. pc'[x] = "verify" => pc[x] = "verify" /\ msg[x].peer \in Tasks
    BY <1>1 DEF OolInv, Arrived
  <2> QED BY <1>1, <2>1, <2>2, <2>3 DEF Served
<1>6. ASSUME NEW x \in Tasks PROVE Answered(x)'
  <2>1. received_ool[x] \in [from : Tasks, buf : Bufs] \cup {NotReceived} /\ Answered(x)
    BY DEF OolInv, OolTyped, All, OolTidy
  <2>2. received_ool[x] # NotReceived => received_ool[x].from \in Tasks
    BY <2>1
  <2> QED BY <1>1, <1>2, <2>1, <2>2 DEF Answered
<1> QED BY <1>3, <1>4, <1>5, <1>6 DEF OolTidy

LEMMA SameTidy ==
    ASSUME OolTidy, UNCHANGED <<ool_buf, received_ool, pc, op, ool_ptr, msg, client>>
    PROVE  OolTidy'
<1>1. ASSUME NEW x \in All PROVE Armed(x)'
  <2>1. Armed(x)
    BY DEF OolTidy
  <2> QED BY <2>1 DEF Armed, NeedsBuffer
<1>2. ASSUME NEW x \in Tasks PROVE Calling(x)' /\ Served(x)' /\ Answered(x)'
  <2>1. Calling(x) /\ Served(x) /\ Answered(x)
    BY DEF OolTidy
  <2>2. Calling(x)'
    BY <2>1 DEF Calling
  <2>3. Served(x)'
    BY <2>1 DEF Served, Serving
  <2>4. Answered(x)'
    BY <2>1 DEF Answered
  <2> QED BY <2>2, <2>3, <2>4
<1> QED BY <1>1, <1>2 DEF OolTidy

LEMMA HandsTidy ==
    ASSUME OolConstants, OolInv, OolLive, OolTidy, Layered, Faulting = {}, Hands
    PROVE  OolTidy'
<1>1. Handed /\ UNCHANGED <<msg, client>>
  BY HandsEffect
<1>2. ASSUME NEW s \in Tasks, NEW d \in All, Enqueues(s, d) PROVE OolTidy'
  <2>1. UNCHANGED <<ool_buf, received_ool, pc, op, ool_ptr, msg, client>>
    BY <1>1, <1>2 DEF Enqueues
  <2> QED BY <2>1, SameTidy
<1>3. ASSUME NEW d \in All, NEW b \in Bufs, Registers(d, b) PROVE OolTidy'
  BY <1>1, <1>3, RegistersTidy
<1>4. ASSUME NEW s \in Tasks, NEW d \in All, NEW b \in Bufs, NEW o \in CopyOutcomes(s, d),
             Copies(s, d, b, o)
      PROVE  OolTidy'
  <2>1. Copies(s, d, b, "ok")
    BY <1>4, CopySucceeds
  <2> QED BY <1>1, <2>1, CopiesTidy
<1> QED BY <1>1, <1>2, <1>3, <1>4 DEF Handed

LEMMA TidyStep ==
    ASSUME OolConstants, OolInv, OolLive, OolTidy, Layered, Faulting = {}, [Next]_vars
    PROVE  OolTidy'
<1>1. CASE UNCHANGED vars
  <2>1. UNCHANGED <<ool_buf, received_ool, pc, op, ool_ptr, msg, client>>
    BY <1>1 DEF vars, vmvars, taskvars
  <2> QED BY <2>1, SameTidy
<1>2. ASSUME NEW t \in Tasks, Others(t) PROVE OolTidy'
  BY <1>2, IpcTidy, DeliverTidy, SendFailsTidy, VerifyTidy, VmServesTidy, ExitTidy
     DEF Others, TaskStep
<1> QED BY <1>1, <1>2, NextCases, HandsTidy

\* Only the steps of Hands touch a queue or a registered buffer.
LEMMA WaitsStep ==
    ASSUME OolConstants, OolInv, OolLive, OolWaits, Faulting = {}, [Next]_vars
    PROVE  OolWaits'
<1>1. CASE UNCHANGED <<ool_buf, ool_sender_queue>>
  BY <1>1 DEF OolWaits, Waited
<1>2. CASE UNCHANGED vars
  BY <1>1, <1>2 DEF vars, vmvars
<1>3. ASSUME NEW t \in Tasks, Others(t) PROVE OolWaits'
  <2>1. UNCHANGED <<ool_buf, ool_sender_queue>>
    BY <1>3 DEF Others, TaskStep, ipc_reply, ipc_recv, SendFails, Deliver, handle_ool_verify,
                VmServes, Exit, ipc_call, ipc_send, Enter, vmvars
  <2> QED BY <1>1, <2>1
<1>4. CASE Hands
  <2>1. Handed
    BY <1>4, HandsEffect
  <2>2. ASSUME NEW s \in Tasks, NEW d \in All, Enqueues(s, d) PROVE OolWaits'
    BY <2>2 DEF Enqueues, OolWaits, Waited
  <2>3. ASSUME NEW d \in All, NEW b \in Bufs, Registers(d, b) PROVE OolWaits'
    BY <2>3 DEF Registers, OolWaits, Waited
  <2>4. ASSUME NEW s \in Tasks, NEW d \in All, NEW b \in Bufs, NEW o \in CopyOutcomes(s, d),
               Copies(s, d, b, o)
        PROVE  OolWaits'
    <3>1. /\ ool_buf'[d] = NULL
          /\ \A x \in All : x # d => ool_buf'[x] = ool_buf[x]
          /\ \A x \in All : ool_sender_queue[x] = <<>> => ool_sender_queue'[x] = <<>>
      BY <2>4, CopySucceeds DEF Copies, CopyTo
    <3> QED BY <3>1 DEF OolWaits, Waited
  <2> QED BY <2>1, <2>2, <2>3, <2>4 DEF Handed
<1> QED BY <1>2, <1>3, <1>4, NextCases

LEMMA WaitsInvariance ==
    ASSUME OolConstants, Undying, Faulting = {}
    PROVE  Spec => []OolWaits
<1>1. Init => OolWaits
  BY DEF Init, OolWaits, Waited
<1>2. OolInv /\ OolLive /\ OolWaits /\ [Next]_vars => OolWaits'
  BY WaitsStep
<1> QED BY <1>1, <1>2, LiveInvariance, PTL DEF Spec

\* With pages for everybody and receivers that stay, vm, the library, senders and
\* receivers always agree on every payload and its buffer, a sender waits in vm's
\* queue only while the receiver's buffer is taken, and no assertion of vm or of
\* the library (`ASSERT_OK' in ool_recv) fails.
THEOREM BuffersAgree ==
    ASSUME OolConstants, Undying, Faulting = {}
    PROVE  Spec => []BuffersRight
<1>1. OolInv /\ OolLive /\ OolWaits => BuffersRight
  <2> SUFFICES ASSUME OolInv, OolLive, OolWaits PROVE BuffersRight
    OBVIOUS
  <2>1. PayloadIntact /\ VmLives
    BY DEF OolInv, InFlight, Arrived, PayloadIntact, OolLive, VmLives
  <2>2. BufferOwned
    BY DEF OolInv, Buffered, OolLive, BufferOwned
  <2>3. QueuedSendersWait
    <3> SUFFICES ASSUME NEW d \in All, NEW s \in Range(ool_sender_queue[d])
                 PROVE  ool_buf[d] = NULL /\ pc[s] = "copy" /\ op[s].peer = d
      BY DEF QueuedSendersWait
    <3>1. ool_sender_queue[d] # <<>>
      BY SMTT(30) DEF Range
    <3>2. in_use[s] /\ Queued(d)
      BY DEF OolLive, OolInv
    <3> QED BY <3>1, <3>2 DEF OolWaits, Waited, Queued
  <2> QED BY <2>1, <2>2, <2>3 DEF BuffersRight
<1> QED BY <1>1, LiveInvariance, WaitsInvariance, PTL

\* If moreover two tasks do not call each other, and nobody sends payloads
\* unasked to a task that expects them as answers, then ipc_reply never waits for
\* a buffer of the client, which waits for the reply: the client has registered
\* one before its call.
THEOREM RepliesNeverWait ==
    ASSUME OolConstants, Undying, Faulting = {}, Layered
    PROVE  Spec => []ReplyNeverWaits
<1>1. OolInv /\ OolLive /\ OolWaits /\ OolTidy => ReplyNeverWaits
  <2> SUFFICES ASSUME OolInv, OolLive, OolWaits, OolTidy, NEW s \in Tasks, NEW c \in Tasks,
                      op[s].kind = "reply", op[s].peer = c, s \in Range(ool_sender_queue[c])
               PROVE  FALSE
    BY DEF ReplyNeverWaits, OolTidy, Calling
  <2>0. c \in All
    BY DEF All
  <2>1. c \in All /\ ool_sender_queue[c] # <<>> /\ in_use[s] /\ Queued(c)
    BY SMTT(30), <2>0 DEF Range, OolLive, OolInv
  <2>2. pc[s] = "copy" /\ op[s].ool /\ <<s, c>> \in OolTo /\ client[s] = c
    BY <2>1 DEF Queued, OolInv, Placed, OolTidy, Calling
  <2>3. Serving(s, c)
    BY <2>2 DEF OolTidy, Served, OolConstants, All
  <2>4. <<c, s>> \in Calls /\ pc[c] = "recv" /\ op[c].kind = "call"
    BY <2>3, ServingFacts DEF Serving
  <2>5. ool_ptr[c] # NULL
    BY <2>1, <2>4 DEF OolTidy, Armed, NeedsBuffer
  <2>6. received_ool[c] # NotReceived
    BY <2>1, <2>4, <2>5 DEF OolTidy, Armed, OolWaits, Waited
  <2> DEFINE x == received_ool[c].from
  <2>7. x \in Tasks
    BY <2>1, <2>6 DEF OolInv, OolTyped
  <2>8. pc[x] = "send" /\ op[x].kind = "reply" /\ op[x].peer = c
    BY <2>2, <2>4, <2>6 DEF OolTidy, Answered
  <2>9. client[x] = c
    BY <2>7, <2>8 DEF OolTidy, Calling
  <2>10. Serving(x, c)
    BY <2>7, <2>9 DEF OolTidy, Served, OolConstants, All
  <2>11. x = s
    BY <2>3, <2>10 DEF Serving
  <2> QED BY <2>2, <2>8, <2>11
<1>2. Init => OolTidy
  BY TidyInit
<1>3. OolInv /\ OolLive /\ OolTidy /\ [Next]_vars => OolTidy'
  BY TidyStep
<1> QED BY <1>1, <1>2, <1>3, LiveInvariance, WaitsInvariance, PTL DEF Spec
=============================================================================
