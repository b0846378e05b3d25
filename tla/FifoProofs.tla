------------------------------ MODULE FifoProofs ------------------------------
(***************************************************************************)
(* Proofs that what is queued arrives, once and in order: the asynchronous *)
(* messages of libresea (Async) and the packets in the rings of the e1000  *)
(* driver (E1000, as an instance).  What the constants are assumed to be   *)
(* is a hypothesis of each theorem.                                        *)
(***************************************************************************)
EXTENDS Async, QueueLemmas

USE ZenonT(10), SMTT(30)

-----------------------------------------------------------------------------
(***************************************************************************)
(* Asynchronous messages.                                                  *)
(***************************************************************************)
\* Task IDs are numbers, and there is a bucket.
AsyncConstants == NUM_BUCKETS \in Nat \ {0} /\ Dsts \subseteq Nat /\ MAX_SENT \in Nat

\* The messages that d has been sent and has not received.
Owed(d) == [i \in 1..(sent[d] - last[d]) |-> last[d] + i]

\* A mailbox per client that holds them.
owed == INSTANCE Mailbox WITH box <- [d \in Dsts |-> Owed(d)], Msgs <- 1..MAX_SENT

AsyncTyped ==
    /\ queues \in [0..(NUM_BUCKETS - 1) -> Seq([dst : Dsts, m : Nat])]
    /\ notified \subseteq Dsts
    /\ state \in [Dsts -> {"recv", "pull"}]
    /\ sent \in [Dsts -> 0..MAX_SENT] /\ last \in [Dsts -> Nat]
    /\ \A d \in Dsts : last[d] <= sent[d]

\* The messages of d in its bucket q are last[d] + 1 up to sent[d], in this order.
InOrder(q, d, from, to) ==
    /\ \A i \in DOMAIN q : q[i].dst = d => q[i].m \in (from + 1)..to
    /\ \A i, j \in DOMAIN q : q[i].dst = d /\ q[j].dst = d /\ i < j => q[i].m < q[j].m
    /\ \A k \in (from + 1)..to : \E i \in DOMAIN q : q[i].dst = d /\ q[i].m = k

\* A client that pulls has a message to get, one that has been notified (again)
\* has one more, and one that waits is notified if there is one.
Counted(d) ==
    /\ d \in notified /\ state[d] = "recv" => sent[d] - last[d] >= 1
    /\ d \notin notified /\ state[d] = "pull" => sent[d] - last[d] >= 1
    /\ d \in notified /\ state[d] = "pull" => sent[d] - last[d] >= 2
    /\ d \notin notified /\ state[d] = "recv" => sent[d] = last[d]

AsyncInv ==
    /\ AsyncTyped
    /\ \A d \in Dsts : InOrder(queues[Index(d)], d, last[d], sent[d])
    /\ \A d \in Dsts : Counted(d)

LEMMA IndexTyped ==
    ASSUME AsyncConstants, NEW d \in Dsts
    PROVE  Index(d) \in 0..(NUM_BUCKETS - 1)
<1>1. d \in Nat /\ NUM_BUCKETS \in Nat /\ NUM_BUCKETS > 0
  BY SMTT(30) DEF AsyncConstants
<1> QED BY SMTT(30), <1>1 DEF Index

LEMMA AsyncInitInv ==
    ASSUME AsyncConstants, Init
    PROVE  AsyncInv
<1>1. AsyncTyped
  BY SMTT(30) DEF Init, AsyncTyped, NoMsg, AsyncConstants
<1>2. ASSUME NEW d \in Dsts PROVE InOrder(queues[Index(d)], d, last[d], sent[d])
  <2>1. queues[Index(d)] = <<>> /\ last[d] = 0 /\ sent[d] = 0
    BY IndexTyped DEF Init, NoMsg
  <2> QED BY SMTT(30), <2>1 DEF InOrder
<1>3. ASSUME NEW d \in Dsts PROVE Counted(d)
  BY DEF Init, NoMsg, Counted
<1> QED BY <1>1, <1>2, <1>3 DEF AsyncInv

LEMMA SendInv ==
    ASSUME AsyncConstants, AsyncInv, NEW d \in Dsts, async_send(d)
    PROVE  AsyncInv'
<1> DEFINE b == Index(d)
           n == sent[d] + 1
           q == queues[b]
<1>1. /\ sent[d] < MAX_SENT /\ sent' = [sent EXCEPT ![d] = @ + 1]
      /\ queues' = [queues EXCEPT ![b] = Append(@, [dst |-> d, m |-> n])]
      /\ notified' = notified \cup {d} /\ UNCHANGED <<state, last>>
  BY DEF async_send
<1>2. b \in 0..(NUM_BUCKETS - 1) /\ n \in Nat /\ q \in Seq([dst : Dsts, m : Nat])
  <2>1. sent[d] \in Nat
    BY SMTT(30) DEF AsyncInv, AsyncTyped, AsyncConstants
  <2>2. b \in 0..(NUM_BUCKETS - 1)
    BY IndexTyped
  <2>3. q \in Seq([dst : Dsts, m : Nat])
    BY <2>2 DEF AsyncInv, AsyncTyped
  <2> QED BY SMTT(30), <2>1, <2>2, <2>3
<1> HIDE DEF b
<1>3. AsyncTyped'
  <2>1. queues' \in [0..(NUM_BUCKETS - 1) -> Seq([dst : Dsts, m : Nat])]
    BY SMTT(30), <1>1, <1>2 DEF AsyncInv, AsyncTyped
  <2>2. sent' \in [Dsts -> 0..MAX_SENT] /\ \A e \in Dsts : last'[e] <= sent'[e]
    BY SMTT(30), <1>1 DEF AsyncInv, AsyncTyped, AsyncConstants
  <2> QED BY <1>1, <2>1, <2>2 DEF AsyncInv, AsyncTyped
<1>4. ASSUME NEW e \in Dsts PROVE InOrder(queues'[Index(e)], e, last'[e], sent'[e])
  <2>1. InOrder(queues[Index(e)], e, last[e], sent[e]) /\ Index(e) \in 0..(NUM_BUCKETS - 1)
    BY IndexTyped DEF AsyncInv
  <2>2. last[e] \in Nat /\ sent[e] \in Nat /\ last'[e] = last[e]
    BY SMTT(30), <1>1 DEF AsyncInv, AsyncTyped
  <2>3. CASE Index(e) # b
    <3>1. e # d /\ queues'[Index(e)] = queues[Index(e)] /\ sent'[e] = sent[e]
      BY <1>1, <2>1, <2>3 DEF AsyncInv, AsyncTyped, b
    <3> QED BY <2>1, <2>2, <3>1
  <2>4. CASE Index(e) = b
    <3> DEFINE r == Append(q, [dst |-> d, m |-> n])
    <3>1. /\ queues'[Index(e)] = r /\ InOrder(q, e, last[e], sent[e])
      BY <1>1, <1>2, <2>1, <2>4 DEF AsyncInv, AsyncTyped
    <3>2. /\ DOMAIN r = 1..(Len(q) + 1) /\ DOMAIN q = 1..Len(q) /\ Len(q) \in Nat
          /\ \A i \in 1..Len(q) : r[i] = q[i] /\ q[i].m \in Nat
          /\ r[Len(q) + 1].dst = d /\ r[Len(q) + 1].m = n
      <4>1. [dst |-> d, m |-> n] \in [dst : Dsts, m : Nat]
        BY <1>2
      <4>2. /\ r \in Seq([dst : Dsts, m : Nat]) /\ Len(r) = Len(q) + 1
            /\ \A i \in 1..Len(q) : r[i] = q[i]
            /\ r[Len(q) + 1] = [dst |-> d, m |-> n]
        BY SMTT(30), <1>2, <4>1, AppendProperties
      <4>3. DOMAIN r = 1..(Len(q) + 1) /\ DOMAIN q = 1..Len(q) /\ Len(q) \in Nat
        BY SMTT(30), <1>2, <4>2
      <4>4. \A i \in 1..Len(q) : q[i] \in [dst : Dsts, m : Nat]
        BY <1>2, ElementOfSeq
      <4>5. r[Len(q) + 1].dst = d /\ r[Len(q) + 1].m = n
        BY SMTT(30), <4>2
      <4>6. \A i \in 1..Len(q) : q[i].m \in Nat
        BY <4>4
      <4> QED BY <4>2, <4>3, <4>5, <4>6
    <3> HIDE DEF r, q
    <3>3. CASE e = d
      <4>1. sent'[e] = n /\ n = sent[e] + 1 /\ last[e] <= sent[e]
        BY <1>1, <3>3 DEF AsyncInv, AsyncTyped
      <4> HIDE DEF n
      <4>2. \A i \in DOMAIN r : r[i].dst = e => r[i].m \in (last[e] + 1)..n
        BY SMTT(30), <2>2, <3>1, <3>2, <3>3, <4>1 DEF InOrder
      <4>3. \A i, j \in DOMAIN r : r[i].dst = e /\ r[j].dst = e /\ i < j => r[i].m < r[j].m
        BY SMTT(30), <2>2, <3>1, <3>2, <3>3, <4>1 DEF InOrder
      <4>4. ASSUME NEW k \in (last[e] + 1)..n
            PROVE  \E i \in DOMAIN r : r[i].dst = e /\ r[i].m = k
        <5>1. CASE k = n
          BY SMTT(30), <3>2, <3>3, <5>1
        <5>2. CASE k # n
          <6>1. k \in (last[e] + 1)..sent[e]
            BY SMTT(30), <2>2, <4>1, <5>2
          <6> QED BY SMTT(30), <3>1, <3>2, <6>1 DEF InOrder
        <5> QED BY <5>1, <5>2
      <4>5. InOrder(r, e, last[e], n)
        BY <4>2, <4>3, <4>4 DEF InOrder
      <4> QED BY <2>2, <3>1, <4>1, <4>5
    <3>4. CASE e # d
      <4>1. sent'[e] = sent[e]
        BY <1>1, <3>4 DEF AsyncInv, AsyncTyped
      <4>2. InOrder(r, e, last[e], sent[e])
        BY SMTT(30), <2>2, <3>1, <3>2, <3>4 DEF InOrder
      <4> QED BY <2>2, <3>1, <4>1, <4>2
    <3> QED BY <3>3, <3>4
  <2> QED BY <2>3, <2>4
<1>5. ASSUME NEW e \in Dsts PROVE Counted(e)'
  <2>1. Counted(e) /\ last[e] \in Nat /\ sent[e] \in Nat /\ state[e] \in {"recv", "pull"}
        /\ last[e] <= sent[e]
    BY SMTT(30) DEF AsyncInv, AsyncTyped
  <2>2. sent'[e] = IF e = d THEN sent[e] + 1 ELSE sent[e]
    BY <1>1 DEF AsyncInv, AsyncTyped
  <2> QED BY SMTT(30), <1>1, <2>1, <2>2 DEF Counted
<1> QED BY <1>3, <1>4, <1>5 DEF AsyncInv

LEMMA RecvInv ==
    ASSUME AsyncConstants, AsyncInv, NEW d \in Dsts, async_recv(d)
    PROVE  AsyncInv'
<1>1. /\ state[d] = "recv" /\ d \in notified /\ notified' = notified \ {d}
      /\ state' = [state EXCEPT ![d] = "pull"] /\ UNCHANGED <<queues, sent, last>>
  BY DEF async_recv
<1>2. AsyncTyped'
  BY <1>1 DEF AsyncInv, AsyncTyped
<1>3. \A e \in Dsts : InOrder(queues'[Index(e)], e, last'[e], sent'[e])
  BY <1>1 DEF AsyncInv
<1>4. ASSUME NEW e \in Dsts PROVE Counted(e)'
  <2>1. Counted(e) /\ state'[e] = (IF e = d THEN "pull" ELSE state[e])
    BY <1>1 DEF AsyncInv, AsyncTyped
  <2> QED BY SMTT(30), <1>1, <2>1 DEF Counted
<1> QED BY <1>2, <1>3, <1>4 DEF AsyncInv, Index

\* async_reply finds a message, the oldest one of d.
LEMMA FoundEffect ==
    ASSUME AsyncConstants, AsyncInv, NEW d \in Dsts, async_reply(d)
    PROVE  LET b == Index(d)
           IN  \E i \in DOMAIN queues[b] :
                 /\ state[d] = "pull" /\ last[d] < sent[d]
                 /\ queues[b][i].dst = d /\ queues[b][i].m = last[d] + 1
                 /\ queues' = [queues EXCEPT ![b] = Unlink(@, i)]
                 /\ last' = [last EXCEPT ![d] = last[d] + 1]
                 /\ notified' = IF last[d] + 1 = sent[d] THEN notified ELSE notified \cup {d}
                 /\ state' = [state EXCEPT ![d] = "recv"] /\ UNCHANGED sent
<1> DEFINE b == Index(d)
           q == queues[b]
<1>1. /\ state[d] = "pull" /\ UNCHANGED sent
      /\ IF For(d) = {} THEN NotFound(d) ELSE Found(d)
  BY DEF async_reply
<1>2. /\ b \in 0..(NUM_BUCKETS - 1) /\ q \in Seq([dst : Dsts, m : Nat])
      /\ DOMAIN q = 1..Len(q) /\ Len(q) \in Nat
  <2>1. b \in 0..(NUM_BUCKETS - 1)
    BY IndexTyped
  <2>2. q \in Seq([dst : Dsts, m : Nat])
    BY <2>1 DEF AsyncInv, AsyncTyped
  <2> QED BY SMTT(30), <2>1, <2>2
<1>3. /\ last[d] \in Nat /\ sent[d] \in Nat /\ last[d] < sent[d]
      /\ InOrder(q, d, last[d], sent[d])
  BY SMTT(30), <1>1 DEF AsyncInv, AsyncTyped, Counted, AsyncConstants
<1>4. For(d) = {i \in DOMAIN q : q[i].dst = d}
  BY DEF For, get_queue
<1> HIDE DEF b, q
<1>5. PICK i \in DOMAIN q : q[i].dst = d /\ q[i].m = last[d] + 1
  <2>1. last[d] + 1 \in (last[d] + 1)..sent[d]
    BY SMTT(30), <1>3
  <2> QED BY <1>3, <2>1 DEF InOrder
<1>6. i \in For(d) /\ \A j \in For(d) : i <= j
  <2>1. \A j \in DOMAIN q : q[j].dst = d => q[j].m >= last[d] + 1 /\ q[j].m \in Nat
    BY SMTT(30), <1>3 DEF InOrder
  <2>2. \A j \in DOMAIN q : q[j].dst = d => ~(j < i)
    BY SMTT(30), <1>3, <1>5, <2>1 DEF InOrder
  <2> QED BY SMTT(30), <1>2, <1>4, <1>5, <2>2
<1>7. For(d) \in SUBSET Nat
  BY SMTT(30), <1>2, <1>4
<1>8. i = Min(For(d))
  <2>1. Min(For(d)) \in For(d) /\ \A j \in For(d) : Min(For(d)) <= j
    BY <1>6, <1>7, MinProperties
  <2>2. i \in Nat /\ Min(For(d)) \in Nat
    BY <1>6, <1>7, <2>1
  <2> QED BY SMTT(30), <1>6, <2>1, <2>2
<1>9. For(d) = {i} <=> last[d] + 1 = sent[d]
  <2>1. ASSUME For(d) = {i}, last[d] + 1 # sent[d] PROVE FALSE
    <3>1. last[d] + 2 \in (last[d] + 1)..sent[d]
      BY SMTT(30), <1>3, <2>1
    <3>2. PICK j \in DOMAIN q : q[j].dst = d /\ q[j].m = last[d] + 2
      BY <1>3, <3>1 DEF InOrder
    <3>3. j = i
      BY <1>4, <2>1, <3>2
    <3> QED BY SMTT(30), <1>3, <1>5, <3>2, <3>3
  <2>2. ASSUME last[d] + 1 = sent[d], NEW j \in For(d), j # i PROVE FALSE
    <3>1. j \in DOMAIN q /\ q[j].dst = d /\ i < j
      BY SMTT(30), <1>2, <1>4, <1>6, <1>7, <2>2
    <3>2. q[j].m \in (last[d] + 1)..sent[d] /\ q[i].m < q[j].m
      BY <1>3, <1>5, <3>1 DEF InOrder
    <3> QED BY SMTT(30), <1>3, <1>5, <2>2, <3>2
  <2> QED BY <1>6, <2>1, <2>2
<1>10. Found(d)
  BY <1>1, <1>6
<1>11. Found(d) =
         (/\ queues' = [queues EXCEPT ![b] = Unlink(@, i)]
          /\ last' = [last EXCEPT ![d] = q[i].m]
          /\ notified' = IF For(d) = {i} THEN notified ELSE notified \cup {d}
          /\ state' = [state EXCEPT ![d] = "recv"])
  BY <1>8 DEF Found, get_queue, b, q
<1>12. /\ queues' = [queues EXCEPT ![b] = Unlink(@, i)]
       /\ last' = [last EXCEPT ![d] = last[d] + 1]
       /\ notified' = IF last[d] + 1 = sent[d] THEN notified ELSE notified \cup {d}
       /\ state' = [state EXCEPT ![d] = "recv"]
  BY <1>5, <1>9, <1>10, <1>11
<1> QED BY <1>1, <1>3, <1>5, <1>12 DEF b, q

\* Without its oldest message, the bucket still has the others of d in order, and
\* those of the other clients.
LEMMA RemoveInOrder ==
    ASSUME NEW q \in Seq([dst : Dsts, m : Nat]), NEW d \in Dsts, NEW i \in DOMAIN q,
           NEW from \in Nat, NEW to \in Nat,
           q[i].dst = d, q[i].m = from + 1, InOrder(q, d, from, to)
    PROVE  /\ InOrder(Unlink(q, i), d, from + 1, to)
           /\ \A e \in Dsts, f \in Nat, t \in Nat :
                e # d /\ InOrder(q, e, f, t) => InOrder(Unlink(q, i), e, f, t)
<1> DEFINE r == Unlink(q, i)
<1>1. /\ DOMAIN r = 1..(Len(q) - 1) /\ DOMAIN q = 1..Len(q) /\ Len(q) \in Nat
      /\ \A j \in 1..(Len(q) - 1) : r[j] = IF j < i THEN q[j] ELSE q[j + 1]
  BY SMTT(30), UnlinkElements
<1> HIDE DEF r
<1>2. i \in 1..Len(q)
  BY <1>1
<1>3. \A j \in DOMAIN r : \E k \in DOMAIN q : /\ r[j] = q[k] /\ k # i
                                              /\ k = IF j < i THEN j ELSE j + 1
  BY SMTT(30), <1>1, <1>2
<1>4. \A k \in DOMAIN q : k # i => \E j \in DOMAIN r : r[j] = q[k]
  <2> SUFFICES ASSUME NEW k \in DOMAIN q, k # i PROVE \E j \in DOMAIN r : r[j] = q[k]
    OBVIOUS
  <2>1. CASE k < i
    <3>1. k \in DOMAIN r /\ r[k] = q[k]
      BY SMTT(30), <1>1, <1>2, <2>1
    <3> QED BY <3>1
  <2>2. CASE k > i
    <3>1. k - 1 \in DOMAIN r /\ r[k - 1] = q[k]
      BY SMTT(30), <1>1, <1>2, <2>2
    <3> QED BY <3>1
  <2> QED BY SMTT(30), <1>1, <1>2, <2>1, <2>2
<1>5. ASSUME NEW e \in Dsts, NEW f \in Nat, NEW t \in Nat, InOrder(q, e, f, t)
      PROVE  \A j, k \in DOMAIN r : r[j].dst = e /\ r[k].dst = e /\ j < k => r[j].m < r[k].m
  <2> SUFFICES ASSUME NEW j \in DOMAIN r, NEW k \in DOMAIN r, r[j].dst = e, r[k].dst = e, j < k
               PROVE  r[j].m < r[k].m
    OBVIOUS
  <2>1. PICK jj \in DOMAIN q : r[j] = q[jj] /\ jj = IF j < i THEN j ELSE j + 1
    BY <1>3
  <2>2. PICK kk \in DOMAIN q : r[k] = q[kk] /\ kk = IF k < i THEN k ELSE k + 1
    BY <1>3
  <2>3. jj < kk
    BY SMTT(30), <1>1, <1>2, <2>1, <2>2
  <2> QED BY SMTT(30), <1>5, <2>1, <2>2, <2>3 DEF InOrder
<1>6. InOrder(r, d, from + 1, to)
  <2>1. ASSUME NEW j \in DOMAIN r, r[j].dst = d PROVE r[j].m \in (from + 2)..to
    <3>1. PICK k \in DOMAIN q : r[j] = q[k] /\ k # i
      BY <1>3
    <3>2. q[k].dst = d /\ q[k].m \in (from + 1)..to /\ k \in Nat /\ i \in Nat
      BY SMTT(30), <1>1, <2>1, <3>1 DEF InOrder
    <3>3. ~(k < i)
      BY SMTT(30), <3>2 DEF InOrder
    <3>4. q[i].m < q[k].m
      BY SMTT(30), <3>1, <3>2, <3>3 DEF InOrder
    <3> QED BY SMTT(30), <3>1, <3>2, <3>4
  <2>2. ASSUME NEW k \in (from + 2)..to PROVE \E j \in DOMAIN r : r[j].dst = d /\ r[j].m = k
    <3>1. k \in (from + 1)..to
      BY SMTT(30)
    <3>2. PICK j \in DOMAIN q : q[j].dst = d /\ q[j].m = k
      BY <3>1 DEF InOrder
    <3>3. j # i
      BY SMTT(30), <3>2
    <3> QED BY <1>4, <3>2, <3>3
  <2>3. from + 1 + 1 = from + 2
    BY SMTT(30)
  <2> QED BY <1>5, <2>1, <2>2, <2>3 DEF InOrder
<1>7. ASSUME NEW e \in Dsts, NEW f \in Nat, NEW t \in Nat, e # d, InOrder(q, e, f, t)
      PROVE  InOrder(r, e, f, t)
  <2>1. \A j \in DOMAIN r : r[j].dst = e => r[j].m \in (f + 1)..t
    BY SMTT(30), <1>3, <1>7 DEF InOrder
  <2>2. \A k \in (f + 1)..t : \E j \in DOMAIN r : r[j].dst = e /\ r[j].m = k
    BY SMTT(30), <1>4, <1>7 DEF InOrder
  <2> QED BY <1>5, <1>7, <2>1, <2>2 DEF InOrder
<1> QED BY <1>6, <1>7 DEF r

LEMMA ReplyInv ==
    ASSUME AsyncConstants, AsyncInv, NEW d \in Dsts, async_reply(d)
    PROVE  AsyncInv'
<1> DEFINE b == Index(d)
           q == queues[b]
<1>1. PICK i \in DOMAIN q :
        /\ state[d] = "pull" /\ last[d] < sent[d]
        /\ q[i].dst = d /\ q[i].m = last[d] + 1
        /\ queues' = [queues EXCEPT ![b] = Unlink(@, i)]
        /\ last' = [last EXCEPT ![d] = last[d] + 1]
        /\ notified' = IF last[d] + 1 = sent[d] THEN notified ELSE notified \cup {d}
        /\ state' = [state EXCEPT ![d] = "recv"] /\ UNCHANGED sent
  BY FoundEffect
<1>2. /\ b \in 0..(NUM_BUCKETS - 1) /\ q \in Seq([dst : Dsts, m : Nat])
  <2>1. b \in 0..(NUM_BUCKETS - 1)
    BY IndexTyped
  <2>2. q \in Seq([dst : Dsts, m : Nat])
    BY <2>1 DEF AsyncInv, AsyncTyped
  <2> QED BY <2>1, <2>2
<1>3. \A e \in Dsts : last[e] \in Nat /\ sent[e] \in Nat
  BY SMTT(30) DEF AsyncInv, AsyncTyped, AsyncConstants
<1>4. /\ InOrder(Unlink(q, i), d, last[d] + 1, sent[d])
      /\ \A e \in Dsts : e # d /\ InOrder(q, e, last[e], sent[e])
                           => InOrder(Unlink(q, i), e, last[e], sent[e])
      /\ Unlink(q, i) \in Seq([dst : Dsts, m : Nat])
  <2>1. InOrder(q, d, last[d], sent[d])
    BY DEF AsyncInv
  <2>2. Unlink(q, i) \in Seq([dst : Dsts, m : Nat])
    BY <1>2, UnlinkElements
  <2> HIDE DEF q
  <2> QED BY <1>1, <1>2, <1>3, <2>1, <2>2, RemoveInOrder
<1>5. AsyncTyped'
  <2>1. queues' \in [0..(NUM_BUCKETS - 1) -> Seq([dst : Dsts, m : Nat])]
    BY <1>1, <1>2, <1>4 DEF AsyncInv, AsyncTyped
  <2>2. last' \in [Dsts -> Nat] /\ \A e \in Dsts : last'[e] <= sent'[e]
    BY SMTT(30), <1>1, <1>3 DEF AsyncInv, AsyncTyped
  <2>3. notified' \subseteq Dsts /\ state' \in [Dsts -> {"recv", "pull"}]
    BY <1>1 DEF AsyncInv, AsyncTyped
  <2> QED BY <1>1, <2>1, <2>2, <2>3 DEF AsyncInv, AsyncTyped
<1> HIDE DEF b
<1>6. ASSUME NEW e \in Dsts PROVE InOrder(queues'[Index(e)], e, last'[e], sent'[e])
  <2>1. InOrder(queues[Index(e)], e, last[e], sent[e]) /\ Index(e) \in 0..(NUM_BUCKETS - 1)
    BY IndexTyped DEF AsyncInv
  <2>2. last'[e] = IF e = d THEN last[d] + 1 ELSE last[e]
    BY <1>1 DEF AsyncInv, AsyncTyped
  <2>3. CASE Index(e) # b
    <3>1. e # d /\ queues'[Index(e)] = queues[Index(e)]
      BY <1>1, <2>1, <2>3 DEF AsyncInv, AsyncTyped, b
    <3> QED BY <1>1, <2>1, <2>2, <3>1
  <2>4. CASE Index(e) = b
    <3>1. queues'[Index(e)] = Unlink(q, i)
      BY <1>1, <1>2, <2>4 DEF AsyncInv, AsyncTyped
    <3> QED BY <1>1, <1>4, <2>1, <2>2, <2>4, <3>1
  <2> QED BY <2>3, <2>4
<1>7. ASSUME NEW e \in Dsts PROVE Counted(e)'
  <2>1. /\ last'[e] = IF e = d THEN last[d] + 1 ELSE last[e]
        /\ state'[e] = IF e = d THEN "recv" ELSE state[e]
    BY <1>1 DEF AsyncInv, AsyncTyped
  <2>2. Counted(e) /\ Counted(d) /\ last[e] \in Nat /\ sent[e] \in Nat /\ last[e] <= sent[e]
    BY <1>3 DEF AsyncInv, AsyncTyped
  <2> QED BY SMTT(30), <1>1, <1>3, <2>1, <2>2 DEF Counted
<1> QED BY <1>5, <1>6, <1>7 DEF AsyncInv, Index

LEMMA AsyncInvariance ==
    ASSUME AsyncConstants
    PROVE  Init /\ [][Next]_vars => []AsyncInv
<1>1. Init => AsyncInv
  BY AsyncInitInv
<1>2. AsyncInv /\ [Next]_vars => AsyncInv'
  <2> SUFFICES ASSUME AsyncInv, [Next]_vars PROVE AsyncInv'
    OBVIOUS
  <2>1. CASE UNCHANGED vars
    BY <2>1 DEF vars, AsyncInv, AsyncTyped, Counted, Index
  <2> QED BY <2>1, SendInv, RecvInv, ReplyInv DEF Next, Done
<1> QED BY <1>1, <1>2, PTL

\* A client never asks for a message that is not there, whose async_recv the
\* server would not answer (ERR_NOT_FOUND), and a client that is owed a message and
\* waits has been notified, although notifications merge.
THEOREM NeverStuck ==
    ASSUME AsyncConstants
    PROVE  Spec => [](\A d \in Dsts : /\ state[d] # "stuck"
                                      /\ state[d] = "recv" => (d \in notified <=> last[d] < sent[d]))
<1>1. AsyncInv => (\A d \in Dsts : /\ state[d] # "stuck"
                                   /\ state[d] = "recv" => (d \in notified <=> last[d] < sent[d]))
  <2> SUFFICES ASSUME AsyncInv, NEW d \in Dsts
               PROVE  /\ state[d] # "stuck"
                      /\ state[d] = "recv" => (d \in notified <=> last[d] < sent[d])
    OBVIOUS
  <2>1. /\ state[d] \in {"recv", "pull"} /\ last[d] \in Nat /\ sent[d] \in Nat
        /\ last[d] <= sent[d] /\ Counted(d)
    BY SMTT(30) DEF AsyncInv, AsyncTyped, AsyncConstants
  <2> QED BY SMTT(30), <2>1 DEF Counted
<1> QED BY <1>1, AsyncInvariance, PTL DEF Spec

\* Counting up, as a sequence.
UpTo(a, n) == [i \in 1..n |-> a + i]

LEMMA UpFrom ==
    ASSUME NEW a \in Nat, NEW n \in Nat
    PROVE  /\ UpTo(a, n + 1) = Append(UpTo(a, n), a + (n + 1))
           /\ UpTo(a, n + 1) # <<>> /\ Head(UpTo(a, n + 1)) = a + 1
           /\ Tail(UpTo(a, n + 1)) = UpTo(a + 1, n)
<1> DEFINE up == [i \in 1..(n + 1) |-> a + i]
           s == [i \in 1..n |-> a + i]
           t == [i \in 1..n |-> (a + 1) + i]
<1>1. s \in Seq(Nat) /\ up \in Seq(Nat) /\ t \in Seq(Nat) /\ Len(s) = n /\ Len(up) = n + 1
  BY SMTT(30)
<1>2. up = Append(s, a + (n + 1))
  <2> DEFINE r == Append(s, a + (n + 1))
  <2>1. /\ r \in Seq(Nat) /\ Len(r) = n + 1 /\ \A i \in 1..n : r[i] = s[i]
        /\ r[n + 1] = a + (n + 1)
    BY SMTT(30), <1>1, AppendProperties
  <2>2. \A i \in 1..(n + 1) : up[i] = r[i]
    BY SMTT(30), <2>1
  <2>3. DOMAIN r = 1..(n + 1) /\ r = [i \in DOMAIN r |-> r[i]]
    BY SMTT(30), <2>1
  <2> QED BY <2>2, <2>3
<1>3. up # <<>> /\ Head(up) = a + 1
  BY SMTT(30), <1>1
<1>4. Tail(up) = t
  <2>1. /\ Tail(up) \in Seq(Nat) /\ Len(Tail(up)) = n /\ \A i \in 1..n : Tail(up)[i] = up[i + 1]
    BY SMTT(30), <1>1, <1>3, HeadTailProperties
  <2>2. \A i \in 1..n : Tail(up)[i] = t[i]
    BY SMTT(30), <2>1
  <2>3. DOMAIN Tail(up) = 1..n /\ Tail(up) = [i \in DOMAIN Tail(up) |-> Tail(up)[i]]
    BY SMTT(30), <2>1
  <2> QED BY <2>2, <2>3
<1> QED BY <1>2, <1>3, <1>4 DEF UpTo

\* The hash table of async.c and the notifications are a mailbox per client: the
\* messages are delivered in the order of async_send, none lost and none twice,
\* although clients share buckets.
THEOREM AsyncIsMailbox ==
    ASSUME AsyncConstants
    PROVE  Spec => owed!Init /\ [][owed!Next]_(owed!vars)
<1>1. Init => owed!Init
  <2> SUFFICES ASSUME Init PROVE owed!Init
    OBVIOUS
  <2>1. \A d \in Dsts : Owed(d) = <<>>
    BY SMTT(30) DEF Init, NoMsg, Owed
  <2>2. [d \in Dsts |-> Owed(d)] = [d \in Dsts |-> <<>>]
    BY <2>1
  <2> QED BY <2>2 DEF owed!Init, Init, NoMsg, owed!NoMsg
<1>2. AsyncInv /\ AsyncInv' /\ [Next]_vars => [owed!Next]_(owed!vars)
  <2> SUFFICES ASSUME AsyncInv, AsyncInv', [Next]_vars PROVE [owed!Next]_(owed!vars)
    OBVIOUS
  <2>1. CASE UNCHANGED <<sent, last>>
    BY <2>1 DEF owed!vars, Owed
  <2>2. ASSUME NEW d \in Dsts, async_send(d) PROVE owed!Next
    <3>1. /\ sent[d] < MAX_SENT /\ sent' = [sent EXCEPT ![d] = @ + 1] /\ UNCHANGED last
      BY <2>2 DEF async_send
    <3>2. /\ last[d] \in Nat /\ sent[d] \in Nat /\ last[d] <= sent[d] /\ sent'[d] = sent[d] + 1
          /\ last'[d] = last[d] /\ sent[d] + 1 \in 1..MAX_SENT
      BY SMTT(30), <3>1 DEF AsyncInv, AsyncTyped, AsyncConstants
    <3>3. Owed(d)' = Append(Owed(d), sent[d] + 1)
      <4> DEFINE n == sent[d] - last[d]
      <4>1. n \in Nat /\ sent'[d] - last'[d] = n + 1 /\ last[d] + (n + 1) = sent[d] + 1
        BY SMTT(30), <3>2
      <4>2. Owed(d)' = UpTo(last[d], n + 1)
        BY <3>2, <4>1 DEF Owed, UpTo
      <4>3. Owed(d) = UpTo(last[d], n)
        BY DEF Owed, UpTo
      <4> HIDE DEF n
      <4>4. UpTo(last[d], n + 1) = Append(UpTo(last[d], n), last[d] + (n + 1))
        BY <3>2, <4>1, UpFrom
      <4> QED BY <4>1, <4>2, <4>3, <4>4
    <3>4. \A e \in Dsts : e # d => Owed(e)' = Owed(e)
      BY <3>1 DEF Owed, AsyncInv, AsyncTyped
    <3>5. [e \in Dsts |-> Owed(e)]' =
            [[e \in Dsts |-> Owed(e)] EXCEPT ![d] = Append(@, sent[d] + 1)]
      BY <3>3, <3>4
    <3> QED BY <3>1, <3>2, <3>5 DEF owed!Next, owed!async_send
  <2>3. ASSUME NEW d \in Dsts, async_reply(d) PROVE owed!Next
    <3>1. last[d] < sent[d] /\ last' = [last EXCEPT ![d] = last[d] + 1] /\ UNCHANGED sent
      BY <2>3, FoundEffect
    <3>2. /\ last[d] \in Nat /\ sent[d] \in Nat /\ last'[d] = last[d] + 1 /\ sent'[d] = sent[d]
      BY SMTT(30), <3>1 DEF AsyncInv, AsyncTyped, AsyncConstants
    <3>3. Owed(d) # <<>> /\ Head(Owed(d)) = last[d] + 1 /\ Owed(d)' = Tail(Owed(d))
      <4> DEFINE n == sent[d] - (last[d] + 1)
      <4>1. n \in Nat /\ sent[d] - last[d] = n + 1
        BY SMTT(30), <3>1, <3>2
      <4>2. Owed(d)' = UpTo(last[d] + 1, n)
        BY <3>2 DEF Owed, UpTo
      <4>3. Owed(d) = UpTo(last[d], n + 1)
        BY <4>1 DEF Owed, UpTo
      <4> HIDE DEF n
      <4>4. /\ UpTo(last[d], n + 1) # <<>> /\ Head(UpTo(last[d], n + 1)) = last[d] + 1
            /\ Tail(UpTo(last[d], n + 1)) = UpTo(last[d] + 1, n)
        BY <3>2, <4>1, UpFrom
      <4> QED BY <4>2, <4>3, <4>4
    <3>4. \A e \in Dsts : e # d => Owed(e)' = Owed(e)
      BY <3>1 DEF Owed, AsyncInv, AsyncTyped
    <3>5. [e \in Dsts |-> Owed(e)]' = [[e \in Dsts |-> Owed(e)] EXCEPT ![d] = Tail(@)]
      BY <3>3, <3>4
    <3> QED BY <3>1, <3>3, <3>5 DEF owed!Next, owed!async_recv
  <2>4. ASSUME NEW d \in Dsts, async_recv(d) PROVE UNCHANGED <<sent, last>>
    BY <2>4 DEF async_recv
  <2> QED BY <2>1, <2>2, <2>3, <2>4 DEF Next, Done, vars
<1> QED BY <1>1, <1>2, AsyncInvariance, PTL DEF Spec

-----------------------------------------------------------------------------
(***************************************************************************)
(* Rings of descriptors: counters modulo a size that is a constant.        *)
(***************************************************************************)
\* There is one quotient and one remainder.
LEMMA DivUnique ==
    ASSUME NEW n \in Nat \ {0}, NEW q \in Int, NEW r \in 0..(n - 1), NEW p \in Int,
           NEW s \in 0..(n - 1), n * q + r = n * p + s
    PROVE  q = p /\ r = s
BY SMTT(30)

LEMMA ModIs ==
    ASSUME NEW n \in Nat \ {0}, NEW q \in Nat, NEW r \in 0..(n - 1), NEW a \in Nat, a = n * q + r
    PROVE  a % n = r
BY SMTT(30)

LEMMA ModMultiple == ASSUME NEW n \in Nat \ {0}, NEW q \in Nat, NEW a \in Nat, a = n * q PROVE a % n = 0
BY SMTT(30)

LEMMA ModSmall == ASSUME NEW n \in Nat \ {0}, NEW a \in 0..(n-1) PROVE a % n = a
BY SMTT(30)

\* A lap of a ring of n slots leads to the same slot.
LEMMA ModPlus == ASSUME NEW a \in Nat, NEW n \in Nat \ {0} PROVE (a + n) % n = a % n
<1> DEFINE q == a \div n
           r == a % n
<1>1. q \in Nat /\ r \in 0..(n - 1) /\ a = n * q + r
  BY DivMod
<1> HIDE DEF q, r
<1>2. a + n = n * (q + 1) + r /\ q + 1 \in Nat /\ a + n \in Nat
  BY SMTT(30), <1>1
<1>3. (a + n) % n = r
  BY SMTT(30), <1>1, <1>2, ModIs
<1> QED BY <1>3 DEF r

\* The next slot is that of the next number.
LEMMA ModSucc == ASSUME NEW a \in Nat, NEW n \in Nat \ {0} PROVE ((a % n) + 1) % n = (a + 1) % n
<1> DEFINE q == a \div n
           r == a % n
<1>1. q \in Nat /\ r \in 0..(n - 1) /\ a = n * q + r
  BY DivMod
<1> HIDE DEF q, r
<1>2. CASE r + 1 < n
  <2>1. a + 1 = n * q + (r + 1) /\ r + 1 \in 0..(n - 1) /\ a + 1 \in Nat
    BY SMTT(30), <1>1, <1>2
  <2>2. (a + 1) % n = r + 1
    BY SMTT(30), <1>1, <2>1, ModIs
  <2>3. (r + 1) % n = r + 1
    BY <2>1, ModSmall
  <2> QED BY <2>2, <2>3 DEF r
<1>3. CASE r + 1 = n
  <2> DEFINE p == q + 1
             b == a + 1
  <2>1. p \in Nat /\ b \in Nat /\ b = n * p
    BY SMTT(30), <1>1, <1>3
  <2>2. n % n = 0
    BY SMTT(30), ModMultiple
  <2> HIDE DEF p, b
  <2>3. b % n = 0
    BY <2>1, ModMultiple
  <2> QED BY <1>1, <1>3, <2>2, <2>3 DEF b, r
<1> QED BY SMTT(30), <1>1, <1>2, <1>3

\* Within one lap the slots of different numbers differ.
LEMMA ModUnique ==
    ASSUME NEW a \in Nat, NEW b \in Nat, NEW n \in Nat \ {0}, a % n = b % n, a <= b, b < a + n
    PROVE  a = b
<1> DEFINE q == a \div n
           p == b \div n
           r == a % n
<1>1. q \in Nat /\ p \in Nat /\ r \in 0..(n - 1) /\ a = n * q + r /\ b = n * p + r
  BY DivMod
<1> HIDE DEF p, q, r
<1>2. b - a \in 0..(n - 1) /\ n * 0 + (b - a) = n * (p - q) + 0
  BY SMTT(30), <1>1
<1>3. 0 = p - q
  BY SMTT(30), <1>1, <1>2, DivUnique
<1> QED BY SMTT(30), <1>1, <1>3

\* The slot of the k-th packet, from 0 on, in a ring of n.
Slot(k, n) == k % n

LEMMA SlotFacts ==
    ASSUME NEW n \in Nat \ {0}
    PROVE  /\ \A k \in Nat : Slot(k, n) \in 0..(n - 1) /\ Slot(k, n) \in Nat
           /\ \A k \in 0..(n - 1) : Slot(k, n) = k
           /\ \A k \in Nat : Slot(k + n, n) = Slot(k, n)
           /\ \A k \in Nat : Slot(Slot(k, n) + 1, n) = Slot(k + 1, n)
           /\ \A k, l \in Nat : Slot(k, n) = Slot(l, n) /\ k <= l /\ l < k + n => k = l
<1>1. \A k \in Nat : Slot(k, n) \in 0..(n - 1) /\ Slot(k, n) \in Nat
  BY SMTT(30), DivMod DEF Slot
<1>2. \A k \in 0..(n - 1) : Slot(k, n) = k
  BY ModSmall DEF Slot
<1>3. \A k \in Nat : Slot(k + n, n) = Slot(k, n)
  BY ModPlus DEF Slot
<1>4. \A k \in Nat : Slot(Slot(k, n) + 1, n) = Slot(k + 1, n)
  BY ModSucc DEF Slot
<1>5. \A k, l \in Nat : Slot(k, n) = Slot(l, n) /\ k <= l /\ l < k + n => k = l
  BY ModUnique DEF Slot
<1> QED BY <1>1, <1>2, <1>3, <1>4, <1>5

-----------------------------------------------------------------------------
(***************************************************************************)
(* The rings of the e1000 driver (E1000).                                  *)
(***************************************************************************)
CONSTANTS NUM_RX_DESCS, NUM_TX_DESCS, MAX_RX, MAX_TX, MAX_AHEAD
VARIABLES rx_descs, tx_descs, rx_current, tx_current, rdh, rdt, tdh, tdt, icr, notifications,
          pc, arrived, delivered, queued, outbox, on_wire

nic == INSTANCE E1000 WITH sent <- on_wire

\* The rings have descriptors.
RingConstants == NUM_RX_DESCS \in Nat \ {0} /\ NUM_TX_DESCS \in Nat \ {0} /\ MAX_AHEAD \in Nat

\* The TCP/IP server is never further ahead of the wire than the ring is long: the
\* driver does not look whether a descriptor is free.
Paced == MAX_AHEAD < NUM_TX_DESCS

Kinds == {"IRQ", "ASYNC"}
NicTyped ==
    /\ rx_descs \in [0..(NUM_RX_DESCS - 1) -> [done : BOOLEAN, pkt : Nat]]
    /\ tx_descs \in [0..(NUM_TX_DESCS - 1) -> Nat]
    /\ arrived \in Nat /\ queued \in Nat
    /\ delivered \in Seq(Nat) /\ outbox \in Seq(Nat) /\ on_wire \in Seq(Nat)
    /\ notifications \in SUBSET Kinds
    /\ pc \in [at : {"idle", "cause", "rx", "ack", "async"}, todo : SUBSET Kinds]

\* How many packets the driver has handed back to the device.
Handled == IF pc.at = "ack" THEN Len(delivered) - 1 ELSE Len(delivered)

\* The receive ring after n packets were handed back: the others that have arrived
\* are in their slots, less than a lap ahead (one lap before the first is handed
\* back), and no other descriptor is done.
RxRing(n) ==
    /\ n <= arrived /\ arrived <= n + NUM_RX_DESCS
    /\ rx_current = Slot(n, NUM_RX_DESCS) /\ rdh \in 0..NUM_RX_DESCS
    /\ Slot(rdh, NUM_RX_DESCS) = Slot(arrived, NUM_RX_DESCS)
    /\ n = 0 => rdt = NUM_RX_DESCS /\ rdh = arrived
    /\ n > 0 => rdt = Slot(n - 1, NUM_RX_DESCS) /\ arrived < n + NUM_RX_DESCS
    /\ \A k \in n..(arrived - 1) : rx_descs[Slot(k, NUM_RX_DESCS)] = [done |-> TRUE, pkt |-> k + 1]
    /\ \A i \in 0..(NUM_RX_DESCS - 1) :
         rx_descs[i].done => \E k \in n..(arrived - 1) : i = Slot(k, NUM_RX_DESCS)

RxInv ==
    /\ Handled \in Nat /\ RxRing(Handled)
    /\ pc.at = "ack" => Handled < arrived
    /\ \A i \in DOMAIN delivered : delivered[i] = i

\* A packet arrives: its slot is free.
LEMMA ArriveRing ==
    ASSUME RingConstants, NicTyped, NEW n \in Nat, RxRing(n), nic!Arrive
    PROVE  RxRing(n)'
<1> DEFINE N == NUM_RX_DESCS
           at == Slot(rdh, N)
<1>1. N \in Nat \ {0} /\ arrived \in Nat /\ rx_descs \in [0..(N - 1) -> [done : BOOLEAN, pkt : Nat]]
  BY DEF RingConstants, NicTyped
<1>2. /\ rdh # rdt /\ at # rdt
      /\ rx_descs' = [rx_descs EXCEPT ![at] = [done |-> TRUE, pkt |-> arrived + 1]]
      /\ rdh' = at + 1 /\ arrived' = arrived + 1 /\ rx_current' = rx_current /\ rdt' = rdt
  BY DEF nic!Arrive, Slot
<1>3. /\ n <= arrived /\ arrived <= n + N /\ rx_current = Slot(n, N) /\ rdh \in 0..N /\ at = Slot(arrived, N)
      /\ n = 0 => rdt = N /\ rdh = arrived
      /\ n > 0 => rdt = Slot(n - 1, N) /\ arrived < n + N
      /\ \A k \in n..(arrived - 1) : rx_descs[Slot(k, N)] = [done |-> TRUE, pkt |-> k + 1]
      /\ \A i \in 0..(N - 1) : rx_descs[i].done => \E k \in n..(arrived - 1) : i = Slot(k, N)
  BY DEF RxRing
<1>4. at \in 0..(N - 1)
  BY <1>1, <1>3, SlotFacts
<1> HIDE DEF N, at
<1>5. arrived < n + N /\ (n > 0 => arrived + 1 < n + N)
  <2>1. CASE n = 0
    BY SMTT(30), <1>1, <1>2, <1>3, <2>1
  <2>2. CASE n > 0
    <3>1. n - 1 \in Nat /\ Slot((n - 1) + N, N) = Slot(n - 1, N)
      BY SMTT(30), <1>1, <2>2, SlotFacts
    <3>2. arrived # (n - 1) + N
      BY <1>2, <1>3, <2>2, <3>1
    <3> QED BY SMTT(30), <1>1, <1>3, <2>2, <3>2
  <2> QED BY SMTT(30), <2>1, <2>2
<1>6. Slot(at + 1, N) = Slot(arrived + 1, N)
  BY <1>1, <1>3, SlotFacts
<1>7. n = 0 => rdh' = arrived'
  BY SMTT(30), <1>1, <1>2, <1>3, <1>5, SlotFacts
<1>8. ASSUME NEW k \in n..(arrived' - 1)
      PROVE  rx_descs'[Slot(k, N)] = [done |-> TRUE, pkt |-> k + 1]
  <2>1. k \in Nat /\ Slot(k, N) \in 0..(N - 1)
    BY SMTT(30), <1>1, SlotFacts
  <2>2. CASE k = arrived
    BY <1>1, <1>2, <1>3, <1>4, <2>2
  <2>3. CASE k # arrived
    <3>1. k \in n..(arrived - 1) /\ k <= arrived /\ arrived < k + N
      BY SMTT(30), <1>1, <1>2, <1>5, <2>3
    <3>2. Slot(k, N) # Slot(arrived, N)
      BY <1>1, <2>1, <2>3, <3>1, SlotFacts
    <3> QED BY <1>1, <1>2, <1>3, <1>4, <2>1, <3>1, <3>2
  <2> QED BY <2>2, <2>3
<1>9. ASSUME NEW i \in 0..(N - 1), rx_descs'[i].done
      PROVE  \E k \in n..(arrived' - 1) : i = Slot(k, N)
  <2>1. CASE i = at
    <3>1. arrived \in n..(arrived' - 1) /\ i = Slot(arrived, N)
      BY SMTT(30), <1>1, <1>2, <1>3, <2>1
    <3> QED BY <3>1
  <2>2. CASE i # at
    <3>1. rx_descs[i].done
      BY <1>1, <1>2, <1>9, <2>2
    <3>2. PICK k \in n..(arrived - 1) : i = Slot(k, N)
      BY <1>3, <3>1
    <3> QED BY SMTT(30), <1>1, <1>2, <3>2
  <2> QED BY <2>1, <2>2
<1>10. /\ n <= arrived' /\ arrived' <= n + N /\ rx_current' = Slot(n, N) /\ rdh' \in 0..N
       /\ Slot(rdh', N) = Slot(arrived', N)
       /\ n = 0 => rdt' = N
       /\ n > 0 => rdt' = Slot(n - 1, N) /\ arrived' < n + N
  BY SMTT(30), <1>1, <1>2, <1>3, <1>4, <1>5, <1>6
<1> QED BY <1>7, <1>8, <1>9, <1>10 DEF RxRing, N

\* The driver hands the descriptor of the next packet back.
LEMMA AckRing ==
    ASSUME RingConstants, NicTyped, NEW n \in Nat, RxRing(n), n < arrived, nic!Ack
    PROVE  RxRing(n + 1)'
<1> DEFINE N == NUM_RX_DESCS
<1>1. N \in Nat \ {0} /\ arrived \in Nat /\ rx_descs \in [0..(N - 1) -> [done : BOOLEAN, pkt : Nat]]
  BY DEF RingConstants, NicTyped
<1>2. /\ rx_descs' = [rx_descs EXCEPT ![rx_current].done = FALSE]
      /\ rdt' = rx_current /\ rx_current' = Slot(rx_current + 1, N)
      /\ rdh' = rdh /\ arrived' = arrived
  BY DEF nic!Ack, Slot
<1>3. /\ arrived <= n + N /\ rx_current = Slot(n, N) /\ rdh \in 0..N /\ Slot(rdh, N) = Slot(arrived, N)
      /\ \A k \in n..(arrived - 1) : rx_descs[Slot(k, N)] = [done |-> TRUE, pkt |-> k + 1]
      /\ \A i \in 0..(N - 1) : rx_descs[i].done => \E k \in n..(arrived - 1) : i = Slot(k, N)
  BY DEF RxRing
<1> HIDE DEF N
<1>4. rx_current \in 0..(N - 1) /\ rx_current' = Slot(n + 1, N)
  BY <1>1, <1>2, <1>3, SlotFacts
<1>5. ASSUME NEW k \in (n + 1)..(arrived - 1)
      PROVE  rx_descs'[Slot(k, N)] = [done |-> TRUE, pkt |-> k + 1]
  <2>1. k \in Nat /\ n <= k /\ k < n + N /\ n # k /\ k \in n..(arrived - 1)
    BY SMTT(30), <1>1, <1>3
  <2>a. Slot(k, N) \in 0..(N - 1)
    BY <1>1, <2>1, SlotFacts
  <2>2. Slot(k, N) # Slot(n, N)
    BY <1>1, <2>1, SlotFacts
  <2> QED BY <1>1, <1>2, <1>3, <2>1, <2>a, <2>2
<1>6. ASSUME NEW i \in 0..(N - 1), rx_descs'[i].done
      PROVE  \E k \in (n + 1)..(arrived - 1) : i = Slot(k, N)
  <2>1. i # rx_current
    BY <1>1, <1>2, <1>4, <1>6
  <2>2. rx_descs[i].done
    BY <1>1, <1>2, <1>6, <2>1
  <2>3. PICK k \in n..(arrived - 1) : i = Slot(k, N)
    BY <1>3, <2>2
  <2>4. k # n
    BY <1>3, <2>1, <2>3
  <2> QED BY SMTT(30), <2>3, <2>4
<1>7. /\ n + 1 <= arrived' /\ arrived' <= (n + 1) + N /\ rdh' \in 0..N /\ Slot(rdh', N) = Slot(arrived', N)
      /\ n + 1 # 0 /\ (n + 1) - 1 = n /\ rdt' = Slot(n, N) /\ arrived' < (n + 1) + N
  BY SMTT(30), <1>1, <1>2, <1>3
<1> QED BY <1>2, <1>4, <1>5, <1>6, <1>7 DEF RxRing, N

\* A descriptor that is done is the next packet's.
LEMMA NextPacket ==
    ASSUME RingConstants, NicTyped, NEW n \in Nat, RxRing(n), rx_descs[rx_current].done
    PROVE  n < arrived /\ rx_descs[rx_current] = [done |-> TRUE, pkt |-> n + 1]
<1> DEFINE N == NUM_RX_DESCS
<1>1. N \in Nat \ {0} /\ arrived \in Nat
  BY DEF RingConstants, NicTyped
<1>2. /\ arrived <= n + N /\ rx_current = Slot(n, N)
      /\ \A k \in n..(arrived - 1) : rx_descs[Slot(k, N)] = [done |-> TRUE, pkt |-> k + 1]
      /\ \A i \in 0..(N - 1) : rx_descs[i].done => \E k \in n..(arrived - 1) : i = Slot(k, N)
  BY DEF RxRing
<1> HIDE DEF N
<1>3. Slot(n, N) \in 0..(N - 1)
  BY <1>1, SlotFacts
<1>4. PICK k \in n..(arrived - 1) : Slot(n, N) = Slot(k, N)
  BY <1>2, <1>3
<1>5. k \in Nat /\ n <= k /\ k < n + N
  BY SMTT(30), <1>1, <1>2
<1>6. k = n
  BY <1>1, <1>4, <1>5, SlotFacts
<1> QED BY SMTT(30), <1>1, <1>2, <1>4, <1>6

-----------------------------------------------------------------------------
\* The packets on their way out: pulled(n) of those that were queued, of which the
\* device has sent the first.
Pulled == queued - Len(outbox)
TxRing(n) ==
    /\ n \in Nat /\ Len(on_wire) <= n
    /\ tx_current = Slot(n, NUM_TX_DESCS) /\ tdt = tx_current /\ tdh = Slot(Len(on_wire), NUM_TX_DESCS)
    /\ queued - Len(on_wire) <= MAX_AHEAD
    /\ \A k \in Len(on_wire)..(n - 1) : tx_descs[Slot(k, NUM_TX_DESCS)] = k + 1

\* Every announced message is in the outbox: there are two if one was announced
\* after the driver started to handle an announcement.
Announced ==
    /\ "ASYNC" \in notifications => Len(outbox) >= 1
    /\ "ASYNC" \in pc.todo => Len(outbox) >= 1
    /\ "ASYNC" \in notifications /\ "ASYNC" \in pc.todo => Len(outbox) >= 2

TxInv ==
    /\ TxRing(Pulled)
    /\ \A i \in DOMAIN outbox : outbox[i] = Pulled + i
    /\ \A i \in DOMAIN on_wire : on_wire[i] = i

NicInv == NicTyped /\ RxInv /\ TxInv /\ Announced

\* Appending the next number to 1, 2, ..., Len(s).
LEMMA AppendNext ==
    ASSUME NEW s \in Seq(Nat), NEW x \in Nat, NEW b \in Int, x = b + Len(s) + 1,
           \A i \in DOMAIN s : s[i] = b + i
    PROVE  /\ Append(s, x) \in Seq(Nat) /\ Len(Append(s, x)) = Len(s) + 1
           /\ \A i \in DOMAIN Append(s, x) : Append(s, x)[i] = b + i
<1>1. /\ Append(s, x) \in Seq(Nat) /\ Len(Append(s, x)) = Len(s) + 1 /\ Len(s) \in Nat
      /\ \A i \in 1..Len(s) : Append(s, x)[i] = s[i]
      /\ Append(s, x)[Len(s) + 1] = x
  BY SMTT(30), AppendProperties
<1>2. DOMAIN Append(s, x) = 1..(Len(s) + 1) /\ DOMAIN s = 1..Len(s)
  BY SMTT(30), <1>1
<1> QED BY SMTT(30), <1>1, <1>2

\* Taking the first of b + 1, b + 2, ...
LEMMA TailNext ==
    ASSUME NEW s \in Seq(Nat), s # <<>>, NEW b \in Int, \A i \in DOMAIN s : s[i] = b + i
    PROVE  /\ Tail(s) \in Seq(Nat) /\ Len(Tail(s)) = Len(s) - 1 /\ Len(s) >= 1
           /\ Head(s) \in Nat /\ Head(s) = b + 1
           /\ \A i \in DOMAIN Tail(s) : Tail(s)[i] = b + 1 + i
<1>1. /\ Tail(s) \in Seq(Nat) /\ Len(Tail(s)) = Len(s) - 1 /\ Len(s) \in Nat /\ Len(s) >= 1
      /\ Head(s) = s[1] /\ Head(s) \in Nat
      /\ \A i \in 1..Len(Tail(s)) : Tail(s)[i] = s[i + 1]
  BY SMTT(30), HeadTailProperties
<1>2. DOMAIN Tail(s) = 1..(Len(s) - 1) /\ DOMAIN s = 1..Len(s)
  BY SMTT(30), <1>1
<1>3. 1 \in DOMAIN s /\ s[1] = b + 1
  BY SMTT(30), <1>1, <1>2
<1>4. ASSUME NEW i \in DOMAIN Tail(s) PROVE Tail(s)[i] = b + 1 + i
  <2>1. i \in 1..Len(Tail(s)) /\ i + 1 \in DOMAIN s /\ i \in Int
    BY SMTT(30), <1>1, <1>2
  <2>2. Tail(s)[i] = s[i + 1] /\ s[i + 1] = b + (i + 1)
    BY <1>1, <2>1
  <2> QED BY SMTT(30), <2>1, <2>2
<1> QED BY <1>1, <1>3, <1>4

\* The device sends a packet.
LEMMA SendTx ==
    ASSUME RingConstants, Paced, NicTyped, TxInv, nic!Send
    PROVE  TxInv' /\ on_wire' \in Seq(Nat)
<1> DEFINE M == NUM_TX_DESCS
           s == Len(on_wire)
           n == Pulled
<1>1. /\ M \in Nat \ {0} /\ on_wire \in Seq(Nat) /\ outbox \in Seq(Nat) /\ queued \in Nat
      /\ s \in Nat /\ MAX_AHEAD \in Nat /\ MAX_AHEAD < M /\ Len(outbox) \in Nat
  BY SMTT(30) DEF RingConstants, NicTyped, Paced
<1>2. /\ tdh # tdt /\ on_wire' = Append(on_wire, tx_descs[tdh]) /\ tdh' = Slot(tdh + 1, M)
      /\ UNCHANGED <<tx_descs, tx_current, tdt, queued, outbox>>
  BY DEF nic!Send, Slot
<1>3. /\ n \in Nat /\ s <= n /\ queued - s <= MAX_AHEAD /\ n = queued - Len(outbox)
  BY DEF TxInv, TxRing, Pulled
<1>b. tx_current = Slot(n, M) /\ tdt = tx_current /\ tdh = Slot(s, M)
  BY DEF TxInv, TxRing
<1>c. \A k \in s..(n - 1) : tx_descs[Slot(k, M)] = k + 1
  BY DEF TxInv, TxRing
<1>d. /\ \A i \in DOMAIN outbox : outbox[i] = n + i
      /\ \A i \in DOMAIN on_wire : on_wire[i] = 0 + i
  BY SMTT(30), <1>1 DEF TxInv
<1> HIDE DEF M, s, n
<1>4. s < n
  <2>1. s # n
    BY <1>2, <1>b
  <2> QED BY SMTT(30), <1>1, <1>3, <2>1
<1>5. tx_descs[tdh] = s + 1 /\ s + 1 \in Nat
  <2>1. s \in s..(n - 1) /\ s + 1 \in Nat
    BY SMTT(30), <1>1, <1>3, <1>4
  <2> QED BY <1>b, <1>c, <2>1
<1>6. tdh' = Slot(s + 1, M)
  BY <1>1, <1>2, <1>b, SlotFacts
<1>7. /\ on_wire' \in Seq(Nat) /\ Len(on_wire') = s + 1 /\ \A i \in DOMAIN on_wire' : on_wire'[i] = 0 + i
  <2>1. s + 1 = 0 + Len(on_wire) + 1 /\ on_wire' = Append(on_wire, s + 1)
    BY SMTT(30), <1>1, <1>2, <1>5 DEF s
  <2> QED BY SMTT(30), <1>1, <1>5, <1>d, <2>1, AppendNext DEF s
<1>8. \A k \in (s + 1)..(n - 1) : tx_descs'[Slot(k, M)] = k + 1
  <2>1. \A k \in (s + 1)..(n - 1) : k \in s..(n - 1)
    BY SMTT(30), <1>1, <1>3
  <2> QED BY <1>2, <1>c, <2>1
<1>9. Pulled' = n
  BY <1>2 DEF Pulled, n
<1>10. TxRing(Pulled)'
  <2>1. /\ s + 1 <= n /\ queued' - (s + 1) <= MAX_AHEAD
    BY SMTT(30), <1>1, <1>2, <1>3, <1>4
  <2> QED BY <1>2, <1>3, <1>b, <1>6, <1>7, <1>8, <1>9, <2>1 DEF TxRing, M
<1>11. \A i \in DOMAIN on_wire' : on_wire'[i] = i
  BY SMTT(30), <1>7
<1>12. \A i \in DOMAIN outbox' : outbox'[i] = Pulled' + i
  BY <1>2, <1>d, <1>9
<1> QED BY <1>7, <1>10, <1>11, <1>12 DEF TxInv

\* The driver pulls a packet into the ring: the device is done with its slot.
LEMMA TransmitTx ==
    ASSUME RingConstants, Paced, NicTyped, TxInv, nic!Transmit
    PROVE  TxInv' /\ outbox' \in Seq(Nat) /\ tx_descs' \in [0..(NUM_TX_DESCS - 1) -> Nat]
<1> DEFINE M == NUM_TX_DESCS
           s == Len(on_wire)
           n == Pulled
<1>1. /\ M \in Nat \ {0} /\ on_wire \in Seq(Nat) /\ outbox \in Seq(Nat) /\ queued \in Nat
      /\ s \in Nat /\ MAX_AHEAD \in Nat /\ MAX_AHEAD < M /\ Len(outbox) \in Nat
      /\ tx_descs \in [0..(M - 1) -> Nat]
  BY SMTT(30) DEF RingConstants, NicTyped, Paced
<1>2. /\ outbox # <<>> /\ outbox' = Tail(outbox) /\ tx_current' = Slot(tx_current + 1, M)
      /\ tx_descs' = [tx_descs EXCEPT ![tx_current] = Head(outbox)] /\ tdt' = tx_current'
      /\ UNCHANGED <<tdh, queued, on_wire>>
  BY DEF nic!Transmit, Slot
<1>3. /\ n \in Nat /\ s <= n /\ queued - s <= MAX_AHEAD /\ n = queued - Len(outbox)
  BY DEF TxInv, TxRing, Pulled
<1>b. tx_current = Slot(n, M) /\ tdt = tx_current /\ tdh = Slot(s, M)
  BY DEF TxInv, TxRing
<1>c. \A k \in s..(n - 1) : tx_descs[Slot(k, M)] = k + 1
  BY DEF TxInv, TxRing
<1>d. /\ \A i \in DOMAIN outbox : outbox[i] = n + i
      /\ \A i \in DOMAIN on_wire : on_wire[i] = i
  BY DEF TxInv
<1> HIDE DEF M, s, n
<1>4. /\ outbox' \in Seq(Nat) /\ Len(outbox') = Len(outbox) - 1 /\ Len(outbox) >= 1
      /\ Head(outbox) = n + 1 /\ \A i \in DOMAIN outbox' : outbox'[i] = n + 1 + i
  <2>1. n \in Int
    BY SMTT(30), <1>3
  <2> QED BY <1>1, <1>2, <1>d, <2>1, TailNext
<1>5. Pulled' = n + 1 /\ n + 1 \in Nat
  BY SMTT(30), <1>1, <1>2, <1>3, <1>4 DEF Pulled
<1>6. tx_current' = Slot(n + 1, M) /\ tx_current \in 0..(M - 1)
  BY <1>1, <1>2, <1>3, <1>b, SlotFacts
<1>7. ASSUME NEW k \in s..n PROVE tx_descs'[Slot(k, M)] = k + 1
  <2>1. k \in Nat /\ s <= k /\ k <= n /\ n < k + M
    BY SMTT(30), <1>1, <1>3, <1>4
  <2>0. k \in Int /\ s \in Int /\ n \in Int
    BY SMTT(30), <1>1, <1>3, <2>1
  <2>2. Slot(k, M) \in 0..(M - 1)
    BY <1>1, <2>1, SlotFacts
  <2>3. CASE k = n
    <3>1. Slot(k, M) = tx_current
      BY <1>b, <2>3
    <3>2. tx_descs'[tx_current] = n + 1
      BY <1>1, <1>2, <1>4, <1>6
    <3> QED BY <2>3, <3>1, <3>2
  <2>4. CASE k # n
    <3>1. Slot(k, M) # tx_current
      BY <1>1, <1>3, <1>b, <2>1, <2>4, SlotFacts
    <3>2. k \in s..(n - 1)
      BY SMTT(30), <2>0, <2>1, <2>4
    <3>3. tx_descs'[Slot(k, M)] = tx_descs[Slot(k, M)]
      <4> DEFINE sk == Slot(k, M)
      <4>1. sk \in 0..(M - 1) /\ sk # tx_current
        BY <2>2, <3>1
      <4> HIDE DEF sk
      <4>2. tx_descs'[sk] = tx_descs[sk]
        BY <1>1, <1>2, <4>1
      <4> QED BY <4>2 DEF sk
    <3> QED BY <1>c, <3>2, <3>3
  <2> QED BY <2>3, <2>4
<1>8. tx_descs' \in [0..(M - 1) -> Nat]
  BY <1>1, <1>2, <1>4, <1>5
<1>9. TxRing(Pulled)'
  <2>1. (n + 1) - 1 = n /\ Len(on_wire') = s /\ s <= n + 1 /\ queued' - s <= MAX_AHEAD
    BY SMTT(30), <1>1, <1>2, <1>3 DEF s
  <2>2. \A k \in s..((n + 1) - 1) : tx_descs'[Slot(k, M)] = k + 1
    BY <1>7, <2>1
  <2>3. tdh' = Slot(s, M) /\ tdt' = tx_current'
    BY <1>2, <1>b
  <2> QED BY <1>5, <1>6, <2>1, <2>2, <2>3 DEF TxRing, M
<1>10. \A i \in DOMAIN outbox' : outbox'[i] = Pulled' + i
  BY <1>4, <1>5
<1> QED BY <1>2, <1>4, <1>8, <1>9, <1>10, <1>d DEF TxInv, M

\* The TCP/IP server queues a packet.
LEMMA QueueTx ==
    ASSUME RingConstants, NicTyped, TxInv, nic!Queue
    PROVE  TxInv' /\ outbox' \in Seq(Nat) /\ Len(outbox') = Len(outbox) + 1
<1> DEFINE n == Pulled
<1>1. /\ on_wire \in Seq(Nat) /\ outbox \in Seq(Nat) /\ queued \in Nat
      /\ Len(on_wire) \in Nat /\ MAX_AHEAD \in Nat /\ Len(outbox) \in Nat
  BY SMTT(30) DEF RingConstants, NicTyped
<1>2. /\ queued - Len(on_wire) < MAX_AHEAD /\ queued' = queued + 1 /\ outbox' = Append(outbox, queued + 1)
      /\ UNCHANGED <<tx_descs, tx_current, tdh, tdt, on_wire>>
  BY DEF nic!Queue
<1>3. TxRing(n) /\ n \in Nat /\ n = queued - Len(outbox) /\ \A i \in DOMAIN outbox : outbox[i] = n + i
  BY DEF TxInv, TxRing, Pulled
<1> HIDE DEF n
<1>4. n \in Int /\ queued + 1 \in Nat /\ queued + 1 = n + Len(outbox) + 1
  BY SMTT(30), <1>1, <1>3
<1>5. /\ outbox' \in Seq(Nat) /\ Len(outbox') = Len(outbox) + 1
      /\ \A i \in DOMAIN outbox' : outbox'[i] = n + i
  BY <1>1, <1>2, <1>3, <1>4, AppendNext
<1>6. Pulled' = n
  BY SMTT(30), <1>1, <1>2, <1>3, <1>5 DEF Pulled
<1>7. TxRing(Pulled)'
  <2>1. queued' - Len(on_wire) <= MAX_AHEAD
    BY SMTT(30), <1>1, <1>2
  <2> QED BY <1>2, <1>3, <1>6, <2>1 DEF TxRing
<1>8. /\ \A i \in DOMAIN outbox' : outbox'[i] = Pulled' + i
      /\ \A i \in DOMAIN on_wire' : on_wire'[i] = i
  BY <1>2, <1>5, <1>6 DEF TxInv
<1> QED BY <1>5, <1>7, <1>8 DEF TxInv

-----------------------------------------------------------------------------
\* Before the first packet.
LEMMA NicInit == ASSUME RingConstants, nic!Init PROVE NicInv
<1>1. /\ rx_descs = [i \in 0..(NUM_RX_DESCS - 1) |-> [done |-> FALSE, pkt |-> 0]]
      /\ tx_descs = [i \in 0..(NUM_TX_DESCS - 1) |-> 0]
      /\ rx_current = 0 /\ tx_current = 0 /\ rdh = 0 /\ rdt = NUM_RX_DESCS /\ tdh = 0 /\ tdt = 0
      /\ notifications = {} /\ pc.at = "idle" /\ pc.todo = {}
      /\ pc \in [at : {"idle", "cause", "rx", "ack", "async"}, todo : SUBSET Kinds]
      /\ arrived = 0 /\ delivered = <<>> /\ queued = 0 /\ outbox = <<>> /\ on_wire = <<>>
  BY DEF nic!Init, nic!Idle
<1>2. NUM_RX_DESCS \in Nat \ {0} /\ NUM_TX_DESCS \in Nat \ {0} /\ MAX_AHEAD \in Nat
  BY DEF RingConstants
<1>3. Slot(0, NUM_RX_DESCS) = 0 /\ Slot(0, NUM_TX_DESCS) = 0
  BY SMTT(30), <1>2, SlotFacts
<1>4. Len(delivered) = 0 /\ Len(outbox) = 0 /\ Len(on_wire) = 0
  BY <1>1
<1>5. NicTyped
  BY SMTT(30), <1>1, <1>2 DEF NicTyped, Kinds
<1>6. RxInv
  <2>1. Handled = 0
    BY <1>1, <1>4 DEF Handled
  <2>2. \A i \in 0..(NUM_RX_DESCS - 1) : ~rx_descs[i].done
    BY <1>1
  <2>3. RxRing(0)
    BY SMTT(30), <1>1, <1>2, <1>3, <2>2 DEF RxRing
  <2> QED BY SMTT(30), <1>1, <2>1, <2>3 DEF RxInv
<1>7. TxInv
  <2>1. Pulled = 0
    <3>1. queued = 0 /\ Len(outbox) = 0
      BY <1>1, <1>4
    <3> QED BY SMTT(30), <3>1 DEF Pulled
  <2>2. TxRing(0)
    BY SMTT(30), <1>1, <1>2, <1>3, <1>4 DEF TxRing
  <2> QED BY SMTT(30), <1>1, <2>1, <2>2 DEF TxInv
<1>8. Announced
  BY <1>1 DEF Announced
<1> QED BY <1>5, <1>6, <1>7, <1>8 DEF NicInv

\* Steps that leave one direction alone.
LEMMA RxKept ==
    ASSUME RxInv, UNCHANGED <<rx_descs, rx_current, rdh, rdt, arrived, delivered>>,
           (pc'.at = "ack") <=> (pc.at = "ack")
    PROVE  RxInv'
BY DEF RxInv, RxRing, Handled
LEMMA TxKept ==
    ASSUME TxInv, UNCHANGED <<tx_descs, tx_current, tdh, tdt, queued, outbox, on_wire>>
    PROVE  TxInv'
BY DEF TxInv, TxRing, Pulled

LEMMA NicStep ==
    ASSUME RingConstants, Paced, NicInv, [nic!Next]_(nic!vars)
    PROVE  NicInv'
<1>1. NicTyped /\ RxInv /\ TxInv /\ Announced
  BY DEF NicInv
<1>t. /\ rx_descs \in [0..(NUM_RX_DESCS - 1) -> [done : BOOLEAN, pkt : Nat]]
      /\ tx_descs \in [0..(NUM_TX_DESCS - 1) -> Nat]
      /\ arrived \in Nat /\ queued \in Nat
      /\ delivered \in Seq(Nat) /\ outbox \in Seq(Nat) /\ on_wire \in Seq(Nat)
      /\ notifications \in SUBSET Kinds
      /\ pc \in [at : {"idle", "cause", "rx", "ack", "async"}, todo : SUBSET Kinds]
      /\ NUM_RX_DESCS \in Nat \ {0}
  BY <1>1 DEF NicTyped, RingConstants
<1>n. Handled \in Nat /\ RxRing(Handled) /\ \A i \in DOMAIN delivered : delivered[i] = i
  BY <1>1 DEF RxInv
<1>2. CASE nic!Arrive
  <2>1. /\ UNCHANGED <<rx_current, rdt, delivered, pc, tx_descs, tx_current, tdh, tdt, queued, outbox, on_wire>>
        /\ rx_descs' = [rx_descs EXCEPT ![rdh % NUM_RX_DESCS] = [done |-> TRUE, pkt |-> arrived + 1]]
        /\ arrived' = arrived + 1 /\ notifications' = notifications \cup {"IRQ"}
    BY <1>2 DEF nic!Arrive, nic!txVars
  <2>2. TxInv'
    BY <1>1, <2>1, TxKept
  <2>3. PICK n \in Nat : n = Handled
    BY <1>n
  <2>4. RxRing(n)'
    BY <1>1, <1>2, <1>n, <2>3, ArriveRing
  <2>5. Handled' = n
    BY <2>1, <2>3 DEF Handled
  <2>6. RxInv'
    BY SMTT(30), <1>1, <1>t, <2>1, <2>3, <2>4, <2>5 DEF RxInv
  <2>7. rx_descs' \in [0..(NUM_RX_DESCS - 1) -> [done : BOOLEAN, pkt : Nat]]
    <3> DEFINE D == [done : BOOLEAN, pkt : Nat]
               d == [done |-> TRUE, pkt |-> arrived + 1]
               at == rdh % NUM_RX_DESCS
    <3>1. d \in D
      BY SMTT(30), <1>t
    <3>2. rx_descs' = [rx_descs EXCEPT ![at] = d] /\ rx_descs \in [0..(NUM_RX_DESCS - 1) -> D]
      BY <1>t, <2>1
    <3> HIDE DEF D, d, at
    <3>3. rx_descs' \in [0..(NUM_RX_DESCS - 1) -> D]
      BY <3>1, <3>2
    <3> QED BY <3>3 DEF D
  <2>8. NicTyped'
    BY SMTT(30), <1>t, <2>1, <2>7 DEF NicTyped, Kinds
  <2>9. Announced'
    BY <1>1, <2>1 DEF Announced
  <2> QED BY <2>2, <2>6, <2>8, <2>9 DEF NicInv
<1>3. CASE nic!Send
  <2>1. UNCHANGED <<rx_descs, rx_current, rdh, rdt, arrived, delivered, tx_descs, queued, outbox, notifications, pc>>
    BY <1>3 DEF nic!Send, nic!rxVars
  <2>2. TxInv' /\ on_wire' \in Seq(Nat)
    BY <1>1, <1>3, SendTx
  <2>3. RxInv'
    BY <1>1, <2>1, RxKept
  <2>4. NicTyped'
    BY <1>t, <2>1, <2>2 DEF NicTyped
  <2>5. Announced'
    BY <1>1, <2>1 DEF Announced
  <2> QED BY <2>2, <2>3, <2>4, <2>5 DEF NicInv
<1>4. CASE nic!Queue
  <2>1. /\ UNCHANGED <<rx_descs, rx_current, rdh, rdt, arrived, delivered, tx_descs, on_wire, pc>>
        /\ queued' = queued + 1 /\ notifications' = notifications \cup {"ASYNC"}
    BY <1>4 DEF nic!Queue, nic!rxVars
  <2>2. TxInv' /\ outbox' \in Seq(Nat) /\ Len(outbox') = Len(outbox) + 1 /\ Len(outbox) \in Nat
    BY SMTT(30), <1>1, <1>4, <1>t, QueueTx
  <2>3. RxInv'
    BY <1>1, <2>1, RxKept
  <2>4. NicTyped'
    BY SMTT(30), <1>t, <2>1, <2>2 DEF NicTyped, Kinds
  <2>5. Announced'
    BY SMTT(30), <1>1, <2>1, <2>2 DEF Announced
  <2> QED BY <2>2, <2>3, <2>4, <2>5 DEF NicInv
<1>5. CASE nic!Main
  <2>1. /\ UNCHANGED <<rx_descs, rx_current, rdh, rdt, arrived, delivered>>
        /\ UNCHANGED <<tx_descs, tx_current, tdh, tdt, queued, outbox, on_wire>>
        /\ pc.at = "idle" /\ notifications' = {} /\ pc'.at \in {"cause", "async"} /\ pc'.todo = notifications
        /\ pc' \in [at : {"idle", "cause", "rx", "ack", "async"}, todo : SUBSET Kinds]
    BY <1>5, <1>t DEF nic!Main, nic!rxVars, nic!txVars, nic!Idle
  <2>2. RxInv' /\ TxInv'
    BY <1>1, <2>1, RxKept, TxKept
  <2>3. NicTyped'
    BY <1>t, <2>1 DEF NicTyped
  <2>4. Announced'
    BY <1>1, <2>1 DEF Announced
  <2> QED BY <2>2, <2>3, <2>4 DEF NicInv
<1>6. CASE nic!Cause
  <2>1. /\ UNCHANGED <<rx_descs, rx_current, rdh, rdt, arrived, delivered, notifications>>
        /\ UNCHANGED <<tx_descs, tx_current, tdh, tdt, queued, outbox, on_wire>>
        /\ pc.at = "cause" /\ pc'.at \in {"rx", "async"} /\ pc'.todo = pc.todo
        /\ pc' \in [at : {"idle", "cause", "rx", "ack", "async"}, todo : SUBSET Kinds]
    BY <1>6, <1>t DEF nic!Cause, nic!txVars
  <2>2. RxInv' /\ TxInv'
    BY <1>1, <2>1, RxKept, TxKept
  <2>3. NicTyped'
    BY <1>t, <2>1 DEF NicTyped
  <2>4. Announced'
    BY <1>1, <2>1 DEF Announced
  <2> QED BY <2>2, <2>3, <2>4 DEF NicInv
<1>7. CASE nic!Receive
  <2>1. /\ UNCHANGED <<rx_descs, rx_current, rdh, rdt, arrived, notifications>>
        /\ UNCHANGED <<tx_descs, tx_current, tdh, tdt, queued, outbox, on_wire>>
        /\ pc.at = "rx" /\ pc'.at = "ack" /\ pc'.todo = pc.todo
        /\ rx_descs[rx_current].done /\ delivered' = Append(delivered, rx_descs[rx_current].pkt)
        /\ pc' \in [at : {"idle", "cause", "rx", "ack", "async"}, todo : SUBSET Kinds]
    BY <1>7, <1>t DEF nic!Receive, nic!txVars
  <2>2. PICK n \in Nat : n = Handled
    BY <1>n
  <2>3. n = Len(delivered) /\ RxRing(n)
    BY <1>n, <2>1, <2>2 DEF Handled
  <2>4. n < arrived /\ rx_descs[rx_current].pkt = n + 1
    <3>1. rx_descs[rx_current].done
      BY <2>1
    <3>2. n < arrived /\ rx_descs[rx_current] = [done |-> TRUE, pkt |-> n + 1]
      BY <1>1, <2>3, <3>1, NextPacket
    <3> QED BY SMTT(30), <3>2
  <2>5. /\ delivered' \in Seq(Nat) /\ Len(delivered') = n + 1
        /\ \A i \in DOMAIN delivered' : delivered'[i] = 0 + i
    <3>1. delivered' = Append(delivered, n + 1) /\ n + 1 \in Nat /\ n + 1 = 0 + Len(delivered) + 1
      BY SMTT(30), <2>1, <2>3, <2>4
    <3>2. \A i \in DOMAIN delivered : delivered[i] = 0 + i
      BY SMTT(30), <1>t, <1>n
    <3> QED BY SMTT(30), <1>t, <2>3, <3>1, <3>2, AppendNext
  <2>6. Handled' = n
    BY SMTT(30), <2>1, <2>5 DEF Handled
  <2>7. RxRing(n)'
    BY <2>1, <2>3 DEF RxRing
  <2>8. RxInv'
    BY SMTT(30), <2>1, <2>4, <2>5, <2>6, <2>7 DEF RxInv
  <2>9. TxInv'
    BY <1>1, <2>1, TxKept
  <2>10. NicTyped'
    BY <1>t, <2>1, <2>5 DEF NicTyped
  <2>11. Announced'
    BY <1>1, <2>1 DEF Announced
  <2> QED BY <2>8, <2>9, <2>10, <2>11 DEF NicInv
<1>8. CASE nic!NoMore
  <2>1. /\ UNCHANGED <<rx_descs, rx_current, rdh, rdt, arrived, delivered, notifications>>
        /\ UNCHANGED <<tx_descs, tx_current, tdh, tdt, queued, outbox, on_wire>>
        /\ pc.at = "rx" /\ pc'.at = "async" /\ pc'.todo = pc.todo
        /\ pc' \in [at : {"idle", "cause", "rx", "ack", "async"}, todo : SUBSET Kinds]
    BY <1>8, <1>t DEF nic!NoMore, nic!txVars, nic!rxVars
  <2>2. RxInv' /\ TxInv'
    BY <1>1, <2>1, RxKept, TxKept
  <2>3. NicTyped'
    BY <1>t, <2>1 DEF NicTyped
  <2>4. Announced'
    BY <1>1, <2>1 DEF Announced
  <2> QED BY <2>2, <2>3, <2>4 DEF NicInv
<1>9. CASE nic!Ack
  <2>1. /\ UNCHANGED <<rdh, arrived, delivered, notifications>>
        /\ UNCHANGED <<tx_descs, tx_current, tdh, tdt, queued, outbox, on_wire>>
        /\ pc.at = "ack" /\ pc'.at = "rx" /\ pc'.todo = pc.todo
        /\ rx_descs' = [rx_descs EXCEPT ![rx_current].done = FALSE]
        /\ pc' \in [at : {"idle", "cause", "rx", "ack", "async"}, todo : SUBSET Kinds]
    BY <1>9, <1>t DEF nic!Ack, nic!txVars
  <2>2. PICK n \in Nat : n = Handled
    BY <1>n
  <2>3. n + 1 = Len(delivered) /\ RxRing(n) /\ n < arrived
    BY SMTT(30), <1>1, <1>n, <1>t, <2>1, <2>2 DEF Handled, RxInv
  <2>4. RxRing(n + 1)'
    BY <1>1, <1>9, <2>3, AckRing
  <2>5. Handled' = n + 1
    BY <2>1, <2>3 DEF Handled
  <2>6. RxInv'
    BY SMTT(30), <1>n, <2>1, <2>4, <2>5 DEF RxInv
  <2>7. rx_descs' \in [0..(NUM_RX_DESCS - 1) -> [done : BOOLEAN, pkt : Nat]]
    BY <1>t, <2>1
  <2>8. NicTyped'
    BY <1>t, <2>1, <2>7 DEF NicTyped
  <2>9. TxInv'
    BY <1>1, <2>1, TxKept
  <2>10. Announced'
    BY <1>1, <2>1 DEF Announced
  <2> QED BY <2>6, <2>8, <2>9, <2>10 DEF NicInv
<1>10. CASE nic!Transmit
  <2>1. /\ UNCHANGED <<rx_descs, rx_current, rdh, rdt, arrived, delivered, queued, on_wire>>
        /\ pc.at = "async" /\ pc'.at = "idle" /\ pc'.todo = {} /\ "ASYNC" \in pc.todo
        /\ outbox # <<>> /\ outbox' = Tail(outbox)
        /\ notifications' = IF Len(outbox) > 1 THEN notifications \cup {"ASYNC"} ELSE notifications
        /\ pc' \in [at : {"idle", "cause", "rx", "ack", "async"}, todo : SUBSET Kinds]
    BY <1>10, <1>t DEF nic!Transmit, nic!rxVars, nic!Idle
  <2>2. TxInv' /\ outbox' \in Seq(Nat) /\ tx_descs' \in [0..(NUM_TX_DESCS - 1) -> Nat]
    BY <1>1, <1>10, TransmitTx
  <2>3. RxInv'
    BY <1>1, <2>1, RxKept
  <2>4. NicTyped'
    BY <1>t, <2>1, <2>2 DEF NicTyped, Kinds
  <2>5. Len(outbox') = Len(outbox) - 1 /\ Len(outbox) \in Nat
    BY SMTT(30), <1>t, <2>1
  <2>6. "ASYNC" \in notifications' => Len(outbox') >= 1
    BY SMTT(30), <1>1, <2>1, <2>5 DEF Announced
  <2>7. Announced'
    BY <2>1, <2>6 DEF Announced
  <2> QED BY <2>2, <2>3, <2>4, <2>7 DEF NicInv
<1>11. CASE nic!NoAsync
  <2>1. /\ UNCHANGED <<rx_descs, rx_current, rdh, rdt, arrived, delivered, notifications>>
        /\ UNCHANGED <<tx_descs, tx_current, tdh, tdt, queued, outbox, on_wire>>
        /\ pc.at = "async" /\ pc'.at = "idle" /\ pc'.todo = {}
        /\ pc' \in [at : {"idle", "cause", "rx", "ack", "async"}, todo : SUBSET Kinds]
    BY <1>11 DEF nic!NoAsync, nic!txVars, nic!rxVars, nic!Idle
  <2>2. RxInv' /\ TxInv'
    BY <1>1, <2>1, RxKept, TxKept
  <2>3. NicTyped'
    BY <1>t, <2>1 DEF NicTyped
  <2>4. Announced'
    BY <1>1, <2>1 DEF Announced
  <2> QED BY <2>2, <2>3, <2>4 DEF NicInv
<1>12. CASE UNCHANGED nic!vars
  <2>1. /\ UNCHANGED <<rx_descs, rx_current, rdh, rdt, arrived, delivered, notifications, pc>>
        /\ UNCHANGED <<tx_descs, tx_current, tdh, tdt, queued, outbox, on_wire>>
    BY <1>12 DEF nic!vars, nic!rxVars, nic!txVars
  <2>2. RxInv' /\ TxInv'
    BY <1>1, <2>1, RxKept, TxKept
  <2>3. NicTyped' /\ Announced'
    BY <1>1, <2>1 DEF NicTyped, Announced
  <2> QED BY <2>2, <2>3 DEF NicInv
<1> QED
  BY <1>2, <1>3, <1>4, <1>5, <1>6, <1>7, <1>8, <1>9, <1>10, <1>11, <1>12 DEF nic!Next, nic!Driver

\* The e1000 driver delivers received packets and sends queued ones once and in
\* order, for rings of every length and however far they have wrapped; the device
\* never writes to the buffer of a packet that is being delivered, and the pull of
\* an announced packet finds one (e1000_handle_interrupt, e1000_transmit, transmit).
THEOREM PacketsInOrder ==
    ASSUME RingConstants, Paced
    PROVE  nic!Spec => []nic!PacketsFifo
<1>1. nic!Init => NicInv
  BY NicInit
<1>2. NicInv /\ [nic!Next]_(nic!vars) => NicInv'
  BY NicStep
<1>3. NicInv => nic!PacketsFifo
  <2> SUFFICES ASSUME NicInv PROVE nic!PacketsFifo
    OBVIOUS
  <2>1. /\ NicTyped /\ RxInv /\ TxInv /\ Announced
        /\ Handled \in Nat /\ RxRing(Handled) /\ delivered \in Seq(Nat) /\ arrived \in Nat
    BY DEF NicInv, RxInv, NicTyped
  <2>2. Handled <= arrived /\ (pc.at = "ack" => Handled < arrived)
    BY <2>1 DEF RxInv, RxRing
  <2>3. nic!RxFifo
    BY SMTT(30), <2>1, <2>2 DEF nic!RxFifo, Handled, RxInv
  <2>4. nic!RxOwned
    <3> SUFFICES ASSUME pc.at = "ack"
                 PROVE  rx_descs[rx_current] = [done |-> TRUE, pkt |-> delivered[Len(delivered)]]
      BY DEF nic!RxOwned
    <3>1. PICK n \in Nat : n = Handled
      BY <2>1
    <3>2. Len(delivered) = n + 1 /\ n \in n..(arrived - 1)
      BY SMTT(30), <2>1, <2>2, <3>1 DEF Handled
    <3>3. rx_current = Slot(n, NUM_RX_DESCS)
      BY <2>1, <3>1 DEF RxRing
    <3>4. rx_descs[Slot(n, NUM_RX_DESCS)] = [done |-> TRUE, pkt |-> n + 1]
      BY <2>1, <3>1, <3>2 DEF RxRing
    <3>5. delivered[n + 1] = n + 1
      BY SMTT(30), <2>1, <3>2 DEF RxInv
    <3> QED BY <3>2, <3>3, <3>4, <3>5
  <2>5. nic!PullFinds
    BY SMTT(30), <2>1 DEF Announced, nic!PullFinds
  <2>6. nic!TxFifo
    BY <2>1 DEF TxInv, nic!TxFifo
  <2> QED BY <2>3, <2>4, <2>5, <2>6 DEF nic!PacketsFifo
<1> QED BY <1>1, <1>2, <1>3, PTL DEF nic!Spec

===============================================================================
