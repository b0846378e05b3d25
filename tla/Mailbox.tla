------------------------------- MODULE Mailbox -------------------------------
(***************************************************************************)
(* What asynchronous messages promise (libs/resea/include/resea/async.h):  *)
(* one mailbox per destination, first in first out, nothing is lost or     *)
(* delivered twice, and a message that was sent is eventually delivered.   *)
(***************************************************************************)
EXTENDS Naturals, Sequences

CONSTANTS Dsts, Msgs

VARIABLES
    box,    \* the messages sent to a destination and not delivered yet
    last    \* the message that a destination has received last

vars == <<box, last>>

NoMsg == 0

Init == box = [d \in Dsts |-> <<>>] /\ last = [d \in Dsts |-> NoMsg]

async_send(d, m) ==
    /\ box' = [box EXCEPT ![d] = Append(@, m)]
    /\ UNCHANGED last

async_recv(d) ==
    /\ box[d] # <<>>
    /\ box' = [box EXCEPT ![d] = Tail(@)]
    /\ last' = [last EXCEPT ![d] = Head(box[d])]

Next == \E d \in Dsts : async_recv(d) \/ \E m \in Msgs : async_send(d, m)

Spec == Init /\ [][Next]_vars /\ \A d \in Dsts : WF_vars(async_recv(d))
=============================================================================
