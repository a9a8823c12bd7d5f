------------------------------- MODULE Queues -------------------------------
(***************************************************************************)
(* What lists and mailboxes are for: each is a sequence of nodes, no node  *)
(* is in two places, nodes come and go one at a time, anywhere in a plain  *)
(* list, and at the two ends of a mailbox, first in first out.             *)
(***************************************************************************)
EXTENDS SequencesExt

CONSTANTS Node, Mailbox, PlainList

VARIABLE queue

List == Mailbox \cup PlainList

Init == queue = [l \in List |-> <<>>]

Unlinked == {n \in Node : \A l \in List : ~ Contains(queue[l], n)}

PutIn(l) ==
    \E n \in Unlinked, i \in 1 .. Len(queue[l]) + 1 :
        queue' = [queue EXCEPT ![l] = InsertAt(@, i, n)]

TakeOut(l) ==
    \E i \in DOMAIN queue[l] : queue' = [queue EXCEPT ![l] = RemoveAt(@, i)]

Post(b) == \E n \in Unlinked : queue' = [queue EXCEPT ![b] = Append(@, n)]

Get(b) == queue[b] # <<>> /\ queue' = [queue EXCEPT ![b] = Tail(@)]

Next ==
    \/ \E l \in PlainList : PutIn(l) \/ TakeOut(l)
    \/ \E b \in Mailbox : Post(b) \/ Get(b)

Spec == Init /\ [][Next]_queue
=============================================================================
