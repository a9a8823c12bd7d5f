----------------------------- MODULE DlistProps -----------------------------
(***************************************************************************)
(* What the lists and mailboxes are checked for.                           *)
(***************************************************************************)
EXTENDS Dlist, Sequences

\* A cell on a list has both neighbours on the same list, and each points back.
Linked(c) ==
    /\ next[c] \in Cell /\ owner[next[c]] = owner[c] /\ prev[next[c]] = c
    /\ prev[c] \in Cell /\ owner[prev[c]] = owner[c] /\ next[prev[c]] = c

Members(l) == {n \in Node : owner[n] = l}

\* The links, the owners and the lengths agree, whatever has been inserted where and
\* taken from where, as long as nobody takes from an empty mailbox (dlist.h keeps
\* three pointers per node, mbox.c a length beside them).
WellLinked ==
    ~ freed =>
        /\ \A c \in Cell : IF owner[c] = NULL THEN next[c] = NULL /\ prev[c] = NULL
                                              ELSE Linked(c)
        /\ \A l \in List : owner[l] = l
        /\ \A b \in Mailbox : len[b] = Cardinality(Members(b))

\* The nodes on a list, from its header on.
Chain(l) ==
    LET From[n \in Cell \cup {NULL}] ==
            IF n \in Node THEN <<n>> \o From[next[n]] ELSE <<>>
    IN  From[next[l]]

Abstract == INSTANCE Queues WITH queue <- [l \in List |-> Chain(l)]

\* Following the pointers gives the sequence the calls should have made, mailboxes
\* being first in first out (the refinement of Queues; Mbox takes a mailbox to be
\* this sequence).
IsQueue == Abstract!Spec
=============================================================================
