------------------------------- MODULE Dlist -------------------------------
(***************************************************************************)
(* The linked lists of dlist.h, pointer by pointer, and the mailboxes of   *)
(* mbox.c that are made of one and a length.  A list is a ring through its *)
(* header; a node that is on no list has null pointers (dlnode_init,       *)
(* dlnode_remove).                                                         *)
(*                                                                         *)
(* The caller of an insertion hands over a node that is on no list, and    *)
(* the caller of dlnode_remove one that is.  Each call is one step: a      *)
(* mailbox makes it under its lock.                                        *)
(***************************************************************************)
EXTENDS Integers, FiniteSets

CONSTANTS
    Node,             \* what can be on a list: the messages
    Mailbox,          \* the lists, by their headers, that are mailboxes ...
    PlainList,        \* ... and that are not
    NULL

List == Mailbox \cup PlainList

ASSUME DlistAssumption ==
    /\ IsFiniteSet(Node)
    /\ Mailbox \cap PlainList = {}
    /\ Node \cap List = {}
    /\ NULL \notin Node \cup List

VARIABLES
    next, prev,       \* the links of every node and header
    owner,            \* the list it is on
    len,              \* the length a mailbox keeps
    freed             \* a header was handed out as a message, and freed

vars == <<next, prev, owner, len, freed>>

Cell == Node \cup List

\* dlist_init of each list, dlnode_init of each node.
Init ==
    /\ next = [c \in Cell |-> IF c \in List THEN c ELSE NULL]
    /\ prev = next
    /\ owner = next
    /\ len = [b \in Mailbox |-> 0]
    /\ freed = FALSE

---------------------------------------------------------------------------
(* dlist.h                                                                 *)

dlnode_insertnext(n, new) ==
    /\ next' = [next EXCEPT ![new] = next[n], ![n] = new]
    /\ prev' = [prev EXCEPT ![next[n]] = new, ![new] = n]
    /\ owner' = [owner EXCEPT ![new] = owner[n]]

\* An insertion that forgets the node before.
BugInsertprev(n, new) ==
    /\ prev' = [prev EXCEPT ![new] = prev[n], ![n] = new]
    /\ next' = [next EXCEPT ![new] = n]
    /\ owner' = [owner EXCEPT ![new] = owner[n]]

dlnode_insertprev(n, new) ==
    /\ prev' = [prev EXCEPT ![new] = prev[n], ![n] = new]
    /\ next' = [next EXCEPT ![prev[n]] = new, ![new] = n]
    /\ owner' = [owner EXCEPT ![new] = owner[n]]

dlnode_remove(n) ==
    /\ next' = [next EXCEPT ![prev[n]] = next[n], ![n] = NULL]
    /\ prev' = [prev EXCEPT ![next[n]] = prev[n], ![n] = NULL]
    /\ owner' = [owner EXCEPT ![n] = NULL]

\* The header itself when the list is empty.
dlist_first(l) == next[l]

dlist_insertfirst(l, n) == dlnode_insertnext(l, n)

\* A queue that has become a stack.
BugInsertlast(l, n) == dlnode_insertnext(l, n)

dlist_insertlast(l, n) == dlnode_insertprev(l, n)

---------------------------------------------------------------------------
(* The calls                                                               *)

Unlinked(n) == owner[n] = NULL

\* On a plain list anything goes, before or after any member or the header.
Insert ==
    /\ \E n \in Cell, new \in Node :
         /\ Unlinked(new)
         /\ owner[n] \in PlainList
         /\ \/ dlnode_insertnext(n, new)
            \/ dlnode_insertprev(n, new)
    /\ UNCHANGED <<len, freed>>

InsertAtEnd ==
    /\ \E l \in PlainList, new \in Node :
         /\ Unlinked(new)
         /\ \/ dlist_insertfirst(l, new)
            \/ dlist_insertlast(l, new)
    /\ UNCHANGED <<len, freed>>

Remove ==
    /\ \E n \in Node : owner[n] \in PlainList /\ dlnode_remove(n)
    /\ UNCHANGED <<len, freed>>

mbox_msg_post ==
    /\ \E b \in Mailbox, new \in Node :
         /\ Unlinked(new)
         /\ dlist_insertlast(b, new)
         /\ len' = [len EXCEPT ![b] = @ + 1]
    /\ UNCHANGED freed

\* The test for a message never fails: an empty mailbox gives its header away, to
\* be freed, and -1 stands for the largest size_t.
mbox_msg_get ==
    \E b \in Mailbox :
        /\ dlnode_remove(dlist_first(b))
        /\ len' = [len EXCEPT ![b] = @ - 1]
        /\ freed' = (dlist_first(b) \notin Node)

Next ==
    /\ ~ freed
    /\ Insert \/ InsertAtEnd \/ Remove \/ mbox_msg_post \/ mbox_msg_get

Spec == Init /\ [][Next]_vars
=============================================================================
