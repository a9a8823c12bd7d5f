-------------------------------- MODULE Mbox --------------------------------
(***************************************************************************)
(* A mailbox (mbox.c): a queue of messages behind a mutex, with a          *)
(* condition variable for readers that wait.  Each operator is what one    *)
(* critical section does to the box; `waiting` counts the threads inside   *)
(* pthread_cond_timedwait, `signals` those of them that have been signalled *)
(* and have not run yet.                                                   *)
(***************************************************************************)
EXTENDS Naturals, Sequences

\* A box with one reader.
Box(msg) == [msgs : Seq(msg), waiting : 0 .. 1, signals : 0 .. 1]

mbox_init == [msgs |-> <<>>, waiting |-> 0, signals |-> 0]

\* A length that the newest message does not count in.
BugLenMissesLast(box) == IF box.msgs = <<>> THEN 0 ELSE Len(box.msgs) - 1

mbox_len(box) == Len(box.msgs)

\* A post at the wrong end of the list.
BugPostFirst(box, msg) ==
    [box EXCEPT !.msgs = <<msg>> \o @,
                !.signals = IF box.waiting > @ THEN @ + 1 ELSE @]

mbox_msg_post(box, msg) ==
    [box EXCEPT !.msgs = Append(@, msg),
                !.signals = IF box.waiting > @ THEN @ + 1 ELSE @]

\* dlist_first of an empty list is the list header itself, not NULL, so the test
\* for "no message" never fails: the header is unlinked and handed out as a
\* message, and the caller frees it.
Unlinks(box) == box.msgs = <<>>

\* The last message unlinked instead of the one handed out.
BugUnlinksLast(box) == [box EXCEPT !.msgs = SubSeq(@, 1, Len(@) - 1)]

\* What is left after a message, the first, has been taken.
Taken(box) == [box EXCEPT !.msgs = Tail(@)]

\* mbox_msg_get_wait on an empty box: the thread joins the waiters ...
WaitBegins(box) == [box EXCEPT !.waiting = @ + 1]

\* ... and leaves them when it is signalled, or when it times out or wakes up
\* for no reason.
WaitSignalled(box) == [box EXCEPT !.waiting = @ - 1, !.signals = @ - 1]

\* A waiter that is never counted out.
BugStaysCounted(box) == box

WaitExpires(box) == [box EXCEPT !.waiting = @ - 1]

Signalled(box) == box.signals > 0
Expirable(box) == box.waiting > box.signals
=============================================================================
