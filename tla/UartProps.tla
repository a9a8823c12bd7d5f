------------------------------ MODULE UartProps ------------------------------
(***************************************************************************)
(* What the UART is checked for.                                           *)
(***************************************************************************)
EXTENDS Uart

Chars(n) == [i \in 1 .. n |-> i]

Increasing(s) == \A i, j \in DOMAIN s : i < j => s[i] < s[j]

\* Every variable stays within its type (sim_cp_uart_state_t and the locals of
\* the two threads).
TypeOK ==
    /\ in_box \in Box(0 .. RxChars) /\ out_box \in Box(1 .. TxChars)
    /\ rx \in [at : {"poll", "used", "decide", "post", "done"}, c : 0 .. RxChars, used : Nat]
    /\ tx \in [at : {"loop", "wait", "write", "done"}, c : 0 .. TxChars]
    /\ core \in [at : {"exec", "post", "get", "clear", "rxint", "txint", "write", "resetin",
                       "resetout", "resetcore", "joinrx", "jointx", "done"},
                 n : Nat, op : {"NOOP", "WRITE"}]
    /\ CTL \subseteq CtlBit /\ STATUS \subseteq StatusBit
    /\ {fifo_en, rx_raised, tx_raised, run_threads, line, crashed} \subseteq BOOLEAN
    /\ arrived \in 0 .. RxChars /\ posted \in 0 .. TxChars
    /\ accepted \in Seq(0 .. RxChars) /\ received \in Seq(0 .. RxChars)
    /\ sent \in Seq(1 .. TxChars)

\* A box never holds more than FIFO_LEN characters, though its length is read
\* without the lock and the post comes later (rx_thr_fun, SEND).
BoxesBounded == mbox_len(in_box) <= FIFO_LEN /\ mbox_len(out_box) <= FIFO_LEN

\* What the receive thread accepts reaches the program once, in order, or is still
\* on its way (rx_thr_fun, mbox_msg_post, RECV).
RxConserved ==
    /\ Increasing(accepted)
    /\ received \o in_box.msgs \o (IF rx.at = "post" THEN <<rx.c>> ELSE <<>>) = accepted

\* What the program sends is written once, in order, or is still on its way
\* (SEND, mbox_msg_get_wait, tx_thr_fun).
TxConserved ==
    sent \o (IF tx.at = "write" THEN <<tx.c>> ELSE <<>>) \o out_box.msgs = Chars(posted)

\* No character is written twice or overtaken, whatever is thrown away meanwhile
\* by a reset that races with the transmit thread (uart_state_reset, tx_thr_fun).
SentOnce == Increasing(sent)

\* A status bit the program reads is still true when it acts on it, though the
\* threads go on: RX_AVAIL promises a character, TX_SPACE room for one
\* (uart_state_data, exec of the next cycle).
StatusHonest ==
    core.at = "exec" =>
        /\ "RX_AVAIL" \in STATUS => mbox_len(in_box) > 0
        /\ "TX_SPACE" \in STATUS => mbox_len(out_box) < FIFO_LEN

\* No reader takes a message from an empty box: dlist_first would hand out the
\* list header (mbox.c:48, mbox.c:82), which its caller frees.
NoEmptyGet == ~ crashed

\* What has been sent is written, unless the simulator quits first: the wait of
\* the transmit thread misses no post (mbox_msg_post signals, tx_thr_fun waits).
TxDrains == posted > Len(sent) ~> Len(sent) = posted \/ ~ run_threads

\* A character waiting while its interrupt is enabled and armed raises the line
\* (uart_state_data), also when it came before the interrupt was enabled.
RxInterruptRaised ==
    (/\ mbox_len(in_box) > 0
     /\ "RX_AVAIL_INT" \in CTL
     /\ ~ rx_raised) ~> line \/ mbox_len(in_box) = 0 \/ "RX_AVAIL_INT" \notin CTL \/ ~ run_threads

\* Quitting ends: both threads see run_threads and are joined, whatever they wait
\* for (uart_state_deinit).
Stops == core.at = "joinrx" ~> core.at = "done"
=============================================================================
