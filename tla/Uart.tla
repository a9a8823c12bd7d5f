-------------------------------- MODULE Uart --------------------------------
(***************************************************************************)
(* The UART coprocessor (sim_cp_uart.c): a receive thread and a transmit   *)
(* thread on the host, a mailbox towards each, and the callbacks the       *)
(* simulator thread runs: exec for an operation of the program, data once  *)
(* per cycle, reset and deinit.                                            *)
(*                                                                         *)
(* A step is one critical section of a mailbox or one unlocked read of a   *)
(* shared field.  A character is a serial number: that of its arrival on   *)
(* the receive side, that of its posting on the transmit side.             *)
(***************************************************************************)
EXTENDS Mbox

CONSTANTS
    FIFO_LEN,
    Operations,       \* the CP_UART_INSTR_* operations the program uses
    CtlWrites,        \* the values it writes to the register CTL
    Resets,           \* whether the user gives the `reset all` command
    SpuriousWakeups,  \* whether a condition variable wakes for no reason
    ReadErrors,       \* whether read() fails
    RxChars, TxChars  \* bounds: characters that arrive and are accepted, that are sent

\* NOOP and the two operations that only read a length are ExecNothing below.
Operation == {"SEND", "RECV", "RESET_TX", "RESET_RX", "CLEAR", "FIFOS_ON", "FIFOS_OFF",
              "INT_ACK"}

CtlBit == {"RX_AVAIL_INT", "TX_SPACE_INT"}
StatusBit == {"RX_AVAIL", "TX_SPACE"}

ASSUME UartAssumption ==
    /\ FIFO_LEN \in Nat \ {0}
    /\ Operations \subseteq Operation
    /\ CtlWrites \subseteq SUBSET CtlBit
    /\ RxChars \in Nat /\ TxChars \in Nat
    /\ {Resets, SpuriousWakeups, ReadErrors} \subseteq BOOLEAN

VARIABLES
    in_box, out_box,
    rx,               \* receive thread: [at, c, used]
    tx,               \* transmit thread: [at, c]
    core,             \* simulator thread: [at, n, op]
    CTL, STATUS,      \* the registers, as the bits that are set
    fifo_en, rx_raised, tx_raised, run_threads,
    line,             \* exint_sig of this coprocessor
    crashed,          \* free() has been handed a list header
    arrived, posted,  \* serial numbers used so far
    accepted, received, sent   \* history: characters queued, taken by the program, written

vars == <<in_box, out_box, rx, tx, core, CTL, STATUS, fifo_en, rx_raised, tx_raised,
          run_threads, line, crashed, arrived, posted, accepted, received, sent>>

registers == <<CTL, STATUS>>
flags == <<fifo_en, rx_raised, tx_raised, line>>
rxSide == <<rx, arrived, accepted>>
txSide == <<tx, sent>>

Init ==
    /\ in_box = mbox_init /\ out_box = mbox_init
    /\ rx = [at |-> "poll", c |-> 0, used |-> 0]
    /\ tx = [at |-> "loop", c |-> 0]
    /\ core = [at |-> "exec", n |-> 0, op |-> "NOOP"]
    /\ CTL = {} /\ STATUS = {}
    /\ fifo_en = FALSE /\ rx_raised = FALSE /\ tx_raised = FALSE
    /\ run_threads = TRUE
    /\ line = FALSE
    /\ crashed = FALSE
    /\ arrived = 0 /\ posted = 0
    /\ accepted = <<>> /\ received = <<>> /\ sent = <<>>

---------------------------------------------------------------------------
(* rx_thr_fun                                                              *)

RxRead ==
    /\ rx.at = "poll"
    /\ run_threads
    /\ arrived < RxChars
    /\ arrived' = arrived + 1
    /\ rx' = [rx EXCEPT !.at = "used", !.c = arrived + 1]
    /\ UNCHANGED <<in_box, accepted>>

\* EINTR is told apart from the other errors, but not from a character: the one
\* in c, from before, goes on.
RxReadInterrupted ==
    /\ rx.at = "poll"
    /\ run_threads
    /\ ReadErrors
    /\ Len(accepted) < RxChars
    /\ rx' = [rx EXCEPT !.at = "used"]
    /\ UNCHANGED <<in_box, arrived, accepted>>

\* Any other error of poll() or read() ends the thread.
RxReadFails ==
    /\ rx.at = "poll"
    /\ run_threads
    /\ ReadErrors
    /\ rx' = [rx EXCEPT !.at = "done"]
    /\ UNCHANGED <<in_box, arrived, accepted>>

RxUsed ==
    /\ rx.at = "used"
    /\ rx' = [rx EXCEPT !.at = "decide", !.used = mbox_len(in_box)]
    /\ UNCHANGED <<in_box, arrived, accepted>>

BugRoomForOneMore == \/ fifo_en /\ rx.used <= FIFO_LEN
                     \/ rx.used = 0

Room == \/ fifo_en /\ rx.used < FIFO_LEN
        \/ rx.used = 0

RxDecide ==
    /\ rx.at = "decide"
    /\ IF Room
       THEN rx' = [rx EXCEPT !.at = "post"] /\ accepted' = Append(accepted, rx.c)
       ELSE rx' = [rx EXCEPT !.at = "poll"] /\ UNCHANGED accepted
    /\ UNCHANGED <<in_box, arrived>>

RxPost ==
    /\ rx.at = "post"
    /\ in_box' = mbox_msg_post(in_box, rx.c)
    /\ rx' = [rx EXCEPT !.at = "poll"]
    /\ UNCHANGED <<arrived, accepted>>

RxFinish ==
    /\ rx.at = "poll"
    /\ ~ run_threads
    /\ rx' = [rx EXCEPT !.at = "done"]
    /\ UNCHANGED <<in_box, arrived, accepted>>

RxThread ==
    /\ ~ crashed
    /\ \/ RxRead \/ RxReadInterrupted \/ RxReadFails \/ RxUsed \/ RxDecide \/ RxPost \/ RxFinish
    /\ UNCHANGED <<out_box, core, registers, flags, run_threads, crashed, posted, received,
                   txSide>>

---------------------------------------------------------------------------
(* tx_thr_fun, with mbox_msg_get_wait inlined                              *)

TxTake(box) ==
    IF Unlinks(box)
    THEN crashed' = TRUE /\ out_box' = box /\ UNCHANGED tx
    ELSE /\ tx' = [at |-> "write", c |-> Head(box.msgs)]
         /\ out_box' = Taken(box)
         /\ UNCHANGED crashed

TxGet ==
    /\ tx.at = "loop"
    /\ run_threads
    /\ mbox_len(out_box) > 0
    /\ TxTake(out_box)
    /\ UNCHANGED sent

TxWait ==
    /\ tx.at = "loop"
    /\ run_threads
    /\ mbox_len(out_box) = 0
    /\ out_box' = WaitBegins(out_box)
    /\ tx' = [tx EXCEPT !.at = "wait"]
    /\ UNCHANGED <<sent, crashed>>

TxSignalled ==
    /\ tx.at = "wait"
    /\ Signalled(out_box)
    /\ TxTake(WaitSignalled(out_box))
    /\ UNCHANGED sent

\* A wait without a time limit, back to sleep on an empty box.
BugWaitsForever ==
    /\ tx.at = "wait"
    /\ Expirable(out_box)
    /\ UNCHANGED <<out_box, tx, sent, crashed>>

TxTimeout ==
    /\ tx.at = "wait"
    /\ Expirable(out_box)
    /\ out_box' = WaitExpires(out_box)
    /\ tx' = [tx EXCEPT !.at = "loop"]
    /\ UNCHANGED <<sent, crashed>>

TxSpurious ==
    /\ tx.at = "wait"
    /\ SpuriousWakeups
    /\ Expirable(out_box)
    /\ TxTake(WaitExpires(out_box))
    /\ UNCHANGED sent

TxWrite ==
    /\ tx.at = "write"
    /\ sent' = Append(sent, tx.c)
    /\ tx' = [tx EXCEPT !.at = "loop"]
    /\ UNCHANGED <<out_box, crashed>>

TxFinish ==
    /\ tx.at = "loop"
    /\ ~ run_threads
    /\ tx' = [tx EXCEPT !.at = "done"]
    /\ UNCHANGED <<out_box, sent, crashed>>

TxThread ==
    /\ ~ crashed
    /\ \/ TxGet \/ TxWait \/ TxSignalled \/ TxTimeout \/ TxSpurious \/ TxWrite \/ TxFinish
    /\ UNCHANGED <<in_box, core, registers, flags, run_threads, posted, received, rxSide>>

---------------------------------------------------------------------------
(* The simulator thread: uart_state_exec                                   *)

To(at) == core' = [core EXCEPT !.at = at]

Issue(op) == core.at = "exec" /\ op \in Operations

\* A cycle without an operation for this coprocessor, or with one that only
\* reads: NOOP, TXUSED, RXUSED, or a register access.
ExecNothing ==
    /\ core.at = "exec"
    /\ core' \in {[core EXCEPT !.at = "rxint", !.op = op] :
                    op \in {"NOOP"} \cup (IF CtlWrites = {} THEN {} ELSE {"WRITE"})}
    /\ UNCHANGED <<in_box, out_box, registers, flags, crashed, posted, received>>

ExecSend ==
    /\ Issue("SEND")
    /\ posted < TxChars
    /\ To(IF mbox_len(out_box) < FIFO_LEN THEN "post" ELSE "rxint")
    /\ UNCHANGED <<in_box, out_box, registers, flags, crashed, posted, received>>

SendPost ==
    /\ core.at = "post"
    /\ out_box' = mbox_msg_post(out_box, posted + 1)
    /\ posted' = posted + 1
    /\ To("rxint")
    /\ UNCHANGED <<in_box, registers, flags, crashed, received>>

\* RECV without its test of the length.
BugRecvUnchecked ==
    /\ Issue("RECV")
    /\ To("get")
    /\ UNCHANGED <<in_box, out_box, registers, flags, crashed, posted, received>>

ExecRecv ==
    /\ Issue("RECV")
    /\ To(IF mbox_len(in_box) > 0 THEN "get" ELSE "rxint")
    /\ UNCHANGED <<in_box, out_box, registers, flags, crashed, posted, received>>

RecvGet ==
    /\ core.at = "get"
    /\ IF Unlinks(in_box)
       THEN crashed' = TRUE /\ UNCHANGED <<in_box, received>>
       ELSE /\ received' = Append(received, Head(in_box.msgs))
            /\ in_box' = Taken(in_box)
            /\ UNCHANGED crashed
    /\ To("rxint")
    /\ UNCHANGED <<out_box, registers, flags, posted>>

\* The operations that only touch a flag.
ExecFlag ==
    /\ \/ Issue("RESET_TX") /\ tx_raised' = FALSE /\ UNCHANGED <<fifo_en, rx_raised, line>>
       \/ Issue("RESET_RX") /\ rx_raised' = FALSE /\ UNCHANGED <<fifo_en, tx_raised, line>>
       \/ Issue("FIFOS_ON") /\ fifo_en' = TRUE /\ UNCHANGED <<rx_raised, tx_raised, line>>
       \/ Issue("FIFOS_OFF") /\ fifo_en' = FALSE /\ UNCHANGED <<rx_raised, tx_raised, line>>
       \/ Issue("INT_ACK") /\ line' = FALSE /\ UNCHANGED <<fifo_en, rx_raised, tx_raised>>
    /\ To("rxint")
    /\ UNCHANGED <<in_box, out_box, registers, crashed, posted, received>>

\* CLEAR counts the receive box and drains the transmit box.
ExecClear ==
    /\ Issue("CLEAR")
    /\ core' = [core EXCEPT !.at = "clear", !.n = mbox_len(in_box)]
    /\ UNCHANGED <<in_box, out_box, registers, flags, crashed, posted, received>>

\* Take n messages from the transmit box and free them, then go on at `next`.
DrainOut(next) ==
    IF core.n = 0
    THEN To(next) /\ UNCHANGED <<out_box, crashed>>
    ELSE /\ core' = [core EXCEPT !.n = @ - 1]
         /\ IF Unlinks(out_box)
            THEN crashed' = TRUE /\ UNCHANGED out_box
            ELSE out_box' = Taken(out_box) /\ UNCHANGED crashed

ClearGet ==
    /\ core.at = "clear"
    /\ DrainOut("rxint")
    /\ UNCHANGED <<in_box, registers, flags, posted, received>>

---------------------------------------------------------------------------
(* uart_state_data, and the register write at the end of a cycle           *)

\* Raised only when the bit of STATUS goes up, which it may have done before the
\* program asked for interrupts.
BugEdgeRaises == "RX_AVAIL_INT" \in CTL /\ "RX_AVAIL" \notin STATUS

\* The condition of the receive interrupt, with a character there.
RxRaises == ~ rx_raised /\ "RX_AVAIL_INT" \in CTL

\* A status bit that is set and never cleared.
BugStatusSticks == STATUS' = STATUS \cup {"RX_AVAIL"}

RxStatus ==
    STATUS' = IF mbox_len(in_box) > 0 THEN STATUS \cup {"RX_AVAIL"}
                                      ELSE STATUS \ {"RX_AVAIL"}

DataRx ==
    /\ core.at = "rxint"
    /\ To("txint")
    /\ RxStatus
    /\ IF mbox_len(in_box) > 0 /\ RxRaises
       THEN line' = TRUE /\ rx_raised' = TRUE
       ELSE UNCHANGED <<line, rx_raised>>
    /\ UNCHANGED <<in_box, out_box, CTL, fifo_en, tx_raised, crashed, posted, received>>

DataTx ==
    /\ core.at = "txint"
    /\ To("write")
    /\ IF mbox_len(out_box) < FIFO_LEN
       THEN /\ STATUS' = STATUS \cup {"TX_SPACE"}
            /\ IF ~ tx_raised /\ "TX_SPACE_INT" \in CTL
               THEN line' = TRUE /\ tx_raised' = TRUE
               ELSE UNCHANGED <<line, tx_raised>>
       ELSE STATUS' = STATUS \ {"TX_SPACE"} /\ UNCHANGED <<line, tx_raised>>
    /\ UNCHANGED <<in_box, out_box, CTL, fifo_en, rx_raised, crashed, posted, received>>

\* mtcp to CTL, when this cycle's instruction is one.
Write ==
    /\ core.at = "write"
    /\ IF core.op = "WRITE" THEN CTL' \in CtlWrites
                            ELSE UNCHANGED CTL
    /\ core' = [core EXCEPT !.at = "exec", !.op = "NOOP"]
    /\ UNCHANGED <<in_box, out_box, STATUS, flags, crashed, posted, received>>

---------------------------------------------------------------------------
(* uart_state_reset and uart_state_deinit, between cycles                  *)

\* sim_cp_hdr_reset has cleared the registers.
ResetBegins ==
    /\ Resets
    /\ core.at = "exec"
    /\ CTL' = {} /\ STATUS' = {}
    /\ core' = [core EXCEPT !.at = "resetin", !.n = mbox_len(in_box)]
    /\ UNCHANGED <<in_box, out_box, flags, crashed, posted, received>>

\* What reset discards counts as received: the program's side took it.
ResetIn ==
    /\ core.at = "resetin"
    /\ IF core.n = 0
       THEN /\ core' = [core EXCEPT !.at = "resetout", !.n = mbox_len(out_box)]
            /\ UNCHANGED <<in_box, received, crashed>>
       ELSE /\ core' = [core EXCEPT !.n = @ - 1]
            /\ IF Unlinks(in_box)
               THEN crashed' = TRUE /\ UNCHANGED <<in_box, received>>
               ELSE /\ received' = Append(received, Head(in_box.msgs))
                    /\ in_box' = Taken(in_box)
                    /\ UNCHANGED crashed
    /\ UNCHANGED <<out_box, registers, flags, posted>>

ResetOut ==
    /\ core.at = "resetout"
    /\ DrainOut("resetcore")
    /\ UNCHANGED <<in_box, registers, flags, posted, received>>

\* reset_core clears the pins; the UART's own flags stay.
ResetCore ==
    /\ core.at = "resetcore"
    /\ To("exec")
    /\ line' = FALSE
    /\ UNCHANGED <<in_box, out_box, registers, fifo_en, rx_raised, tx_raised, crashed, posted,
                   received>>

SimThread ==
    /\ ~ crashed
    /\ \/ ExecNothing \/ ExecSend \/ SendPost \/ ExecRecv \/ RecvGet \/ ExecFlag
       \/ ExecClear \/ ClearGet
       \/ DataRx \/ DataTx \/ Write
       \/ ResetBegins \/ ResetIn \/ ResetOut \/ ResetCore
    /\ UNCHANGED <<run_threads, rxSide, txSide>>

Quit ==
    /\ ~ crashed
    /\ core.at = "exec"
    /\ To("joinrx")
    /\ run_threads' = FALSE
    /\ UNCHANGED <<in_box, out_box, registers, flags, crashed, posted, received, rxSide, txSide>>

Join ==
    /\ ~ crashed
    /\ \/ core.at = "joinrx" /\ rx.at = "done" /\ To("jointx")
       \/ core.at = "jointx" /\ tx.at = "done" /\ To("done")
    /\ UNCHANGED <<in_box, out_box, registers, flags, run_threads, crashed, posted, received,
                   rxSide, txSide>>

Next == RxThread \/ TxThread \/ SimThread \/ Quit \/ Join

\* The host schedules the three threads; nothing forces the user to quit or a
\* character to arrive, nor the condition variable to wake for no reason.
Fairness ==
    /\ WF_vars(RxThread)
    /\ WF_vars(TxThread)
    /\ WF_vars(SimThread)
    /\ WF_vars(Join)

Spec == Init /\ [][Next]_vars /\ Fairness
=============================================================================
