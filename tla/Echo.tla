-------------------------------- MODULE Echo --------------------------------
(***************************************************************************)
(* An interrupt driven program over the UART: the echo of                  *)
(* tests/sim/test_41.asm, instruction by instruction where an instruction  *)
(* touches the UART, the interrupt enable bit or the loop it waits in.  It *)
(* answers every character but 'q' with a character, and exits on 'q',     *)
(* which is the last one to arrive here.                                   *)
(*                                                                         *)
(* An instruction takes as many cycles as its fetch stalls for.  Of the    *)
(* core there is what decides when the handler runs: an interrupt is taken *)
(* before the instruction at pc is, by a sleeping core as well, and        *)
(* returns to pc (sim_core_exec).                                          *)
(***************************************************************************)
EXTENDS Uart

VARIABLES
    pc,               \* the instruction to come
    epc,              \* where the handler returns
    gie,              \* STATUS.GIE of the core
    sleeping,
    r6,               \* the sentinel: 'q' has been read
    VAL,              \* the UART's register, a character and its answer being one
    echo              \* history: the characters answered, by their number of arrival

driver == <<pc, epc, gie, sleeping, r6, VAL, echo>>

echoVars == <<vars, driver>>

ASSUME EchoAssumption ==
    /\ {"RECV", "SEND", "RESET_RX", "FIFOS_ON", "INT_ACK"} \subseteq Operations
    /\ CtlWrites = {{"RX_AVAIL_INT"}}

\* A handler that re-arms the interrupt before it takes the character.
BugRearmFirst == <<"ack", "reset", "recv", "check", "send", "return">>

\* A handler that acknowledges the interrupt last.
BugAckLast == <<"recv", "check", "send", "reset", "ack", "return">>

HandlerCode == <<"ack", "recv", "check", "send", "reset", "return">>

\* The next instruction of the handler.
FollowedBy(label) ==
    LET i == CHOOSE j \in DOMAIN HandlerCode : HandlerCode[j] = label
    IN  HandlerCode[i + 1]

EchoInit ==
    /\ Init
    /\ pc = "ctl" /\ epc = "ctl"
    /\ gie = FALSE /\ sleeping = FALSE /\ r6 = FALSE
    /\ VAL = 0
    /\ echo = <<>>

---------------------------------------------------------------------------
(* The cycles of the simulator thread, told apart by what the core does    *)

Interrupted == line /\ gie

Execs(label) == pc = label /\ ~ sleeping /\ ~ Interrupted

\* The fetch is not answered yet, or the core sleeps.
Stall == ExecNothing /\ core'.op = "NOOP" /\ UNCHANGED driver

Interrupt ==
    /\ Interrupted
    /\ ExecNothing /\ core'.op = "NOOP"
    /\ epc' = pc /\ pc' = Head(HandlerCode)
    /\ gie' = FALSE /\ sleeping' = FALSE
    /\ UNCHANGED <<r6, VAL, echo>>

\* mtcp r0, c2, x0
SetCtl ==
    /\ Execs("ctl")
    /\ ExecNothing /\ core'.op = "WRITE"
    /\ pc' = "fifos_on"
    /\ UNCHANGED <<epc, gie, sleeping, r6, VAL, echo>>

\* A cpop with this operation, going on at the label next.
Operates(label, next) ==
    /\ Execs(label)
    /\ pc' = next
    /\ UNCHANGED <<epc, gie, sleeping, r6, VAL, echo>>

FifosOn ==
    /\ Operates("fifos_on", "enable")
    /\ ExecFlag /\ fifo_en' /\ UNCHANGED <<rx_raised, line>>

Acknowledge ==
    /\ Operates("ack", FollowedBy("ack"))
    /\ ExecFlag /\ ~ line' /\ UNCHANGED <<fifo_en, rx_raised>>

Rearm ==
    /\ Operates("reset", FollowedBy("reset"))
    /\ ExecFlag /\ ~ rx_raised' /\ UNCHANGED <<fifo_en, line>>

Receive == Operates("recv", FollowedBy("recv")) /\ ExecRecv

\* The character is in VAL, old or new; the last to arrive is 'q', which skips
\* the answer.
Check ==
    /\ Execs("check")
    /\ ExecNothing /\ core'.op = "NOOP"
    /\ r6' = (r6 \/ VAL = RxChars)
    /\ pc' = IF VAL = RxChars THEN FollowedBy("send") ELSE FollowedBy("check")
    /\ UNCHANGED <<epc, gie, sleeping, VAL, echo>>

Send == Operates("send", FollowedBy("send")) /\ ExecSend

\* An instruction that is not the UART's.
Other(label) == Execs(label) /\ ExecNothing /\ core'.op = "NOOP" /\ UNCHANGED <<r6, VAL, echo>>

Enable ==
    /\ Other("enable")
    /\ gie' = TRUE /\ pc' = "wait"
    /\ UNCHANGED <<epc, sleeping>>

\* sleep
Wait ==
    /\ Other("wait")
    /\ sleeping' = TRUE /\ pc' = "test"
    /\ UNCHANGED <<epc, gie>>

\* bz r6, %wait
Test ==
    /\ Other("test")
    /\ pc' = IF r6 THEN "exit" ELSE "wait"
    /\ UNCHANGED <<epc, gie, sleeping>>

Exit ==
    /\ Other("exit")
    /\ gie' = FALSE /\ pc' = "halt"
    /\ UNCHANGED <<epc, sleeping>>

\* The last sleep cannot end, so that cycle() returns -1 and main() goes on to
\* uart_state_deinit.
Halt == Execs("halt") /\ Quit /\ UNCHANGED driver

Return ==
    /\ Other("return")
    /\ pc' = epc /\ gie' = TRUE
    /\ UNCHANGED <<epc, sleeping>>

Instruction ==
    \/ SetCtl \/ FifosOn \/ Enable \/ Wait \/ Test \/ Exit
    \/ Acknowledge \/ Receive \/ Check \/ Send \/ Rearm \/ Return

\* The rest of the cycle; a character that is taken is put in VAL.
RestOfCycle ==
    \/ RecvGet /\ VAL' = received'[Len(received')] /\ UNCHANGED <<pc, epc, gie, sleeping, r6, echo>>
    \/ SendPost /\ echo' = Append(echo, VAL) /\ UNCHANGED <<pc, epc, gie, sleeping, r6, VAL>>
    \/ (DataRx \/ DataTx \/ Write) /\ UNCHANGED driver

EchoCycle ==
    /\ ~ crashed
    /\ Stall \/ Interrupt \/ Instruction \/ RestOfCycle
    /\ UNCHANGED <<run_threads, rxSide, txSide>>

Threads == (RxThread \/ TxThread) /\ UNCHANGED driver

Ends == Halt \/ (Join /\ UNCHANGED driver)

EchoNext == EchoCycle \/ Threads \/ Ends

---------------------------------------------------------------------------
\* An instruction, or the interrupt in its place: fetches are answered and
\* interrupts taken (StallsEnd and InterruptsTaken of DebuggerProps), so that a
\* program that may go on again and again does.
Progress ==
    \/ /\ ~ crashed
       /\ Interrupt \/ Instruction
       /\ UNCHANGED <<run_threads, rxSide, txSide>>
    \/ Halt

EchoFairness ==
    /\ WF_echoVars(RxThread /\ UNCHANGED driver)
    /\ WF_echoVars(TxThread /\ UNCHANGED driver)
    /\ WF_echoVars(EchoCycle)
    /\ WF_echoVars(Join /\ UNCHANGED driver)
    /\ SF_echoVars(Progress)

EchoSpec == EchoInit /\ [][EchoNext]_echoVars /\ EchoFairness
=============================================================================
