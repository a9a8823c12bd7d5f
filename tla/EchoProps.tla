----------------------------- MODULE EchoProps -----------------------------
(***************************************************************************)
(* What the echo of test_41.asm does with the characters it is given.      *)
(***************************************************************************)
EXTENDS Echo, UartProps

\* The characters written are answers to characters received, none of them answered
\* twice and none overtaken by another, though some go unanswered when the transmit
\* FIFO is full (test_41.asm over SEND, RECV, RESET_RX and the two threads).
EchoesInOrder ==
    /\ Len(echo) = posted
    /\ Increasing([i \in DOMAIN sent |-> echo[sent[i]]])

\* Every character the receive thread accepts reaches the program, until it
\* exits: the interrupt is raised again for a character that comes while the
\* handler runs or is about to be re-armed (rx_raised, INT_ACK and RESET_RX).
Answered == Len(received) < Len(accepted) ~> Len(received) = Len(accepted) \/ r6

\* tests/sim/test_41.asm:17: wait for interrupt, exit when r6 is nonzero.
ExitsOnQ == r6 ~> core.at = "done"
============================================================================
