---------------------------- MODULE DebuggerProps ----------------------------
(***************************************************************************)
(* What the simulator keeps under the hands of its user.                   *)
(***************************************************************************)
EXTENDS Debugger

\* A goto is obeyed: the next thing the core does, through stalls and sleep, it
\* does at that address (do_interp_goto writes pc and pins under a latch that may
\* hold a stall, and update writes pc from the latch).
GotoLands == goal # Nowhere => pc = goal

\* Whatever the user does between two cycles of an instruction, no access is made for
\* nobody: the instruction bus only reads, and at pc; an awake core has its fetch up
\* unless it was reset and not told where to go (reset_core clears the request,
\* and only goto and the end of an instruction raise it); a stalled load or store has
\* its request up.  A data request that is up between cycles with nothing stalled on it
\* is what a data fault leaves (sim_core_update clears data.request on the path of an
\* answer only): sim_memif_access serves it again and again, and the memory refuses its
\* address each time, so that no word is read or written twice.  The data interface
\* counts down for a request that is up, be it that one.
BusesKept ==
    /\ instr_out.request => instr_out.read /\ instr_out.addr = pc
    /\ stage = "exec" /\ Awake => (instr_out.request <=> instr_out.read)
    /\ inter.data_stall => data_out.request /\ inter.type \in MemType /\ ~ sleeping
    /\ stage = "fetch" /\ data_out.request => inter.data_stall \/ data_out.addr > MemLen
    /\ ~ dmem.quiescent => data_out.request

\* A stalled core gets going again while it runs: each access on a bus is
\* answered, over goto and reset (the delay of sim_memif_access).  Not so when an
\* instruction fetch faults after a stall: instr_stall stays set then, and update
\* stalls where it should enter the handler.
StallsEnd ==
    (inter.instr_stall /\ instr_out.request) \/ inter.data_stall
        ~> ~ (inter.instr_stall \/ inter.data_stall) \/ instr_in.fault \/ ~ Running

\* An enabled interrupt on its pin does not stand for ever before a running core, awake,
\* stalled or asleep: it is taken, and the handler is entered with interrupts off (exec
\* latches the trap, update completes it), unless the program acknowledges or masks it
\* first or enters another handler, or the user stops the core.  Not so when an
\* instruction fetch faults after a stall: instr_stall stays set then, update never
\* enters a handler, and the core fetches the same word for ever.
FaultAfterStall == instr_in.fault /\ inter.instr_stall

InterruptsTaken ==
    Pending # {} ~> Pending = {} \/ FaultAfterStall \/ ~ Running

\* The user gets the prompt back, or the program ends: `cycle` comes to its end,
\* and SIGINT stops `continue` wherever in its loop it strikes.
PromptReturns ==
    /\ command = "cycle" ~> command # "cycle"
    /\ command = "continue" /\ ~ g_continue ~> command # "continue"
==============================================================================
