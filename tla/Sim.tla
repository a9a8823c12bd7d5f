-------------------------------- MODULE Sim --------------------------------
(***************************************************************************)
(* The simulator's cycle (sim.c): one pass over the instruction memory,    *)
(* sim_core_exec, the coprocessors, the data memory and sim_core_update,   *)
(* in the order cycle() calls them.  `stage` names the call to come.       *)
(*                                                                         *)
(* The coprocessors are seen from the core: the device on line d may raise *)
(* line d whenever its data callback runs, and may lower it only when it   *)
(* is told to execute an operation.  Their registers, and so the reads and *)
(* writes cycle() makes between the data memory and the update, are        *)
(* theirs alone and appear here as data.                                   *)
(***************************************************************************)
EXTENDS SimCore

CONSTANTS
    MemLen,           \* the length both memory interfaces were given
    MEMIF_DELAY,      \* cycles an access waits
    Device            \* the coprocessors installed, coproc_info

ASSUME DeviceAssumption ==
    /\ MemLen \in Nat
    /\ MEMIF_DELAY \in Nat
    /\ Device \subseteq CpNum \cap IntLine

VARIABLES
    imem,             \* interface of the instruction memory
    dmem,             \* interface of the data memory
    stage,            \* the next call cycle() makes
    halted            \* the run loop has seen a negative status

IMem == INSTANCE SimMemif WITH mem <- imem, out <- instr_out, in <- instr_in
DMem == INSTANCE SimMemif WITH mem <- dmem, out <- data_out, in <- data_in

vars == <<pc, ctl, sleeping, inter, instr_out, data_out, coproc_out, instr_in, data_in,
          exint, imem, dmem, stage, halted>>

coreState == <<pc, ctl, sleeping, inter>>
corePins == <<instr_out, data_out, coproc_out>>
answers == <<instr_in, data_in>>
interfaces == <<imem, dmem>>

Stage == {"fetch", "exec", "coproc", "data", "dmem", "update"}

Init ==
    /\ CoreInit
    /\ instr_in = IMem!NoAnswer
    /\ data_in = DMem!NoAnswer
    /\ exint = {}
    /\ imem = IMem!MemInit
    /\ dmem = DMem!MemInit
    /\ stage = "fetch"
    /\ halted = FALSE

---------------------------------------------------------------------------
At(s, t) == stage = s /\ stage' = t

Fetch ==
    /\ At("fetch", "exec")
    /\ ~ halted
    /\ IMem!Access
    /\ UNCHANGED <<coreState, corePins, data_in, exint, dmem, halted>>

CoreExec ==
    /\ At("exec", "coproc")
    /\ Exec
    /\ UNCHANGED <<answers, exint, interfaces, halted>>

\* The exec callback of the selected coprocessor, if there is one: an
\* acknowledgement lowers its line, any other operation leaves it.
CpExec ==
    /\ At("coproc", "data")
    /\ exint' \in {exint} \cup {exint \ {d} : d \in {x \in Device :
                         coproc_out = [op |-> "EXEC", select |-> x]}}
    /\ UNCHANGED <<coreState, corePins, answers, interfaces, halted>>

\* The data callbacks, which may raise lines.
CpData ==
    /\ At("data", "dmem")
    /\ \E raised \in SUBSET Device : exint' = exint \cup raised
    /\ UNCHANGED <<coreState, corePins, answers, interfaces, halted>>

MemData ==
    /\ At("dmem", "update")
    /\ DMem!Access
    /\ UNCHANGED <<coreState, corePins, instr_in, exint, imem, halted>>

CoreUpdate ==
    /\ At("update", "fetch")
    /\ Update
    /\ halted' = Unwakeable
    /\ UNCHANGED <<answers, exint, interfaces>>

Next == Fetch \/ CoreExec \/ CpExec \/ CpData \/ MemData \/ CoreUpdate

\* cycle() is called in a loop: the simulator always takes its next step.
Fairness == WF_vars(Next)

Spec == Init /\ [][Next]_vars /\ Fairness
============================================================================
