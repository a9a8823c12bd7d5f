------------------------------ MODULE Debugger ------------------------------
(***************************************************************************)
(* The command interpreter of the simulator (main, interpret and the       *)
(* do_interp functions of sim.c) around the cycle of Sim.  The user gives  *)
(* commands between cycles, also between the cycles of one instruction,    *)
(* and sends SIGINT at any time.                                           *)
(*                                                                         *)
(* load, read, show, trace and `reset mem` touch memory words, trace       *)
(* levels and the screen only and are not actions; several commands on a   *)
(* line are commands one after the other.  `reset all` is `reset core` to  *)
(* the core: the devices' own state is in Devices and Uart.  A negative    *)
(* argument of `cycle`, which counts down through all the negative ints,   *)
(* is left out.                                                            *)
(***************************************************************************)
EXTENDS Sim

CONSTANTS
    MaxSteps,         \* bound: the largest argument given to `cycle`
    Nowhere           \* no goto is outstanding

ASSUME DebuggerAssumption ==
    /\ MaxSteps \in Nat
    /\ Nowhere \notin Addr

VARIABLES
    command,          \* the command interpret() is in
    numsteps,         \* cycles `cycle` still has to run
    g_continue,
    sigint,           \* what the process does with SIGINT
    goal              \* history: where the last goto sent the core, until it gets there

prompt == <<command, numsteps, g_continue, sigint>>

debugVars == <<vars, prompt, goal>>

Command == {"prompt", "cycle", "continue", "ended"}

\* Pins nothing has been driven on.
Quiet == [addr |-> 0, read |-> FALSE, request |-> FALSE]

\* The state main() enters its loop in: reset() has run, and no goto.
DebugInit ==
    /\ pc = 0 /\ ctl = PowerOnCtl /\ sleeping = FALSE /\ inter = PowerOnInter
    /\ instr_out = Quiet /\ data_out = Quiet
    /\ coproc_out = [op |-> "NONE", select |-> 0]
    /\ instr_in = IMem!NoAnswer /\ data_in = DMem!NoAnswer
    /\ exint = {}
    /\ imem = IMem!MemInit /\ dmem = DMem!MemInit
    /\ stage = "fetch" /\ halted = FALSE
    /\ command = "prompt" /\ numsteps = 0
    /\ g_continue = TRUE /\ sigint = "default"
    /\ goal = Nowhere

---------------------------------------------------------------------------
(* The commands                                                            *)

AtPrompt == command = "prompt"

\* A reset that forgets the interfaces.
BugResetKeepsInterfaces == UNCHANGED interfaces

ResetInterfaces == imem' = IMem!MemInit /\ dmem' = DMem!MemInit

\* `reset core`, and `reset all` as the core sees it.
reset_core ==
    /\ AtPrompt
    /\ pc' = 0 /\ ctl' = PowerOnCtl /\ sleeping' = FALSE /\ inter' = PowerOnInter
    /\ instr_out' = Quiet /\ data_out' = Quiet
    /\ coproc_out' = [op |-> "NONE", select |-> 0]
    /\ instr_in' = IMem!NoAnswer /\ data_in' = DMem!NoAnswer
    /\ exint' = {}
    /\ ResetInterfaces
    /\ goal' = Nowhere
    /\ UNCHANGED <<stage, halted, prompt>>

\* A goto that moves the fetch but not the pc.
BugGotoKeepsPc(addr) ==
    /\ instr_out' = [addr |-> addr, read |-> TRUE, request |-> TRUE]
    /\ pc' = pc

SendTo(addr) ==
    /\ instr_out' = [addr |-> addr, read |-> TRUE, request |-> TRUE]
    /\ pc' = addr

\* The latch is left alone: an instruction stalled on the data bus completes
\* afterwards and takes the pc with it, so that such a goto has no goal.
do_interp_goto ==
    /\ AtPrompt
    /\ \E addr \in Addr :
         /\ SendTo(addr)
         /\ goal' = IF inter.data_stall THEN Nowhere ELSE addr
    /\ UNCHANGED <<ctl, sleeping, inter, data_out, coproc_out, answers, exint, interfaces,
                   stage, halted, prompt>>

do_interp_step ==
    /\ AtPrompt
    /\ command' = "cycle"
    /\ numsteps' \in 0 .. MaxSteps
    /\ UNCHANGED <<vars, g_continue, sigint, goal>>

do_interp_continue ==
    /\ AtPrompt
    /\ command' = "continue"
    /\ sigint' = "unset_run_sim"
    /\ UNCHANGED <<vars, numsteps, g_continue, goal>>

quit ==
    /\ AtPrompt
    /\ command' = "ended"
    /\ UNCHANGED <<vars, numsteps, g_continue, sigint, goal>>

UserCommand ==
    reset_core \/ do_interp_goto \/ do_interp_step \/ do_interp_continue \/ quit

---------------------------------------------------------------------------
(* The loops of `cycle` and `continue`                                     *)

\* A loop that does not look at the flag of the signal handler.
BugContinueDeaf == \/ command = "cycle" /\ numsteps > 0
                   \/ command = "continue"

\* The test of the loop, before each cycle.
RunsOn == \/ command = "cycle" /\ numsteps > 0
          \/ command = "continue" /\ g_continue

CycleBegins ==
    /\ RunsOn
    /\ Fetch
    /\ numsteps' = IF command = "cycle" THEN numsteps - 1 ELSE numsteps
    /\ UNCHANGED <<command, g_continue, sigint, goal>>

Running == command \in {"cycle", "continue"}

\* Exec settles what this cycle does: an instruction, an interrupt or a fault.
Settles == /\ ~ inter.data_stall
           /\ IF sleeping THEN Pending # {} ELSE instr_in.valid \/ instr_in.fault

CycleExecutes ==
    /\ Running
    /\ CoreExec
    /\ goal' = IF Settles THEN Nowhere ELSE goal
    /\ UNCHANGED prompt

CycleGoesOn ==
    /\ Running
    /\ CpExec \/ CpData \/ MemData \/ CoreUpdate
    /\ UNCHANGED <<prompt, goal>>

\* A negative status of the cycle ends main's loop, too.
LoopEnds ==
    /\ Running
    /\ stage = "fetch"
    /\ \/ halted /\ command' = "ended"
       \/ ~ halted /\ ~ RunsOn /\ command' = "prompt"
    /\ UNCHANGED <<vars, numsteps, g_continue, sigint, goal>>

\* unset_run_sim hands the signal back to its default, which kills, and nothing
\* sets g_continue again.
unset_run_sim ==
    /\ command # "ended"
    /\ \/ sigint = "unset_run_sim" /\ sigint' = "default" /\ g_continue' = FALSE
          /\ UNCHANGED command
       \/ sigint = "default" /\ command' = "ended" /\ UNCHANGED <<sigint, g_continue>>
    /\ UNCHANGED <<vars, numsteps, goal>>

RunLoop == CycleBegins \/ CycleExecutes \/ CycleGoesOn \/ LoopEnds

DebugNext == UserCommand \/ RunLoop \/ unset_run_sim

\* The loop runs by itself; nothing forces the user to give a command or a signal.
DebugSpec == DebugInit /\ [][DebugNext]_debugVars /\ WF_debugVars(RunLoop)
=============================================================================
