---------------------------- MODULE DebuggerProofs ----------------------------
(***************************************************************************)
(* What the simulator keeps under the hands of its user, for every size,   *)
(* program, memory length and delay, with every fault a short memory       *)
(* brings.  The types and the sleep of SimProofs hold here as well.        *)
(***************************************************************************)
EXTENDS DebuggerProps, SimProofs

\* The user acts between cycles.
PromptInv == command = "prompt" => stage = "fetch"

\* While a goto is outstanding, whatever exec leaves for update does not move pc.
GotoInv ==
    goal # Nowhere =>
        /\ pc = goal
        /\ ~ inter.data_stall
        /\ Decided => inter.instr_stall \/ (sleeping /\ inter.type = "SLEEP")

\* A core that was reset and not told where to go fetches nothing and stalls.
ResetInv ==
    ~ instr_out.read =>
        /\ ~ instr_out.request
        /\ instr_in = IMem!NoAnswer
        /\ ~ sleeping /\ ~ inter.data_stall
        /\ Decided => inter.instr_stall

\* The pins of the instruction bus, at every stage.
PinsInv ==
    /\ instr_out.request => instr_out.addr = pc
    /\ instr_out.read /\ Awake => instr_out.request

\* The access in the latch is to be carried out by update.
Accessing == Decided /\ ~ inter.instr_stall /\ inter.type \in MemType

\* The latch and the data interface against the pins of the data bus: a request nobody
\* is about to look at the answer of is one the memory refuses.
DataInv ==
    /\ inter.data_stall => data_out.request /\ inter.type \in MemType /\ ~ sleeping
    /\ ~ dmem.quiescent => data_out.request
    /\ Accessing => data_out.request
    /\ data_out.request => inter.data_stall \/ Accessing \/ data_out.addr > MemLen
    /\ stage = "update" /\ (data_in.valid \/ data_in.fault) => dmem.quiescent
    /\ stage = "update" /\ data_in.fault => data_out.addr > MemLen

DebugInv ==
    /\ TypeOK /\ WakeInv
    /\ PromptInv /\ DozeInv /\ GotoInv
    /\ ResetInv /\ PinsInv /\ DataInv

---------------------------------------------------------------------------
(* A step is a call of cycle(), a reset, a goto, or nothing to the core.   *)

\* What a reset leaves of the core and its buses.
PoweredOn ==
    /\ pc = 0 /\ ctl = PowerOnCtl /\ sleeping = FALSE /\ inter = PowerOnInter
    /\ instr_out = Quiet /\ data_out = Quiet
    /\ coproc_out = [op |-> "NONE", select |-> 0]
    /\ instr_in = IMem!NoAnswer /\ data_in = DMem!NoAnswer
    /\ exint = {}
    /\ imem = IMem!MemInit /\ dmem = DMem!MemInit
    /\ stage = "fetch" /\ halted \in BOOLEAN
    /\ goal = Nowhere

\* The core is in order when it comes out of reset (reset_core, main).
LEMMA PoweredOnInv == PoweredOn => TypeOK /\ WakeInv /\ DozeInv /\ GotoInv /\ ResetInv
                                   /\ PinsInv /\ DataInv
<1> SUFFICES ASSUME PoweredOn
             PROVE  TypeOK /\ WakeInv /\ DozeInv /\ GotoInv /\ ResetInv /\ PinsInv /\ DataInv
  OBVIOUS
<1>1. 0 \in Addr /\ 0 \in 0 .. CounterMod - 1
  BY SizesAssumption DEF Addr
<1>2. ctl \in CtlType /\ inter \in InterType
  BY <1>1 DEF PoweredOn, PowerOnCtl, PowerOnInter, PowerOnStatus, CtlType, InterType,
     Status, Counter, RegNum, UpdateType
<1>3. imem \in IMem!MemState /\ dmem \in DMem!MemState
  BY DeviceAssumption DEF PoweredOn, IMem!MemInit, DMem!MemInit, IMem!MemState, DMem!MemState
<1>4. TypeOK
  BY <1>1, <1>2, <1>3 DEF PoweredOn, TypeOK, Quiet, MemPins, CoprocOp, IMem!NoAnswer,
     DMem!NoAnswer, IMem!Answer, DMem!Answer, Stage
<1>5. ~ sleeping /\ ~ inter.data_stall /\ ~ Decided
  BY DEF PoweredOn, PowerOnInter, Decided
<1>6. WakeInv
  BY <1>5 DEF PoweredOn, WakeInv, SleepInv, OneCycleOnBus, SleepsWakeable
<1>7. ResetInv /\ PinsInv /\ DataInv
  BY <1>5 DEF PoweredOn, Quiet, DMem!MemInit, DMem!NoAnswer, ResetInv, PinsInv, DataInv,
     Accessing
<1> QED BY <1>4, <1>5, <1>6, <1>7 DEF PoweredOn, DozeInv, GotoInv

\* A call of cycle() is a step of Sim (RunLoop).
LEMMA RunLoopSteps ==
    ASSUME CycleBegins \/ CycleExecutes \/ CycleGoesOn
    PROVE  Next /\ command # "prompt" /\ UNCHANGED command
  BY DEF CycleBegins, CycleExecutes, CycleGoesOn, RunsOn, Running, prompt, Next

---------------------------------------------------------------------------
(* Calls of cycle().                                                       *)

\* A core that has not been told where to go does not get there by itself.
LEMMA ResetStep ==
    ASSUME TypeOK, ResetInv, Next
    PROVE  ResetInv'
<1> USE DEF Decided
<1>1. CASE Fetch
  BY <1>1 DEF ResetInv, Fetch, At, coreState, corePins, IMem!Access, IMem!AccessIdle,
     IMem!AccessDelay, IMem!AccessFault, IMem!AccessServe
<1>2. CASE CpExec \/ CpData \/ MemData
  BY <1>2 DEF ResetInv, CpExec, CpData, MemData, At, coreState, corePins, answers
<1>3. CASE CoreExec
  <2>1. UNCHANGED <<sleeping, instr_out, instr_in>> /\ inter'.data_stall = inter.data_stall
    BY <1>3, ExecSplit DEF CoreExec, Deed, Pause, answers
  <2>2. ASSUME ~ instr_out.read
        PROVE  inter'.instr_stall
    <3>1. Awake /\ ~ instr_in.valid /\ ~ instr_in.fault
      BY <2>2 DEF ResetInv, Awake, IMem!NoAnswer
    <3> QED BY <1>3, <3>1, ExecAnswered DEF CoreExec
  <2> QED BY <2>1, <2>2 DEF ResetInv
<1>4. CASE CoreUpdate
  <2>1. stage = "update" /\ stage' = "fetch" /\ UNCHANGED instr_in
    BY <1>4 DEF CoreUpdate, At, answers
  <2>2. instr_out'.read = instr_out.read
    BY <1>4 DEF CoreUpdate, Update, UpdateInstrStall, UpdateAsleep, UpdateDataStall,
       UpdateDataFault, UpdateDataDone, UpdatePlain, UpdateCtl, UpdateTrap, UpdateRfi,
       UpdateSleep, Advance, TypeOK, MemPins
  <2>3. CASE UpdateInstrStall
    BY <2>1, <2>3 DEF UpdateInstrStall, ResetInv
  <2>4. CASE ~ UpdateInstrStall
    <3>1. ~ inter.instr_stall
      BY <1>4, <2>4 DEF CoreUpdate, Update, UpdateAsleep, UpdateDataStall, UpdateDataFault,
         UpdateDataDone, UpdatePlain, UpdateCtl, UpdateTrap, UpdateRfi, UpdateSleep, Proceed
    <3> QED BY <2>1, <2>2, <3>1 DEF ResetInv
  <2> QED BY <2>3, <2>4
<1> QED BY <1>1, <1>2, <1>3, <1>4 DEF Next

\* Fetch address and pc move together.
LEMMA PinsStep ==
    ASSUME TypeOK, PinsInv, Next
    PROVE  PinsInv'
<1> USE DEF PinsInv, Awake, coreState, corePins
<1>1. CASE Fetch \/ CpExec \/ CpData \/ MemData
  BY <1>1 DEF Fetch, CpExec, CpData, MemData
<1>2. CASE CoreExec
  <2>1. UNCHANGED <<pc, sleeping, instr_out>> /\ inter'.data_stall = inter.data_stall
    BY <1>2, ExecSplit DEF CoreExec, Deed, Pause
  <2> QED BY <2>1
<1>3. CASE CoreUpdate
  <2>1. Advance => PinsInv'
    BY DEF Advance, TypeOK, MemPins
  <2>2. CASE UpdateInstrStall \/ UpdateAsleep
    BY <2>2 DEF UpdateInstrStall, UpdateAsleep
  <2>3. CASE UpdateDataStall
    BY <2>3 DEF UpdateDataStall, TypeOK, MemPins, InterType
  <2>4. CASE UpdateDataFault
    BY <2>4 DEF UpdateDataFault, TypeOK, MemPins
  <2>5. CASE UpdateDataDone \/ UpdatePlain \/ UpdateCtl \/ UpdateTrap \/ UpdateRfi
    BY <2>1, <2>5 DEF UpdateDataDone, UpdatePlain, UpdateCtl, UpdateTrap, UpdateRfi
  <2>6. CASE UpdateSleep
    BY <2>6 DEF UpdateSleep, TypeOK, MemPins
  <2> QED BY <1>3, <2>2, <2>3, <2>4, <2>5, <2>6 DEF CoreUpdate, Update
<1> QED BY <1>1, <1>2, <1>3 DEF Next

\* A data request stays up as long as somebody waits for it, and longer only after a
\* fault.
LEMMA DataStep ==
    ASSUME TypeOK, WakeInv, DataInv, Next
    PROVE  DataInv'
<1> USE DEF DataInv, Accessing, Decided
<1>1. CASE Fetch \/ CpExec \/ CpData
  BY <1>1 DEF Fetch, CpExec, CpData, At, coreState, corePins, answers, interfaces
<1>2. CASE MemData
  <2>1. /\ data_in'.valid \/ data_in'.fault => dmem'.quiescent
        /\ ~ dmem'.quiescent => data_out.request \/ ~ dmem.quiescent
        /\ data_in'.fault => data_out.addr > MemLen
    BY <1>2 DEF MemData, DMem!Access, DMem!AccessIdle, DMem!AccessDelay, DMem!AccessFault,
       DMem!AccessServe, DMem!NoAnswer, DMem!MemInit
  <2> QED BY <1>2, <2>1 DEF MemData, At, coreState, corePins
<1>3. CASE CoreExec
  <2>1. (Awake /\ Deed) \/ Pause
    BY <1>3, ExecSplit DEF CoreExec
  <2>2. UNCHANGED <<sleeping, dmem>> /\ stage = "exec" /\ stage' = "coproc"
    BY <1>3, ExecSplit DEF CoreExec, At, interfaces
  <2>3. CASE Awake /\ Deed
    BY <2>2, <2>3 DEF Awake, Deed
  <2>4. CASE Pause
    BY <2>2, <2>4 DEF Pause, Awake, MemType, WakeInv, SleepInv
  <2> QED BY <2>1, <2>3, <2>4
<1>4. CASE CoreUpdate
  <2>1. stage = "update" /\ stage' = "fetch" /\ UNCHANGED <<data_in, dmem>>
    BY <1>4 DEF CoreUpdate, At, answers, interfaces
  <2>2. CASE UpdateInstrStall \/ UpdateAsleep
    BY <2>1, <2>2 DEF UpdateInstrStall, UpdateAsleep, WakeInv, SleepInv, MemType
  <2>3. CASE UpdateDataStall
    <3>1. /\ UNCHANGED <<sleeping, data_out>> /\ ~ sleeping
          /\ inter.type \in MemType /\ ~ inter.instr_stall
      BY <2>3 DEF UpdateDataStall, Proceed, MemType
    <3>2. inter'.type = inter.type /\ inter'.data_stall
      BY <2>3 DEF UpdateDataStall, TypeOK, InterType
    <3> QED BY <2>1, <3>1, <3>2
  <2>4. CASE UpdateDataFault \/ UpdateDataDone
    <3>1. ~ inter'.data_stall /\ dmem.quiescent
      BY <2>1, <2>4 DEF UpdateDataFault, UpdateDataDone, TypeOK, InterType
    <3>2. data_out'.request => data_out'.addr > MemLen
      BY <2>1, <2>4 DEF UpdateDataFault, UpdateDataDone, TypeOK, MemPins
    <3> QED BY <2>1, <3>1, <3>2
  <2>5. CASE UpdatePlain \/ UpdateCtl \/ UpdateTrap \/ UpdateRfi \/ UpdateSleep
    <3>1. /\ inter.type \notin MemType /\ UNCHANGED <<inter, data_out>>
      BY <2>5 DEF UpdatePlain, UpdateCtl, UpdateTrap, UpdateRfi, UpdateSleep, Proceed, MemType
    <3> QED BY <2>1, <3>1
  <2> QED BY <1>4, <2>2, <2>3, <2>4, <2>5 DEF CoreUpdate, Update
<1> QED BY <1>1, <1>2, <1>3, <1>4 DEF Next

\* pc stays where a goto put it until the core settles something.
LEMMA GotoStep ==
    ASSUME TypeOK, WakeInv, DozeInv, GotoInv, CycleBegins \/ CycleExecutes \/ CycleGoesOn
    PROVE  GotoInv'
<1> USE DEF Decided
<1>1. CASE CycleBegins
  BY <1>1 DEF CycleBegins, Fetch, At, coreState, GotoInv
<1>2. CASE CycleExecutes
  <2>1. CASE Settles
    BY <1>2, <2>1 DEF CycleExecutes, GotoInv
  <2>2. CASE ~ Settles /\ goal # Nowhere
    <3>1. goal' = goal /\ UNCHANGED <<pc, sleeping>> /\ ~ inter.data_stall
      BY <1>2, <2>2, ExecSplit DEF CycleExecutes, CoreExec, GotoInv
    <3>2. inter'.data_stall = inter.data_stall
      BY <1>2, ExecSplit DEF CycleExecutes, CoreExec, Deed, Pause
    <3>3. CASE sleeping
      <4>1. Pending = {} /\ inter.type = "SLEEP"
        BY <1>2, <2>2, <3>1, <3>3 DEF Settles, DozeInv, CycleExecutes, CoreExec, At
      <4>2. inter' = inter
        BY <1>2, <3>1, <3>3, <4>1 DEF CycleExecutes, CoreExec, Exec, ExecDataStall,
           ExecSleeping, ExecInstrStall, ExecInstrFault, ExecInterrupt, Awake, TakeInterrupt,
           Execute, ExecAlu, ExecBranch, ExecLink, ExecLoad, ExecStore, ExecStoreCond,
           ScStores, MemAccess, ExecCoproc, CoprocAccess, ExecInt, ExecRfi, ExecMoveFromCtl,
           ExecMoveToCtl, ExecSleep, Decoded
      <4> QED BY <3>1, <3>2, <3>3, <4>1, <4>2 DEF GotoInv
    <3>4. CASE ~ sleeping
      <4>1. inter'.instr_stall
        BY <1>2, <2>2, <3>1, <3>4, ExecAnswered
        DEF CycleExecutes, CoreExec, Awake, Settles
      <4> QED BY <2>2, <3>1, <3>2, <4>1 DEF GotoInv
    <3> QED BY <3>3, <3>4
  <2>3. CASE goal = Nowhere
    BY <1>2, <2>3 DEF CycleExecutes, GotoInv
  <2> QED BY <2>1, <2>2, <2>3
<1>3. CASE CycleGoesOn
  <2>1. goal' = goal
    BY <1>3 DEF CycleGoesOn
  <2>2. CASE CpExec \/ CpData \/ MemData
    BY <2>1, <2>2 DEF CpExec, CpData, MemData, At, coreState, GotoInv
  <2>3. CASE CoreUpdate
    <3>1. stage = "update" /\ stage' = "fetch"
      BY <2>3 DEF CoreUpdate, At
    <3>2. CASE UpdateInstrStall \/ UpdateAsleep
      BY <2>1, <3>1, <3>2 DEF UpdateInstrStall, UpdateAsleep, GotoInv
    <3>3. CASE ~ (UpdateInstrStall \/ UpdateAsleep)
      <4>1. ~ inter.instr_stall /\ (sleeping => inter.type # "SLEEP")
        BY <2>3, <3>3 DEF CoreUpdate, Update, UpdateDataStall, UpdateDataFault,
           UpdateDataDone, UpdatePlain, UpdateCtl, UpdateTrap, UpdateRfi, UpdateSleep, Proceed
      <4> QED BY <2>1, <3>1, <4>1 DEF GotoInv
    <3> QED BY <3>2, <3>3
  <2> QED BY <1>3, <2>2, <2>3 DEF CycleGoesOn
<1> QED BY <1>1, <1>2, <1>3

---------------------------------------------------------------------------
(* Commands.                                                               *)

\* A goto between any two cycles.
LEMMA GotoCommand ==
    ASSUME DebugInv, do_interp_goto
    PROVE  DebugInv'
<1>1. /\ stage = "fetch" /\ command = "prompt"
      /\ UNCHANGED <<ctl, sleeping, inter, data_out, coproc_out, instr_in, data_in, exint,
                     imem, dmem, stage, halted, command>>
  BY DEF DebugInv, PromptInv, do_interp_goto, AtPrompt, answers, interfaces, prompt
<1>2. PICK addr \in Addr :
          /\ instr_out' = [addr |-> addr, read |-> TRUE, request |-> TRUE] /\ pc' = addr
          /\ goal' = IF inter.data_stall THEN Nowhere ELSE addr
  BY DEF do_interp_goto, SendTo
<1>3. TypeOK'
  BY <1>1, <1>2 DEF DebugInv, TypeOK, MemPins
<1>4. WakeInv' /\ PromptInv' /\ DozeInv' /\ DataInv'
  BY <1>1 DEF DebugInv, WakeInv, SleepInv, OneCycleOnBus, SleepsWakeable, PromptInv, DozeInv,
     DataInv, Accessing, Decided
<1>5. ResetInv' /\ PinsInv'
  BY <1>2 DEF ResetInv, PinsInv
<1>6. GotoInv'
  BY <1>1, <1>2 DEF GotoInv, Decided
<1> QED BY <1>3, <1>4, <1>5, <1>6 DEF DebugInv

\* A reset between any two cycles.
LEMMA ResetCommand ==
    ASSUME DebugInv, reset_core
    PROVE  DebugInv'
<1>1. PoweredOn' /\ stage' = "fetch"
  BY DEF DebugInv, PromptInv, TypeOK, reset_core, ResetInterfaces, AtPrompt, PoweredOn
<1>2. PoweredOn' => /\ TypeOK' /\ WakeInv' /\ DozeInv' /\ GotoInv' /\ ResetInv'
                    /\ PinsInv' /\ DataInv'
  BY PoweredOnInv, PTL
<1> QED BY <1>1, <1>2 DEF DebugInv, PromptInv

\* DebugInv holds throughout (main, interpret, cycle).
LEMMA DebugInvAlways == DebugSpec => []DebugInv
<1>1. DebugInit => DebugInv
  BY PoweredOnInv DEF DebugInit, PoweredOn, DebugInv, PromptInv
<1>2. DebugInv /\ [DebugNext]_debugVars => DebugInv'
  <2> SUFFICES ASSUME DebugInv, [DebugNext]_debugVars PROVE DebugInv'
    OBVIOUS
  <2>1. CASE CycleBegins \/ CycleExecutes \/ CycleGoesOn
    <3>1. Next /\ PromptInv'
      BY <2>1, RunLoopSteps DEF PromptInv
    <3>2. TypeOK' /\ WakeInv'
      BY <3>1, NextType, WakeInvStep DEF DebugInv
    <3> QED
      BY <2>1, <3>1, <3>2, DozeStep, ResetStep, PinsStep, DataStep, GotoStep DEF DebugInv
  <2>2. CASE do_interp_goto
    BY <2>2, GotoCommand
  <2>3. CASE reset_core
    BY <2>3, ResetCommand
  <2>4. CASE UNCHANGED <<vars, goal>> /\ (stage = "fetch" \/ command' = command \/ command' = "ended")
    <3>1. PromptInv'
      BY <2>4 DEF DebugInv, PromptInv, vars
    <3> QED
      BY <2>4, <3>1 DEF DebugInv, vars, TypeOK, WakeInv, SleepInv, OneCycleOnBus,
         SleepsWakeable, DozeInv, GotoInv, ResetInv, PinsInv, DataInv, Accessing, Decided, Awake
  <2>5. CASE do_interp_step \/ do_interp_continue \/ quit \/ LoopEnds \/ unset_run_sim
    BY <2>4, <2>5 DEF do_interp_step, do_interp_continue, quit, LoopEnds, unset_run_sim,
       AtPrompt, DebugInv, PromptInv
  <2>6. CASE UNCHANGED debugVars
    BY <2>4, <2>6 DEF debugVars, prompt
  <2> QED
    BY <2>1, <2>2, <2>3, <2>5, <2>6 DEF DebugNext, UserCommand, RunLoop
<1> QED BY <1>1, <1>2, PTL DEF DebugSpec

---------------------------------------------------------------------------
\* A goto is obeyed: the next thing the core settles is at its address
\* (do_interp_goto against the latch and sim_core_update).
THEOREM GotoLandsAlways == DebugSpec => []GotoLands
<1>1. DebugInv => GotoLands
  BY DEF DebugInv, GotoInv, GotoLands
<1> QED BY <1>1, DebugInvAlways, PTL

\* No access is made for nobody: a data request outlives its instruction only where the
\* memory refuses it (reset_core, do_interp_goto and the paths of sim_core_update).
THEOREM BusesKeptAlways == DebugSpec => []BusesKept
<1>1. DebugInv => BusesKept
  BY DEF DebugInv, ResetInv, PinsInv, DataInv, Accessing, Decided, BusesKept
<1> QED BY <1>1, DebugInvAlways, PTL
===============================================================================
