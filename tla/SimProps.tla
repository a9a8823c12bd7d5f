------------------------------ MODULE SimProps ------------------------------
(***************************************************************************)
(* What the simulator is checked for.                                      *)
(***************************************************************************)
EXTENDS Sim

\* Every variable stays within its type (all of sim_core.c and sim_memif.c).
TypeOK ==
    /\ pc \in Addr
    /\ ctl \in CtlType
    /\ sleeping \in BOOLEAN
    /\ inter \in InterType
    /\ instr_out \in MemPins /\ data_out \in MemPins
    /\ coproc_out \in [op : CoprocOp, select : CpNum \cup {0}]
    /\ instr_in \in IMem!Answer /\ data_in \in DMem!Answer
    /\ exint \subseteq Device
    /\ imem \in IMem!MemState /\ dmem \in DMem!MemState
    /\ stage \in Stage
    /\ halted \in BOOLEAN

\* Between cycles a request on the data bus belongs to the instruction that is
\* stalled on it, and no instruction is fetched meanwhile: a request that
\* outlives its instruction would be served a second time (the paths of
\* sim_core_update that clear or keep data.request, against sim_memif_access).
NoStrayAccess ==
    stage = "fetch" =>
        /\ data_out.request <=> inter.data_stall
        /\ data_out.request => /\ inter.type \in MemType
                               /\ ~ instr_out.request
                               /\ ~ sleeping

\* The word exec decodes is the one at pc: a fetch that is answered was made for
\* the current pc, through stalls, sleeps and traps (exec reads pc and the
\* instruction memory's answer, update writes pc and the fetch address apart).
FetchesPc ==
    /\ instr_out.request => instr_out.addr = pc
    /\ stage = "exec" /\ Awake => instr_out.request

\* No access is abandoned half way: an interface that is counting down has its
\* request still up (sim_memif_access would carry the rest of the delay over to
\* the next request).
NoAbandonedAccess ==
    /\ ~ imem.quiescent => instr_out.request
    /\ ~ dmem.quiescent => data_out.request

\* A coprocessor operation is on the bus from the exec that issues it to the
\* update of the same cycle, so the device executes it once (cpuspec: the
\* operations complete within one cycle).
OneCycleOnBus == stage \in {"fetch", "exec"} => coproc_out.op = "NONE"

\* A sleeping core is one the run loop has given up on, or one that interrupts
\* are enabled for (the "unwakeable sleep" test at the end of SLEEP).
SleepsWakeable == sleeping /\ ~ halted => ctl.status.gie /\ ctl.ienable # {}

\* A step in user mode leaves the set-up of the machine alone, does not put the
\* core to sleep, and gets to supervisor mode only by entering a handler.
Confined ==
    ctl.status.um =>
      /\ UNCHANGED <<ctl.hdl, ctl.exihdl, ctl.ienable, ctl.umcpen>>
      /\ ~ sleeping'
      /\ \/ ctl'.status.um
         \/ inter.type = "TRAP" /\ ctl'.epc_saved = ctl.epc

\* In user mode the set-up of the machine does not change, the core does not go
\* to sleep, and the only way to supervisor mode is a handler entry that saves
\* the return address (privilege is tested in exec, effects come in update).
UserConfined == [][Confined]_vars

\* The update step of this cycle ends an instruction, or a trap, of these types.
Completes(types) ==
    stage = "update" /\ Proceed(types) /\ ~ inter'.data_stall

\* The load link stands only between an ll and the next event that breaks it: it
\* goes up by an ll or by writing STATUS, and a completed load or store, a handler
\* entry and a return leave it down (exec tests it for sc, five paths of update
\* and two latched copies of STATUS change it).
LinkDiscipline ==
    [][/\ ~ ctl.status.ll /\ ctl'.status.ll =>
             \/ inter.type = "LOADLNK"
             \/ inter.type = "CTLUP" /\ inter.regnum = "status"
       /\ Completes({"LOAD", "STORE", "SCOND", "TRAP", "RFI"}) => ~ ctl'.status.ll]_vars

\* The core implements the architecture of Isa.
Architecture == INSTANCE Isa WITH
    mode <- [um |-> ctl.status.um, rum |-> ctl.status.rum, ums |-> ctl.status.ums,
             gie |-> ctl.status.gie],
    epc <- ctl.epc, epc_saved <- ctl.epc_saved, hdl <- ctl.hdl, exihdl <- ctl.exihdl,
    ienable <- ctl.ienable, umcpen <- ctl.umcpen

\* Every cycle sequence is a run of Isa: nothing is half done when an interrupt
\* or a trap comes, and what it saves is what the program had.
ImplementsIsa == Architecture!Spec
=============================================================================
