------------------------------ MODULE SimCore ------------------------------
(***************************************************************************)
(* The CPU core (sim_core.c): sim_core_exec, which decides what the        *)
(* instruction will do and drives the buses, and sim_core_update, which    *)
(* makes it happen or stalls.  Between the two the decision waits in the   *)
(* latch `inter`; nothing but those two functions writes it.               *)
(*                                                                         *)
(* Each function is a disjunction of its paths.  The word fetched is not   *)
(* modelled: when it is valid, the instruction is any of Program, with any *)
(* operands.                                                               *)
(***************************************************************************)
EXTENDS CoreTypes

CONSTANTS
    Program,          \* the instruction classes the program uses
    WritableReg,      \* the control registers it writes with mtctl ...
    StatusWrites,     \* ... and the values it writes to STATUS,
    MaskWrites,       \* to IENABLE and UMCPEN,
    AddrWrites,       \* and to the registers that hold an address
    CounterWrites     \* and to the counter

ASSUME ProgramAssumption ==
    /\ Program \subseteq Opcode
    /\ WritableReg \subseteq CtlReg
    /\ StatusWrites \subseteq Status
    /\ MaskWrites \subseteq SUBSET EnableBit
    /\ AddrWrites \subseteq Addr
    /\ CounterWrites \subseteq 0 .. CounterMod - 1

VARIABLES
    pc,
    ctl,              \* the control registers, sim_core_state_t.ctl.named
    sleeping,
    inter,            \* what exec leaves for update, sim_core_state_t.inter
    instr_out,        \* instruction bus pins: [addr, read, request]
    data_out,         \* data bus pins: [addr, read, request]
    coproc_out,       \* coprocessor bus pins: [op, select]
    instr_in,         \* answer of the instruction memory: [valid, fault]
    data_in,          \* answer of the data memory: [valid, fault]
    exint             \* the interrupt pins that are up, exint_sig

latched == <<pc, ctl, sleeping>>

CtlType ==
    [status : Status, epc : Addr, epc_saved : Addr, hdl : [Vector -> Addr],
     exihdl : [IntLine -> Addr], ienable : SUBSET EnableBit,
     umcpen : SUBSET EnableBit, counter : Counter]

InterType ==
    [regnum : RegNum, regval : Addr, newstat : Status, nextpc : Addr,
     instr_stall : BOOLEAN, data_stall : BOOLEAN, type : UpdateType]

MemPins == [addr : Addr, read : BOOLEAN, request : BOOLEAN]

PowerOnCtl ==
    [status |-> PowerOnStatus, epc |-> 0, epc_saved |-> 0, hdl |-> [v \in Vector |-> 0],
     exihdl |-> [i \in IntLine |-> 0], ienable |-> {}, umcpen |-> {},
     counter |-> [low |-> 0, high |-> 0]]

PowerOnInter ==
    [regnum |-> "gpr", regval |-> 0, newstat |-> PowerOnStatus, nextpc |-> 0,
     instr_stall |-> FALSE, data_stall |-> FALSE, type |-> "GPRUP"]

\* The core out of reset, told by `goto` where to start.
CoreInit ==
    /\ pc \in Addr
    /\ ctl = PowerOnCtl
    /\ sleeping = FALSE
    /\ inter = PowerOnInter
    /\ instr_out = [addr |-> pc, read |-> TRUE, request |-> TRUE]
    /\ data_out = [addr |-> 0, read |-> FALSE, request |-> FALSE]
    /\ coproc_out = [op |-> "NONE", select |-> 0]

---------------------------------------------------------------------------
(* sim_core_exec                                                           *)

Pending == {i \in exint : i \in ctl.ienable /\ ctl.status.gie}

\* A next pc wider than the register.
BugPcOverflows == pc + 1

NextPc == (pc + 1) % AddrSpace

\* The label `trap` at the end of sim_core_exec.
Trap(latch, handler) ==
    [latch EXCEPT !.newstat = StatusTrap(latch.newstat), !.nextpc = handler,
                  !.regval = pc, !.type = "TRAP"]

\* What every decoded instruction starts from.
Fresh == [inter EXCEPT !.newstat = ctl.status, !.nextpc = NextPc, !.instr_stall = FALSE]

\* A result for a general register.
GprUp(type, target) ==
    [Fresh EXCEPT !.regnum = "gpr", !.regval = 0, !.nextpc = target, !.type = type]

\* check_pending_interrupt picks the lowest line.
TakeInterrupt(latch) ==
    \E i \in Pending :
        /\ \A j \in Pending : i <= j
        /\ inter' = Trap(latch, ctl.exihdl[i])

ExecDataStall ==
    /\ inter.data_stall
    /\ UNCHANGED <<inter, data_out, coproc_out>>

\* A sleep no interrupt ends.
BugSleepIgnoresInterrupt ==
    /\ ~ inter.data_stall
    /\ sleeping
    /\ UNCHANGED <<inter, data_out, coproc_out>>

ExecSleeping ==
    /\ ~ inter.data_stall
    /\ sleeping
    /\ \/ TakeInterrupt(inter)
       \/ Pending = {} /\ UNCHANGED inter
    /\ UNCHANGED <<data_out, coproc_out>>

Awake == ~ inter.data_stall /\ ~ sleeping

ExecInstrStall ==
    /\ Awake
    /\ ~ instr_in.valid
    /\ ~ instr_in.fault
    /\ inter' = [inter EXCEPT !.instr_stall = TRUE]
    /\ UNCHANGED <<data_out, coproc_out>>

\* instr_stall is left as the stall before the fault set it.
ExecInstrFault ==
    /\ Awake
    /\ ~ instr_in.valid
    /\ instr_in.fault
    /\ inter' = Trap(inter, ctl.hdl["ifaulthdl"])
    /\ UNCHANGED <<data_out, coproc_out>>

\* The interrupt is taken before newstat has been loaded from STATUS.
ExecInterrupt ==
    /\ Awake
    /\ instr_in.valid
    /\ TakeInterrupt([inter EXCEPT !.instr_stall = FALSE])
    /\ UNCHANGED <<data_out, coproc_out>>

Decoded(op) == Awake /\ instr_in.valid /\ Pending = {} /\ op \in Program

\* A privileged instruction does its work in supervisor mode, and traps in
\* user mode.
Privileged(latches) ==
    IF ctl.status.um THEN inter' = Trap(Fresh, ctl.hdl["privophdl"])
                     ELSE inter' \in latches

ExecAlu ==
    /\ Decoded("alu")
    /\ inter' = GprUp("GPRUP", NextPc)
    /\ UNCHANGED <<data_out, coproc_out>>

\* The displacement is abstracted: a branch goes anywhere, or on.
ExecBranch ==
    /\ Decoded("branch")
    /\ inter' \in {[Fresh EXCEPT !.nextpc = target, !.type = "BRANCH"] : target \in Addr}
    /\ UNCHANGED <<data_out, coproc_out>>

ExecLink ==
    /\ \/ Decoded("bal") /\ inter' \in {GprUp("GPRUP", target) : target \in Addr}
       \/ Decoded("jlr") /\ inter' \in {GprUp("BRLINK", target) : target \in Addr}
    /\ UNCHANGED <<data_out, coproc_out>>

\* The instructions that put a request on the data bus.
MemAccess(op, read, latch) ==
    /\ Decoded(op)
    /\ data_out' \in [addr : Addr, read : {read}, request : {TRUE}]
    /\ inter' = latch
    /\ UNCHANGED coproc_out

ExecLoad ==
    \/ MemAccess("ll", TRUE, [Fresh EXCEPT !.regnum = "gpr", !.newstat.ll = TRUE,
                                           !.type = "LOADLNK"])
    \/ MemAccess("ldw", TRUE, [Fresh EXCEPT !.regnum = "gpr", !.type = "LOAD"])

ExecStore == MemAccess("stw", FALSE, [Fresh EXCEPT !.type = "STORE"])

ScStores ==
    MemAccess("sc", FALSE, [Fresh EXCEPT !.regnum = "gpr", !.regval = 0, !.type = "SCOND"])

\* sc: a store under the load link, a failed result without it.
ExecStoreCond ==
    \/ ctl.status.ll /\ ScStores
    \/ /\ Decoded("sc")
       /\ ~ ctl.status.ll
       /\ inter' = GprUp("GPRUP", NextPc)
       /\ UNCHANGED <<data_out, coproc_out>>

\* `! cpmask & umcpen`, with cpmask the uint8_t 1 << c: the negation binds
\* first, so the test is whether the mask is 0 and bit 0 of UMCPEN is set.
CpDenied(c) == ctl.status.um /\ 2 ^ c % 256 = 0 /\ 0 \in ctl.umcpen

CoprocAccess(op, busop, type) ==
    /\ Decoded(op)
    /\ \E c \in CpNum :
         IF CpDenied(c)
         THEN /\ inter' = Trap(Fresh, ctl.hdl["privophdl"])
              /\ UNCHANGED coproc_out
         ELSE /\ inter' = [Fresh EXCEPT !.type = type,
                                        !.regnum = IF type = "CPREAD" THEN "gpr" ELSE @]
              /\ coproc_out' = [op |-> busop, select |-> c]
    /\ UNCHANGED data_out

ExecCoproc ==
    \/ CoprocAccess("mfcp", "READ", "CPREAD")
    \/ CoprocAccess("mtcp", "WRITE", "BRANCH")
    \/ CoprocAccess("cpop", "EXEC", "BRANCH")

ExecInt ==
    /\ Decoded("int")
    /\ inter' = [Trap(Fresh, ctl.hdl["swihdl"]) EXCEPT !.regval = NextPc]
    /\ UNCHANGED <<data_out, coproc_out>>

ExecRfi ==
    /\ Decoded("rfi")
    /\ Privileged({[Fresh EXCEPT !.newstat = StatusRfi(ctl.status), !.nextpc = ctl.epc,
                                 !.type = "RFI"]})
    /\ UNCHANGED <<data_out, coproc_out>>

ExecMoveFromCtl ==
    /\ Decoded("mfctl")
    /\ Privileged({GprUp("GPRUP", NextPc)})
    /\ UNCHANGED <<data_out, coproc_out>>

\* mtctl without its privilege test.
BugMtctlUnchecked ==
    /\ Decoded("mtctl")
    /\ inter' \in {[Fresh EXCEPT !.regnum = r, !.regval = 0, !.type = "CTLUP"] :
                      r \in WritableReg}
    /\ UNCHANGED <<data_out, coproc_out>>

ExecMoveToCtl ==
    /\ Decoded("mtctl")
    /\ Privileged({[Fresh EXCEPT !.regnum = r, !.regval = 0, !.type = "CTLUP"] :
                      r \in WritableReg})
    /\ UNCHANGED <<data_out, coproc_out>>

ExecSleep ==
    /\ Decoded("sleep")
    /\ Privileged({[Fresh EXCEPT !.type = "SLEEP"]})
    /\ UNCHANGED <<data_out, coproc_out>>

Execute ==
    \/ ExecAlu \/ ExecBranch \/ ExecLink
    \/ ExecLoad \/ ExecStore \/ ExecStoreCond
    \/ ExecCoproc
    \/ ExecInt \/ ExecRfi \/ ExecMoveFromCtl \/ ExecMoveToCtl \/ ExecSleep

Exec ==
    /\ \/ ExecDataStall \/ ExecSleeping \/ ExecInstrStall \/ ExecInstrFault
       \/ ExecInterrupt \/ Execute
    /\ UNCHANGED latched
    /\ UNCHANGED instr_out

---------------------------------------------------------------------------
(* sim_core_update                                                         *)

\* The label `counter`: a cycle is counted and the coprocessor bus released.
Ticked(c) ==
    LET low == (c.counter.low + 1) % CounterMod
    IN  [c EXCEPT !.counter.low = low,
                  !.counter.high = IF low = 0 THEN (@ + 1) % CounterMod ELSE @]

\* A bus that is not released.
BugBusHeld == UNCHANGED coproc_out

ReleaseBus == coproc_out' = [coproc_out EXCEPT !.op = "NONE"]

\* A stall that withdraws the fetch it waits for.
BugStallDropsFetch ==
    /\ inter.instr_stall
    /\ ctl' = Ticked(ctl)
    /\ ReleaseBus
    /\ instr_out' = [instr_out EXCEPT !.request = FALSE]
    /\ UNCHANGED <<pc, sleeping, inter, data_out>>

UpdateInstrStall ==
    /\ inter.instr_stall
    /\ ctl' = Ticked(ctl)
    /\ ReleaseBus
    /\ UNCHANGED <<pc, sleeping, inter, instr_out, data_out>>

UpdateAsleep ==
    /\ ~ inter.instr_stall
    /\ sleeping
    /\ inter.type # "TRAP"
    /\ UNCHANGED <<pc, ctl, sleeping, inter, instr_out, data_out, coproc_out>>

\* An update of this type goes through: STATUS takes the latched value.
Proceed(types) ==
    /\ ~ inter.instr_stall
    /\ ~ (sleeping /\ inter.type # "TRAP")
    /\ inter.type \in types

WithStatus == [ctl EXCEPT !.status = inter.newstat]

\* A jump the fetch address does not follow.
BugAdvanceKeepsAddr ==
    /\ pc' = inter.nextpc
    /\ instr_out' = [instr_out EXCEPT !.request = TRUE]

\* The fetch of the next instruction goes on the bus.
Advance ==
    /\ pc' = inter.nextpc
    /\ instr_out' = [instr_out EXCEPT !.addr = inter.nextpc, !.request = TRUE]

UpdateDataStall ==
    /\ Proceed(MemType)
    /\ ~ data_in.valid
    /\ ~ data_in.fault
    /\ ctl' = Ticked(WithStatus)
    /\ inter' = [inter EXCEPT !.data_stall = TRUE]
    /\ instr_out' = [instr_out EXCEPT !.request = FALSE]
    /\ ReleaseBus
    /\ UNCHANGED <<pc, sleeping, data_out>>

\* The trap is applied to newstat, which STATUS has already been loaded from,
\* and to nextpc; EPC is not saved and the request stays up.
UpdateDataFault ==
    /\ Proceed(MemType)
    /\ data_in.fault
    /\ ctl' = Ticked(WithStatus)
    /\ inter' = [inter EXCEPT !.newstat = StatusTrap(inter.newstat),
                              !.nextpc = ctl.hdl["dfaulthdl"], !.data_stall = FALSE]
    /\ pc' = ctl.hdl["dfaulthdl"]
    /\ instr_out' = [instr_out EXCEPT !.addr = ctl.hdl["dfaulthdl"], !.request = TRUE]
    /\ ReleaseBus
    /\ UNCHANGED <<sleeping, data_out>>

\* A completed access that leaves its request up: it is served again.
BugRequestHeld ==
    /\ Proceed(MemType)
    /\ data_in.valid
    /\ ~ data_in.fault
    /\ ctl' = Ticked([WithStatus EXCEPT !.status.ll = (inter.type = "LOADLNK")])
    /\ inter' = [inter EXCEPT !.data_stall = FALSE]
    /\ Advance
    /\ ReleaseBus
    /\ UNCHANGED <<sleeping, data_out>>

UpdateDataDone ==
    /\ Proceed(MemType)
    /\ data_in.valid
    /\ ~ data_in.fault
    /\ ctl' = Ticked([WithStatus EXCEPT !.status.ll = (inter.type = "LOADLNK")])
    /\ inter' = [inter EXCEPT !.data_stall = FALSE]
    /\ data_out' = [data_out EXCEPT !.request = FALSE]
    /\ Advance
    /\ ReleaseBus
    /\ UNCHANGED sleeping

\* General registers, branches and coprocessor reads: no control state but pc.
UpdatePlain ==
    /\ Proceed({"GPRUP", "BRANCH", "BRLINK", "CPREAD"})
    /\ ctl' = Ticked(WithStatus)
    /\ Advance
    /\ ReleaseBus
    /\ UNCHANGED <<sleeping, inter, data_out>>

\* What c may become when the program writes the register named in the latch.
Written(c) ==
    CASE inter.regnum = "status"       -> {[c EXCEPT !.status = s] : s \in StatusWrites}
      [] inter.regnum = "ienable"      -> {[c EXCEPT !.ienable = m] : m \in MaskWrites}
      [] inter.regnum = "umcpen"       -> {[c EXCEPT !.umcpen = m] : m \in MaskWrites}
      [] inter.regnum = "epc"          -> {[c EXCEPT !.epc = a] : a \in AddrWrites}
      [] inter.regnum = "epc_saved"    -> {[c EXCEPT !.epc_saved = a] : a \in AddrWrites}
      [] inter.regnum \in Vector       -> {[c EXCEPT !.hdl[inter.regnum] = a] : a \in AddrWrites}
      [] inter.regnum = "exihdl"       -> {[c EXCEPT !.exihdl[i] = a] :
                                              i \in IntLine, a \in AddrWrites}
      [] inter.regnum = "counter_low"  -> {[c EXCEPT !.counter.low = n] : n \in CounterWrites}
      [] inter.regnum = "counter_high" -> {[c EXCEPT !.counter.high = n] : n \in CounterWrites}
      [] OTHER                         -> {c}

UpdateCtl ==
    /\ Proceed({"CTLUP"})
    /\ \E c \in Written(WithStatus) : ctl' = Ticked(c)
    /\ Advance
    /\ ReleaseBus
    /\ UNCHANGED <<sleeping, inter, data_out>>

\* A handler entry that leaves the previous return address where it was.
BugTrapKeepsEpcSaved ==
    /\ Proceed({"TRAP"})
    /\ ctl' = Ticked([WithStatus EXCEPT !.epc = inter.regval])
    /\ sleeping' = FALSE
    /\ Advance
    /\ ReleaseBus
    /\ UNCHANGED <<inter, data_out>>

UpdateTrap ==
    /\ Proceed({"TRAP"})
    /\ ctl' = Ticked([WithStatus EXCEPT !.epc_saved = ctl.epc, !.epc = inter.regval])
    /\ sleeping' = FALSE
    /\ Advance
    /\ ReleaseBus
    /\ UNCHANGED <<inter, data_out>>

UpdateRfi ==
    /\ Proceed({"RFI"})
    /\ ctl' = Ticked([WithStatus EXCEPT !.epc = ctl.epc_saved])
    /\ Advance
    /\ ReleaseBus
    /\ UNCHANGED <<sleeping, inter, data_out>>

\* The next fetch is withheld until a trap ends the sleep.
UpdateSleep ==
    /\ Proceed({"SLEEP"})
    /\ ctl' = Ticked(WithStatus)
    /\ sleeping' = TRUE
    /\ pc' = inter.nextpc
    /\ instr_out' = [instr_out EXCEPT !.request = FALSE]
    /\ ReleaseBus
    /\ UNCHANGED <<inter, data_out>>

\* A test that looks at the global enable bit alone.
BugUnwakeableForgetsMask == Proceed({"SLEEP"}) /\ ~ inter.newstat.gie

\* The status sim_core_update returns is -1: "unwakeable SLEEP".
Unwakeable ==
    /\ Proceed({"SLEEP"})
    /\ ~ inter.newstat.gie \/ ctl.ienable = {}

Update ==
    \/ UpdateInstrStall \/ UpdateAsleep \/ UpdateDataStall \/ UpdateDataFault
    \/ UpdateDataDone \/ UpdatePlain \/ UpdateCtl \/ UpdateTrap \/ UpdateRfi
    \/ UpdateSleep
============================================================================
