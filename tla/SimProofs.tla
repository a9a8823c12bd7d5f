------------------------------ MODULE SimProofs ------------------------------
(***************************************************************************)
(* Proofs about the simulator, for every size of the address space, every  *)
(* set of coprocessors, every program and every memory delay.              *)
(***************************************************************************)
EXTENDS SimProps, TLAPS

(***************************************************************************)
(* Type correctness.                                                       *)
(***************************************************************************)

\* Entering a handler keeps STATUS and the latch well formed (status_trap, and
\* the label `trap` of sim_core_exec).
LEMMA StatusTrapType ==
    ASSUME NEW s \in Status
    PROVE  StatusTrap(s) \in Status
BY DEF StatusTrap, Status

\* ... and so does leaving one (status_rfi).
LEMMA StatusRfiType ==
    ASSUME NEW s \in Status
    PROVE  StatusRfi(s) \in Status
BY DEF StatusRfi, Status

\* The next pc wraps as a uint16_t does.
LEMMA NextPcType ==
    ASSUME pc \in Addr
    PROVE  NextPc \in Addr
BY SizesAssumption DEF NextPc, Addr

\* A latch that holds a trap is well formed (the label `trap`).
LEMMA TrapType ==
    ASSUME pc \in Addr, NEW latch \in InterType, NEW handler \in Addr
    PROVE  Trap(latch, handler) \in InterType
BY StatusTrapType DEF Trap, InterType, UpdateType

\* The latch every decoded instruction starts from is well formed.
LEMMA FreshType ==
    ASSUME pc \in Addr, inter \in InterType, ctl \in CtlType
    PROVE  Fresh \in InterType
BY NextPcType DEF Fresh, InterType, CtlType

\* Counting a cycle keeps the control registers well formed (the label `counter`
\* of sim_core_update).
LEMMA TickedType ==
    ASSUME NEW c \in CtlType
    PROVE  Ticked(c) \in CtlType
<1>1. \A n \in 0 .. CounterMod - 1 : (n + 1) % CounterMod \in 0 .. CounterMod - 1
  BY SizesAssumption
<1>2. c.counter \in Counter
  BY DEF CtlType
<1> QED
  BY <1>1, <1>2 DEF Ticked, CtlType, Counter

\* sim_core_exec, path by path, leaves a well-formed latch and well-formed pins.
LEMMA ExecType ==
    ASSUME TypeOK, Exec
    PROVE  /\ inter' \in InterType
           /\ data_out' \in MemPins
           /\ coproc_out' \in [op : CoprocOp, select : CpNum \cup {0}]
<1> USE DEF TypeOK
<1>1. /\ Fresh \in InterType
      /\ NextPc \in Addr
      /\ \A latch \in InterType, handler \in Addr : Trap(latch, handler) \in InterType
  BY FreshType, NextPcType, TrapType
<1>2. /\ \A v \in Vector : ctl.hdl[v] \in Addr
      /\ \A i \in Pending : ctl.exihdl[i] \in Addr
      /\ ctl.status \in Status /\ ctl.epc \in Addr
  BY DeviceAssumption DEF CtlType, Pending
<1>3. \A type \in UpdateType, a \in Addr : GprUp(type, a) \in InterType
  <2>1. 0 \in Addr
    BY SizesAssumption DEF Addr
  <2> QED
    BY <1>1, <2>1 DEF GprUp, InterType, RegNum
<1>4. \A latch \in InterType : TakeInterrupt(latch) => inter' \in InterType
  BY <1>1, <1>2 DEF TakeInterrupt
<1>5. \A latches \in SUBSET InterType : Privileged(latches) => inter' \in InterType
  BY <1>1, <1>2 DEF Privileged, Vector
<1>6. CASE ExecDataStall
  BY <1>6 DEF ExecDataStall
<1>7. CASE ExecSleeping
  BY <1>4, <1>7 DEF ExecSleeping
<1>8. CASE ExecInstrStall
  BY <1>8 DEF ExecInstrStall, InterType
<1>9. CASE ExecInstrFault
  BY <1>1, <1>2, <1>9 DEF ExecInstrFault, Vector
<1>10. CASE ExecInterrupt
  <2>1. [inter EXCEPT !.instr_stall = FALSE] \in InterType
    BY DEF InterType
  <2> QED
    BY <1>4, <1>10, <2>1 DEF ExecInterrupt
<1>11. CASE ExecAlu
  BY <1>1, <1>3, <1>11 DEF ExecAlu, UpdateType
<1>12. CASE ExecBranch
  <2>1. PICK target \in Addr : inter' = [Fresh EXCEPT !.nextpc = target, !.type = "BRANCH"]
    BY <1>12 DEF ExecBranch
  <2>2. inter' \in InterType
    BY <1>1, <2>1 DEF InterType, UpdateType
  <2> QED
    BY <1>12, <2>2 DEF ExecBranch
<1>13. CASE ExecLink
  BY <1>1, <1>3, <1>13 DEF ExecLink, UpdateType
<1>14. CASE ExecLoad
  <2>1. /\ [Fresh EXCEPT !.regnum = "gpr", !.newstat.ll = TRUE, !.type = "LOADLNK"] \in InterType
        /\ [Fresh EXCEPT !.regnum = "gpr", !.type = "LOAD"] \in InterType
    BY <1>1 DEF InterType, UpdateType, RegNum, Status
  <2> QED
    BY <1>14, <2>1 DEF ExecLoad, MemAccess, MemPins
<1>15. CASE ExecStore
  BY <1>1, <1>15 DEF ExecStore, MemAccess, MemPins, InterType, UpdateType
<1>16. CASE ExecStoreCond
  <2>1. 0 \in Addr
    BY SizesAssumption DEF Addr
  <2>2. [Fresh EXCEPT !.regnum = "gpr", !.regval = 0, !.type = "SCOND"] \in InterType
    BY <1>1, <2>1 DEF InterType, UpdateType, RegNum
  <2>3. GprUp("GPRUP", NextPc) \in InterType
    BY <1>1, <1>3 DEF UpdateType
  <2> QED
    BY <1>16, <2>2, <2>3 DEF ExecStoreCond, ScStores, MemAccess, MemPins
<1>17. CASE ExecCoproc
  <2>1. ASSUME NEW op, NEW busop \in CoprocOp, NEW type \in UpdateType,
               CoprocAccess(op, busop, type)
        PROVE  /\ inter' \in InterType
               /\ coproc_out' \in [op : CoprocOp, select : CpNum \cup {0}]
               /\ data_out' = data_out
    <3>1. /\ Trap(Fresh, ctl.hdl["privophdl"]) \in InterType
          /\ [Fresh EXCEPT !.type = type, !.regnum = IF type = "CPREAD" THEN "gpr" ELSE @]
                \in InterType
      BY <1>1, <1>2 DEF InterType, RegNum, Vector
    <3> QED
      BY <2>1, <3>1 DEF CoprocAccess
  <2> QED
    BY <1>17, <2>1 DEF ExecCoproc, CoprocOp, UpdateType
<1>18. CASE ExecInt
  BY <1>1, <1>2, <1>18 DEF ExecInt, InterType, Vector
<1>19. CASE ExecRfi
  <2>1. [Fresh EXCEPT !.newstat = StatusRfi(ctl.status), !.nextpc = ctl.epc,
                      !.type = "RFI"] \in InterType
    BY <1>1, <1>2, StatusRfiType DEF InterType, UpdateType
  <2> QED
    BY <1>5, <1>19, <2>1 DEF ExecRfi
<1>20. CASE ExecMoveFromCtl
  <2>1. GprUp("GPRUP", NextPc) \in InterType
    BY <1>1, <1>3 DEF UpdateType
  <2> QED
    BY <1>5, <1>20, <2>1 DEF ExecMoveFromCtl
<1>21. CASE ExecMoveToCtl
  <2>1. 0 \in Addr /\ WritableReg \subseteq RegNum
    BY ProgramAssumption, SizesAssumption DEF RegNum, Addr
  <2>2. ASSUME NEW r \in WritableReg
        PROVE  [Fresh EXCEPT !.regnum = r, !.regval = 0, !.type = "CTLUP"] \in InterType
    BY <1>1, <2>1 DEF InterType, UpdateType
  <2> QED
    BY <1>5, <1>21, <2>2 DEF ExecMoveToCtl
<1>22. CASE ExecSleep
  <2>1. [Fresh EXCEPT !.type = "SLEEP"] \in InterType
    BY <1>1 DEF InterType, UpdateType
  <2> QED
    BY <1>5, <1>22, <2>1 DEF ExecSleep
<1> QED
  BY <1>6, <1>7, <1>8, <1>9, <1>10, <1>11, <1>12, <1>13, <1>14, <1>15, <1>16, <1>17, <1>18,
     <1>19, <1>20, <1>21, <1>22 DEF Exec, Execute

\* sim_core_update, path by path.
LEMMA UpdateStepType ==
    ASSUME TypeOK, Update
    PROVE  /\ pc' \in Addr
           /\ ctl' \in CtlType
           /\ sleeping' \in BOOLEAN
           /\ inter' \in InterType
           /\ instr_out' \in MemPins /\ data_out' \in MemPins
           /\ coproc_out' \in [op : CoprocOp, select : CpNum \cup {0}]
<1> USE DEF TypeOK
<1>1. /\ inter.nextpc \in Addr /\ inter.regval \in Addr /\ inter.newstat \in Status
      /\ \A v \in Vector : ctl.hdl[v] \in Addr
      /\ ctl.epc \in Addr /\ ctl.epc_saved \in Addr
  BY DEF InterType, CtlType
<1>2. WithStatus \in CtlType
  BY <1>1 DEF WithStatus, CtlType
<1>3. Ticked(ctl) \in CtlType /\ Ticked(WithStatus) \in CtlType
  BY <1>2, TickedType
<1>4. ReleaseBus => coproc_out' \in [op : CoprocOp, select : CpNum \cup {0}]
  BY DEF ReleaseBus, CoprocOp
<1>5. Advance => pc' \in Addr /\ instr_out' \in MemPins
  BY <1>1 DEF Advance, MemPins
<1>6. CASE UpdateInstrStall
  BY <1>3, <1>4, <1>6 DEF UpdateInstrStall
<1>7. CASE UpdateAsleep
  BY <1>7 DEF UpdateAsleep
<1>8. CASE UpdateDataStall
  BY <1>3, <1>4, <1>8 DEF UpdateDataStall, InterType, MemPins
<1>9. CASE UpdateDataFault
  BY <1>1, <1>3, <1>4, <1>9, StatusTrapType
  DEF UpdateDataFault, InterType, MemPins, Vector
<1>10. CASE UpdateDataDone
  <2>1. [WithStatus EXCEPT !.status.ll = (inter.type = "LOADLNK")] \in CtlType
    BY <1>2 DEF CtlType, Status
  <2> QED
    BY <1>4, <1>5, <1>10, <2>1, TickedType DEF UpdateDataDone, InterType, MemPins
<1>11. CASE UpdatePlain
  BY <1>3, <1>4, <1>5, <1>11 DEF UpdatePlain
<1>12. CASE UpdateCtl
  <2>1. \A c \in Written(WithStatus) : c \in CtlType
    BY <1>2, ProgramAssumption DEF Written, CtlType, Counter, Vector
  <2> QED
    BY <1>4, <1>5, <1>12, <2>1, TickedType DEF UpdateCtl
<1>13. CASE UpdateTrap
  <2>1. [WithStatus EXCEPT !.epc_saved = ctl.epc, !.epc = inter.regval] \in CtlType
    BY <1>1, <1>2 DEF CtlType
  <2> QED
    BY <1>4, <1>5, <1>13, <2>1, TickedType DEF UpdateTrap
<1>14. CASE UpdateRfi
  <2>1. [WithStatus EXCEPT !.epc = ctl.epc_saved] \in CtlType
    BY <1>1, <1>2 DEF CtlType
  <2> QED
    BY <1>4, <1>5, <1>14, <2>1, TickedType DEF UpdateRfi
<1>15. CASE UpdateSleep
  BY <1>1, <1>3, <1>4, <1>15 DEF UpdateSleep, MemPins
<1> QED
  BY <1>6, <1>7, <1>8, <1>9, <1>10, <1>11, <1>12, <1>13, <1>14, <1>15 DEF Update

\* A call of sim_memif_access, for either memory.
LEMMA AccessType ==
    ASSUME TypeOK
    PROVE  /\ IMem!Access => imem' \in IMem!MemState /\ instr_in' \in IMem!Answer
           /\ DMem!Access => dmem' \in DMem!MemState /\ data_in' \in DMem!Answer
<1>1. ASSUME IMem!Access
      PROVE  imem' \in IMem!MemState /\ instr_in' \in IMem!Answer
  <2>1. IMem!Wait > 0 => IMem!Wait - 1 \in 0 .. MEMIF_DELAY
    BY DeviceAssumption DEF TypeOK, IMem!Wait, IMem!MemState
  <2>2. IMem!MemInit \in IMem!MemState
    BY DeviceAssumption DEF IMem!MemInit, IMem!MemState
  <2>3. CASE IMem!AccessIdle
    BY <2>3 DEF TypeOK, IMem!AccessIdle, IMem!NoAnswer, IMem!Answer
  <2>4. CASE IMem!AccessDelay
    BY <2>1, <2>4 DEF IMem!AccessDelay, IMem!NoAnswer, IMem!Answer, IMem!MemState
  <2>5. CASE IMem!AccessFault
    BY <2>2, <2>5 DEF IMem!AccessFault, IMem!Answer
  <2>6. CASE IMem!AccessServe
    BY <2>2, <2>6 DEF IMem!AccessServe, IMem!Answer
  <2> QED
    BY <1>1, <2>3, <2>4, <2>5, <2>6 DEF IMem!Access
<1>2. ASSUME DMem!Access
      PROVE  dmem' \in DMem!MemState /\ data_in' \in DMem!Answer
  <2>1. DMem!Wait > 0 => DMem!Wait - 1 \in 0 .. MEMIF_DELAY
    BY DeviceAssumption DEF TypeOK, DMem!Wait, DMem!MemState
  <2>2. DMem!MemInit \in DMem!MemState
    BY DeviceAssumption DEF DMem!MemInit, DMem!MemState
  <2>3. CASE DMem!AccessIdle
    BY <2>3 DEF TypeOK, DMem!AccessIdle, DMem!NoAnswer, DMem!Answer
  <2>4. CASE DMem!AccessDelay
    BY <2>1, <2>4 DEF DMem!AccessDelay, DMem!NoAnswer, DMem!Answer, DMem!MemState
  <2>5. CASE DMem!AccessFault
    BY <2>2, <2>5 DEF DMem!AccessFault, DMem!Answer
  <2>6. CASE DMem!AccessServe
    BY <2>2, <2>6 DEF DMem!AccessServe, DMem!Answer
  <2> QED
    BY <1>2, <2>3, <2>4, <2>5, <2>6 DEF DMem!Access
<1> QED
  BY <1>1, <1>2

\* The core comes out of reset well formed.
LEMMA InitType == Init => TypeOK
<1> SUFFICES ASSUME Init PROVE TypeOK
  OBVIOUS
<1>1. 0 \in Addr /\ 0 \in 0 .. CounterMod - 1
  BY SizesAssumption DEF Addr
<1>2. ctl \in CtlType /\ inter \in InterType
  BY <1>1 DEF Init, CoreInit, PowerOnCtl, PowerOnInter, PowerOnStatus, CtlType, InterType,
     Status, Counter, RegNum, UpdateType
<1>3. imem \in IMem!MemState /\ dmem \in DMem!MemState
  BY DeviceAssumption DEF Init, IMem!MemInit, DMem!MemInit, IMem!MemState, DMem!MemState
<1> QED
  BY <1>1, <1>2, <1>3 DEF TypeOK, Init, CoreInit, MemPins, CoprocOp, IMem!NoAnswer,
     DMem!NoAnswer, IMem!Answer, DMem!Answer, Stage

\* Every call of cycle() keeps the types.
LEMMA NextType ==
    ASSUME TypeOK, [Next]_vars
    PROVE  TypeOK'
<1> USE DEF At, coreState, corePins, answers, interfaces
<1>1. CASE Fetch
  BY <1>1, AccessType DEF Fetch, TypeOK, Stage
<1>2. CASE CoreExec
  BY <1>2, ExecType DEF CoreExec, Exec, latched, TypeOK, Stage
<1>3. CASE CpExec
  BY <1>3 DEF CpExec, TypeOK, Stage
<1>4. CASE CpData
  BY <1>4 DEF CpData, TypeOK, Stage
<1>5. CASE MemData
  BY <1>5, AccessType DEF MemData, TypeOK, Stage
<1>6. CASE CoreUpdate
  BY <1>6, UpdateStepType DEF CoreUpdate, Unwakeable, Proceed, TypeOK, Stage
<1>7. CASE UNCHANGED vars
  BY <1>7 DEF vars, TypeOK
<1> QED
  BY <1>1, <1>2, <1>3, <1>4, <1>5, <1>6, <1>7 DEF Next

\* Every variable stays within its type (sim_core.c and sim_memif.c).
THEOREM TypeCorrect == Spec => []TypeOK
  BY InitType, NextType, PTL DEF Spec

(***************************************************************************)
(* The inductive invariants.  A cycle has two halves, and the latch says   *)
(* something about the buses only in the second.                           *)
(***************************************************************************)

\* exec has run in this cycle and update has not.
Decided == stage \in {"coproc", "data", "dmem", "update"}

FetchInv ==
    /\ instr_out.request => instr_out.addr = pc
    /\ Awake => instr_out.request

\* A sleeping core has its sleep, or the trap that ends it, in the latch, and
\* drives no bus; the run loop gives up between cycles only.
SleepInv ==
    /\ sleeping => /\ inter.type \in {"SLEEP", "TRAP"}
                   /\ ~ inter.instr_stall
                   /\ coproc_out.op = "NONE"
    /\ halted => stage = "fetch"

\* A request on the data bus and the latch stand for the same access.
BusInv ==
    /\ ~ data_in.fault
    /\ inter.data_stall => data_out.request /\ ~ inter.instr_stall /\ ~ instr_out.request
    /\ data_out.request => inter.type \in MemType /\ ~ sleeping /\ ~ inter.instr_stall
    /\ ~ Decided /\ data_out.request => inter.data_stall
    /\ Decided /\ inter.type \in MemType /\ ~ inter.instr_stall => data_out.request

\* What a user program has decided keeps it in user mode.
ModeInv ==
    /\ sleeping => ~ ctl.status.um /\ (inter.type = "SLEEP" => ~ inter.newstat.um)
    /\ inter.data_stall => inter.type \in MemType /\ ~ inter.instr_stall
                           /\ (ctl.status.um => inter.newstat.um)
    /\ Decided /\ ~ inter.instr_stall /\ ctl.status.um =>
         /\ inter.type \notin {"CTLUP", "SLEEP", "RFI"}
         /\ inter.type = "TRAP" \/ inter.newstat.um
    /\ Decided /\ ~ inter.instr_stall /\ inter.type = "SLEEP" => ~ inter.newstat.um

---------------------------------------------------------------------------
(* What sim_core_exec does, as far as the invariants tell its paths apart. *)

\* A trap keeps the stalls of the latch it is put in.
LEMMA TrapFields ==
    ASSUME NEW latch \in InterType, NEW handler
    PROVE  /\ Trap(latch, handler).type = "TRAP"
           /\ Trap(latch, handler).instr_stall = latch.instr_stall
           /\ Trap(latch, handler).data_stall = latch.data_stall
BY DEF Trap, InterType

\* A decoded instruction starts unstalled, from STATUS as it stands.
LEMMA FreshFields ==
    ASSUME inter \in InterType
    PROVE  /\ ~ Fresh.instr_stall
           /\ Fresh.data_stall = inter.data_stall
           /\ Fresh.newstat = ctl.status
BY DEF Fresh, InterType

\* A decoded instruction: it asks for memory exactly when its latch says so, and
\* in user mode it stays there or traps.
Deed ==
    /\ inter'.data_stall = inter.data_stall
    /\ ~ inter'.instr_stall
    /\ IF inter'.type \in MemType THEN data_out'.request ELSE data_out' = data_out
    /\ ctl.status.um => /\ inter'.type \notin {"CTLUP", "SLEEP", "RFI"}
                        /\ inter'.type = "TRAP" \/ inter'.newstat.um
    /\ inter'.type = "SLEEP" => ~ inter'.newstat.um

\* Every instruction class is such a deed (the switch of sim_core_exec).
LEMMA ExecuteDeed ==
    ASSUME TypeOK, Execute
    PROVE  Deed
<1>1. Fresh \in InterType
  BY FreshType DEF TypeOK
<1>2. /\ ~ Fresh.instr_stall
      /\ Fresh.data_stall = inter.data_stall
      /\ Fresh.newstat = ctl.status
  BY FreshFields DEF TypeOK
<1>3. ctl.status \in Status
  BY DEF TypeOK, CtlType
<1>4. \A handler : /\ Trap(Fresh, handler).type = "TRAP"
                   /\ ~ Trap(Fresh, handler).instr_stall
                   /\ Trap(Fresh, handler).data_stall = inter.data_stall
  BY <1>1, <1>2, TrapFields
<1>5. CASE ExecAlu
  BY <1>1, <1>2, <1>5 DEF ExecAlu, GprUp, Deed, MemType, InterType
<1>6. CASE ExecBranch
  <2>1. PICK target \in Addr : inter' = [Fresh EXCEPT !.nextpc = target, !.type = "BRANCH"]
    BY <1>6 DEF ExecBranch
  <2> QED
    BY <1>1, <1>2, <1>6, <2>1 DEF ExecBranch, Deed, MemType, InterType
<1>7. CASE ExecLink
  <2>1. PICK target \in Addr, type \in {"GPRUP", "BRLINK"} : inter' = GprUp(type, target)
    BY <1>7 DEF ExecLink
  <2> QED
    BY <1>1, <1>2, <1>7, <2>1 DEF ExecLink, GprUp, Deed, MemType, InterType
<1>8. CASE ExecLoad
  <2>1. CASE MemAccess("ll", TRUE, [Fresh EXCEPT !.regnum = "gpr", !.newstat.ll = TRUE,
                                                !.type = "LOADLNK"])
    <3> DEFINE linked == [ctl.status EXCEPT !.ll = TRUE]
    <3>1. linked.um = ctl.status.um
      BY <1>3 DEF Status
    <3>2. inter' = [Fresh EXCEPT !.regnum = "gpr", !.newstat = linked, !.type = "LOADLNK"]
      BY <1>1, <1>2, <2>1 DEF MemAccess, InterType
    <3> HIDE DEF linked
    <3> QED
      BY <1>1, <1>2, <2>1, <3>1, <3>2 DEF MemAccess, Deed, MemType, InterType
  <2>2. CASE MemAccess("ldw", TRUE, [Fresh EXCEPT !.regnum = "gpr", !.type = "LOAD"])
    BY <1>1, <1>2, <2>2 DEF MemAccess, Deed, MemType, InterType
  <2> QED
    BY <1>8, <2>1, <2>2 DEF ExecLoad
<1>9. CASE ExecStore
  BY <1>1, <1>2, <1>9 DEF ExecStore, MemAccess, Deed, MemType, InterType
<1>10. CASE ExecStoreCond
  <2>1. CASE ScStores
    BY <1>1, <1>2, <2>1 DEF ScStores, MemAccess, Deed, MemType, InterType
  <2>2. CASE inter' = GprUp("GPRUP", NextPc) /\ data_out' = data_out
    BY <1>1, <1>2, <2>2 DEF GprUp, Deed, MemType, InterType
  <2> QED
    BY <1>10, <2>1, <2>2 DEF ExecStoreCond
<1>11. CASE ExecCoproc
  <2>1. ASSUME NEW op, NEW busop, NEW type \in {"CPREAD", "BRANCH"},
               CoprocAccess(op, busop, type)
        PROVE  Deed
    BY <1>1, <1>2, <1>4, <2>1 DEF CoprocAccess, Deed, MemType, InterType
  <2> QED
    BY <1>11, <2>1 DEF ExecCoproc
<1>12. CASE ExecInt
  <2>1. Trap(Fresh, ctl.hdl["swihdl"]) \in InterType
    BY <1>1, TrapType DEF TypeOK, CtlType, Vector
  <2> QED
    BY <1>4, <1>12, <2>1 DEF ExecInt, Deed, MemType, InterType
<1>13. CASE ExecRfi
  BY <1>1, <1>2, <1>4, <1>13 DEF ExecRfi, Privileged, Deed, MemType, InterType
<1>14. CASE ExecMoveFromCtl
  BY <1>1, <1>2, <1>4, <1>14 DEF ExecMoveFromCtl, GprUp, Privileged, Deed, MemType, InterType
<1>15. CASE ExecMoveToCtl
  <2>1. CASE ctl.status.um
    BY <1>4, <1>15, <2>1 DEF ExecMoveToCtl, Privileged, Deed, MemType
  <2>2. CASE ~ ctl.status.um
    <3>1. PICK r \in WritableReg :
              inter' = [Fresh EXCEPT !.regnum = r, !.regval = 0, !.type = "CTLUP"]
      BY <1>15, <2>2 DEF ExecMoveToCtl, Privileged
    <3> QED
      BY <1>1, <1>2, <1>15, <2>2, <3>1 DEF ExecMoveToCtl, Deed, MemType, InterType
  <2> QED
    BY <2>1, <2>2
<1>16. CASE ExecSleep
  BY <1>1, <1>2, <1>4, <1>16 DEF ExecSleep, Privileged, Deed, MemType, InterType
<1> QED
  BY <1>5, <1>6, <1>7, <1>8, <1>9, <1>10, <1>11, <1>12, <1>13, <1>14, <1>15, <1>16
  DEF Execute

\* The other paths: nothing goes on a bus, and the latch keeps the decision of an
\* earlier cycle, stalls, or holds a trap.
Pause ==
    /\ UNCHANGED <<data_out, coproc_out>>
    /\ inter'.data_stall = inter.data_stall
    /\ \/ ~ Awake /\ inter' = inter
       \/ Awake /\ inter'.instr_stall
       \/ /\ ~ inter.data_stall
          /\ inter'.type = "TRAP"
          /\ sleeping => inter'.instr_stall = inter.instr_stall

\* sim_core_exec is a deed of an awake core, or a pause.
LEMMA ExecSplit ==
    ASSUME TypeOK, Exec
    PROVE  /\ UNCHANGED <<pc, ctl, sleeping, instr_out>>
           /\ (Awake /\ Deed) \/ Pause
<1>1. UNCHANGED <<pc, ctl, sleeping, instr_out>>
  BY DEF Exec, latched
<1>2. inter \in InterType
  BY DEF TypeOK
<1>3. ASSUME NEW latch \in InterType, latch.data_stall = inter.data_stall,
             TakeInterrupt(latch)
      PROVE  /\ inter'.type = "TRAP"
             /\ inter'.data_stall = inter.data_stall
             /\ inter'.instr_stall = latch.instr_stall
  BY <1>3, TrapFields DEF TakeInterrupt
<1>4. CASE ExecDataStall
  BY <1>1, <1>4 DEF ExecDataStall, Pause, Awake
<1>5. CASE ExecSleeping
  BY <1>1, <1>2, <1>3, <1>5 DEF ExecSleeping, Pause, Awake
<1>6. CASE ExecInstrStall
  BY <1>1, <1>2, <1>6 DEF ExecInstrStall, Pause, InterType
<1>7. CASE ExecInstrFault
  BY <1>1, <1>2, <1>7, TrapFields DEF ExecInstrFault, Pause, Awake
<1>8. CASE ExecInterrupt
  <2>1. /\ [inter EXCEPT !.instr_stall = FALSE] \in InterType
        /\ [inter EXCEPT !.instr_stall = FALSE].data_stall = inter.data_stall
    BY <1>2 DEF InterType
  <2> QED
    BY <1>1, <1>3, <1>8, <2>1 DEF ExecInterrupt, Pause, Awake
<1>9. CASE Execute
  <2>1. Awake
    BY <1>9 DEF Execute, ExecAlu, ExecBranch, ExecLink, ExecLoad, ExecStore, ExecStoreCond,
       ScStores, MemAccess, ExecCoproc, CoprocAccess, ExecInt, ExecRfi, ExecMoveFromCtl,
       ExecMoveToCtl, ExecSleep, Decoded
  <2> QED
    BY <1>1, <1>9, <2>1, ExecuteDeed
<1> QED
  BY <1>1, <1>4, <1>5, <1>6, <1>7, <1>8, <1>9 DEF Exec

---------------------------------------------------------------------------
(* Fetching.                                                               *)

\* The fetch address and pc move together (the paths of sim_core_update).
LEMMA FetchInvStep ==
    ASSUME TypeOK, FetchInv, [Next]_vars
    PROVE  FetchInv'
<1> USE DEF FetchInv, Awake, coreState, corePins
<1>1. CASE Fetch \/ CpExec \/ CpData \/ MemData
  BY <1>1 DEF Fetch, CpExec, CpData, MemData
<1>2. CASE CoreExec
  <2>1. UNCHANGED <<pc, sleeping, instr_out>> /\ inter'.data_stall = inter.data_stall
    BY <1>2, ExecSplit DEF CoreExec, Deed, Pause
  <2> QED
    BY <2>1
<1>3. CASE CoreUpdate
  <2>1. Advance => FetchInv'
    BY DEF Advance, TypeOK, MemPins
  <2>2. CASE UpdateInstrStall \/ UpdateAsleep
    BY <2>2 DEF UpdateInstrStall, UpdateAsleep
  <2>3. CASE UpdateDataStall
    BY <2>3 DEF UpdateDataStall, TypeOK, MemPins, InterType
  <2>4. CASE UpdateDataFault
    BY <2>4 DEF UpdateDataFault, TypeOK, MemPins
  <2>5. CASE \/ UpdateDataDone \/ UpdatePlain \/ UpdateCtl \/ UpdateTrap \/ UpdateRfi
    BY <2>1, <2>5 DEF UpdateDataDone, UpdatePlain, UpdateCtl, UpdateTrap, UpdateRfi
  <2>6. CASE UpdateSleep
    BY <2>6 DEF UpdateSleep, TypeOK, MemPins
  <2> QED
    BY <1>3, <2>2, <2>3, <2>4, <2>5, <2>6 DEF CoreUpdate, Update
<1>4. CASE UNCHANGED vars
  BY <1>4 DEF vars
<1> QED
  BY <1>1, <1>2, <1>3, <1>4 DEF Next

\* The word exec decodes is the one at pc.
THEOREM FetchesPcAlways == Spec => []FetchesPc
<1>1. Init => FetchInv
  BY DEF Init, CoreInit, FetchInv
<1>2. FetchInv => FetchesPc
  BY DEF FetchInv, FetchesPc
<1> QED
  BY <1>1, <1>2, FetchInvStep, TypeCorrect, PTL DEF Spec

---------------------------------------------------------------------------
(* Sleeping, and the coprocessor bus.                                      *)

\* A sleeping core does nothing but wait for a trap, and the run loop has not
\* given up on it in the middle of a cycle.
WakeInv == SleepInv /\ OneCycleOnBus /\ SleepsWakeable

\* Falling asleep and waking leave the coprocessor bus and the run loop in order.
LEMMA WakeInvStep ==
    ASSUME TypeOK, WakeInv, [Next]_vars
    PROVE  WakeInv'
<1> USE DEF WakeInv, SleepInv, OneCycleOnBus, SleepsWakeable
<1>1. CASE Fetch \/ CpExec \/ CpData \/ MemData
  BY <1>1 DEF Fetch, CpExec, CpData, MemData, At, coreState, corePins
<1>2. CASE CoreExec
  <2>1. (Awake /\ Deed) \/ Pause
    BY <1>2, ExecSplit DEF CoreExec
  <2>2. UNCHANGED <<ctl, sleeping, halted>> /\ ~ halted /\ stage' = "coproc"
    BY <1>2, ExecSplit DEF CoreExec, At
  <2>3. sleeping => /\ inter'.type \in {"SLEEP", "TRAP"}
                    /\ ~ inter'.instr_stall
                    /\ coproc_out'.op = "NONE"
    BY <2>1 DEF Awake, Pause
  <2> QED
    BY <2>2, <2>3
<1>3. CASE CoreUpdate
  <2>1. stage' = "fetch" /\ ~ halted /\ halted' = Unwakeable
    BY <1>3 DEF CoreUpdate, At
  <2>2. ReleaseBus => coproc_out'.op = "NONE"
    BY DEF ReleaseBus, TypeOK
  <2>3. CASE UpdateInstrStall
    BY <2>1, <2>2, <2>3 DEF UpdateInstrStall, Ticked
  <2>4. CASE UpdateAsleep
    BY <2>1, <2>4 DEF UpdateAsleep
  <2>5. CASE UpdateSleep
    <3>1. ctl'.status = inter.newstat /\ ctl'.ienable = ctl.ienable
      BY <2>5 DEF UpdateSleep, Ticked, WithStatus, TypeOK, CtlType
    <3>2. UNCHANGED inter /\ inter.type = "SLEEP" /\ ~ inter.instr_stall
      BY <2>5 DEF UpdateSleep, Proceed
    <3>3. ~ halted' => inter.newstat.gie /\ ctl.ienable # {}
      BY <2>1, <2>5 DEF UpdateSleep, Unwakeable, Proceed
    <3> QED
      BY <2>1, <2>2, <2>5, <3>1, <3>2, <3>3 DEF UpdateSleep
  <2>6. CASE \/ UpdateDataStall \/ UpdateDataFault \/ UpdateDataDone \/ UpdatePlain
             \/ UpdateCtl \/ UpdateTrap \/ UpdateRfi
    <3>1. ~ sleeping'
      BY <2>6 DEF UpdateDataStall, UpdateDataFault, UpdateDataDone, UpdatePlain, UpdateCtl,
         UpdateTrap, UpdateRfi, Proceed, MemType
    <3>2. ReleaseBus
      BY <2>6 DEF UpdateDataStall, UpdateDataFault, UpdateDataDone, UpdatePlain, UpdateCtl,
         UpdateTrap, UpdateRfi
    <3> QED
      BY <2>1, <2>2, <3>1, <3>2
  <2> QED
    BY <1>3, <2>3, <2>4, <2>5, <2>6 DEF CoreUpdate, Update
<1>4. CASE UNCHANGED vars
  BY <1>4 DEF vars
<1> QED
  BY <1>1, <1>2, <1>3, <1>4 DEF Next

\* WakeInv holds throughout (SLEEP, the stalls, and the run loop's test).
LEMMA WakeInvAlways == Spec => []WakeInv
<1>1. Init => WakeInv
  BY DEF Init, CoreInit, WakeInv, SleepInv, OneCycleOnBus, SleepsWakeable
<1> QED
  BY <1>1, WakeInvStep, TypeCorrect, PTL DEF Spec

\* A coprocessor operation is on the bus in the cycle that issues it only.
THEOREM OneCycleOnBusAlways == Spec => []OneCycleOnBus
<1>1. WakeInv => OneCycleOnBus
  BY DEF WakeInv
<1> QED
  BY <1>1, WakeInvAlways, PTL

\* A core that sleeps on has interrupts enabled.
THEOREM SleepsWakeableAlways == Spec => []SleepsWakeable
<1>1. WakeInv => SleepsWakeable
  BY DEF WakeInv
<1> QED
  BY <1>1, WakeInvAlways, PTL

\* Between cycles the latch of a sleeping core holds its sleep.
DozeInv == sleeping /\ ~ Decided => inter.type = "SLEEP"

\* A sleeping core stays asleep with its sleep in the latch, or wakes.
LEMMA DozeStep ==
    ASSUME TypeOK, WakeInv, DozeInv, Next
    PROVE  DozeInv'
<1> USE DEF DozeInv, Decided
<1>1. CASE Fetch \/ CpExec \/ CpData \/ MemData
  BY <1>1 DEF Fetch, CpExec, CpData, MemData, At, coreState
<1>2. CASE CoreExec
  BY <1>2 DEF CoreExec, At
<1>3. CASE CoreUpdate
  <2>1. CASE UpdateInstrStall
    BY <2>1 DEF UpdateInstrStall, WakeInv, SleepInv
  <2>2. CASE UpdateAsleep
    BY <2>2 DEF UpdateAsleep, WakeInv, SleepInv
  <2>3. CASE UpdateSleep
    BY <2>3 DEF UpdateSleep, Proceed
  <2>4. CASE \/ UpdateDataStall \/ UpdateDataFault \/ UpdateDataDone \/ UpdatePlain
             \/ UpdateCtl \/ UpdateTrap \/ UpdateRfi
    <3>1. ~ sleeping'
      BY <2>4 DEF UpdateDataStall, UpdateDataFault, UpdateDataDone, UpdatePlain, UpdateCtl,
         UpdateTrap, UpdateRfi, Proceed, MemType
    <3> QED BY <3>1
  <2> QED BY <1>3, <2>1, <2>2, <2>3, <2>4 DEF CoreUpdate, Update
<1> QED BY <1>1, <1>2, <1>3 DEF Next

---------------------------------------------------------------------------
(* The data bus, when the memory covers the address space, as the          *)
(* simulator's does (PHYSMEM_NUMWORDS against a uint16_t).                 *)

MemoryCovers == \A a \in Addr : a <= MemLen

\* No path of exec and update lets the latch and the data request part.
LEMMA BusInvStep ==
    ASSUME MemoryCovers, TypeOK, WakeInv, BusInv, [Next]_vars
    PROVE  BusInv'
<1> USE DEF BusInv, Decided
<1>1. CASE Fetch \/ CpExec \/ CpData
  BY <1>1 DEF Fetch, CpExec, CpData, At, coreState, corePins, answers, IMem!Access
<1>2. CASE CoreExec
  <2>1. (Awake /\ Deed) \/ Pause
    BY <1>2, ExecSplit DEF CoreExec
  <2>2. UNCHANGED <<sleeping, instr_out, data_in>> /\ stage = "exec" /\ stage' = "coproc"
    BY <1>2, ExecSplit DEF CoreExec, At, answers
  <2>3. CASE Awake /\ Deed
    BY <2>2, <2>3 DEF Awake, Deed
  <2>4. CASE Pause
    BY <2>2, <2>4 DEF Pause, Awake, MemType, WakeInv, SleepInv
  <2> QED
    BY <2>1, <2>3, <2>4
<1>3. CASE MemData
  <2>1. data_out.addr \in Addr
    BY DEF TypeOK, MemPins
  <2>2. ~ DMem!AccessFault
    BY <2>1, DeviceAssumption DEF DMem!AccessFault, MemoryCovers, Addr
  <2>3. ~ data_in'.fault
    BY <1>3, <2>2 DEF MemData, DMem!Access, DMem!AccessIdle, DMem!AccessDelay,
       DMem!AccessServe, DMem!NoAnswer
  <2> QED
    BY <1>3, <2>3 DEF MemData, At, coreState, corePins
<1>4. CASE CoreUpdate
  <2>1. stage = "update" /\ stage' = "fetch" /\ UNCHANGED data_in
    BY <1>4 DEF CoreUpdate, At, answers
  <2>2. CASE UpdateInstrStall \/ UpdateAsleep
    BY <2>1, <2>2 DEF UpdateInstrStall, UpdateAsleep, WakeInv, SleepInv, MemType
  <2>3. CASE UpdateDataStall
    <3>1. /\ inter'.data_stall /\ inter'.type = inter.type
          /\ inter'.instr_stall = inter.instr_stall /\ ~ instr_out'.request
      BY <2>3 DEF UpdateDataStall, TypeOK, InterType, MemPins
    <3> QED
      BY <2>1, <2>3, <3>1 DEF UpdateDataStall, Proceed, MemType
  <2>4. CASE UpdateDataFault
    BY <2>4 DEF UpdateDataFault
  <2>5. CASE UpdateDataDone
    <3>1. ~ inter'.data_stall /\ ~ data_out'.request
      BY <2>5 DEF UpdateDataDone, TypeOK, InterType, MemPins
    <3> QED
      BY <2>1, <3>1
  <2>6. CASE UpdatePlain \/ UpdateCtl \/ UpdateTrap \/ UpdateRfi \/ UpdateSleep
    <3>1. /\ UNCHANGED <<inter, data_out>>
          /\ inter.type \notin MemType
      BY <2>6 DEF UpdatePlain, UpdateCtl, UpdateTrap, UpdateRfi, UpdateSleep, Proceed, MemType
    <3> QED
      BY <2>1, <3>1
  <2> QED
    BY <1>4, <2>2, <2>3, <2>4, <2>5, <2>6 DEF CoreUpdate, Update
<1>5. CASE UNCHANGED vars
  BY <1>5 DEF vars
<1> QED
  BY <1>1, <1>2, <1>3, <1>4, <1>5 DEF Next

\* Between cycles the data bus carries the request of the stalled instruction or
\* nothing.
THEOREM NoStrayAccessAlways == MemoryCovers => (Spec => []NoStrayAccess)
<1> SUFFICES ASSUME MemoryCovers PROVE Spec => []NoStrayAccess
  OBVIOUS
<1>1. Init => BusInv
  BY DEF Init, CoreInit, PowerOnInter, DMem!NoAnswer, BusInv, Decided
<1>2. BusInv => NoStrayAccess
  BY DEF BusInv, Decided, NoStrayAccess
<1>3. TypeOK /\ WakeInv /\ BusInv /\ [Next]_vars => BusInv'
  BY BusInvStep
<1> QED
  BY <1>1, <1>2, <1>3, TypeCorrect, WakeInvAlways, PTL DEF Spec

---------------------------------------------------------------------------
(* User mode.                                                              *)

\* No decision taken in user mode is privileged, however long it is stalled.
LEMMA ModeInvStep ==
    ASSUME TypeOK, WakeInv, ModeInv, [Next]_vars
    PROVE  ModeInv'
<1> USE DEF ModeInv, Decided
<1>1. CASE Fetch \/ CpExec \/ CpData \/ MemData
  BY <1>1 DEF Fetch, CpExec, CpData, MemData, At, coreState, corePins
<1>2. CASE CoreExec
  <2>1. (Awake /\ Deed) \/ Pause
    BY <1>2, ExecSplit DEF CoreExec
  <2>2. UNCHANGED <<sleeping, ctl>> /\ stage = "exec" /\ stage' = "coproc"
    BY <1>2, ExecSplit DEF CoreExec, At
  <2>3. CASE Awake /\ Deed
    BY <2>2, <2>3 DEF Awake, Deed
  <2>4. CASE Pause
    BY <2>2, <2>4 DEF Pause, Awake, MemType, WakeInv, SleepInv
  <2> QED
    BY <2>1, <2>3, <2>4
<1>3. CASE CoreUpdate
  <2>1. stage = "update" /\ stage' = "fetch"
    BY <1>3 DEF CoreUpdate, At
  <2>2. CASE UpdateInstrStall \/ UpdateAsleep
    <3>1. ctl'.status = ctl.status /\ UNCHANGED <<inter, sleeping>>
      BY <2>2 DEF UpdateInstrStall, UpdateAsleep, Ticked, TypeOK, CtlType
    <3> QED
      BY <2>1, <3>1
  <2>3. CASE UpdateDataStall
    <3>1. /\ ctl'.status = inter.newstat /\ inter'.newstat = inter.newstat
          /\ inter'.type = inter.type /\ inter.type \in MemType
          /\ inter'.instr_stall = inter.instr_stall /\ ~ inter.instr_stall
          /\ ~ sleeping'
      BY <2>3 DEF UpdateDataStall, Proceed, Ticked, WithStatus, TypeOK, CtlType, InterType,
         MemType
    <3> QED
      BY <2>1, <3>1
  <2>4. CASE UpdateDataFault \/ UpdateDataDone
    <3>1. ~ inter'.data_stall /\ ~ sleeping'
      BY <2>4 DEF UpdateDataFault, UpdateDataDone, Proceed, TypeOK, InterType, MemType
    <3> QED
      BY <2>1, <3>1
  <2>5. CASE UpdatePlain \/ UpdateCtl \/ UpdateTrap \/ UpdateRfi
    <3>1. ~ inter'.data_stall /\ ~ sleeping'
      BY <2>5 DEF UpdatePlain, UpdateCtl, UpdateTrap, UpdateRfi, Proceed, MemType
    <3> QED
      BY <2>1, <3>1
  <2>6. CASE UpdateSleep
    <3>1. /\ ctl'.status = inter.newstat /\ UNCHANGED inter
          /\ inter.type = "SLEEP" /\ ~ inter.instr_stall
      BY <2>6 DEF UpdateSleep, Proceed, Ticked, WithStatus, TypeOK, CtlType
    <3> QED
      BY <2>1, <3>1 DEF MemType
  <2> QED
    BY <1>3, <2>2, <2>3, <2>4, <2>5, <2>6 DEF CoreUpdate, Update
<1>4. CASE UNCHANGED vars
  BY <1>4 DEF vars
<1> QED
  BY <1>1, <1>2, <1>3, <1>4 DEF Next

\* ModeInv holds throughout (exec decides, update acts).
LEMMA ModeInvAlways == Spec => []ModeInv
<1>1. Init => ModeInv
  BY DEF Init, CoreInit, PowerOnInter, PowerOnCtl, PowerOnStatus, ModeInv, Decided
<1> QED
  BY <1>1, ModeInvStep, WakeInvAlways, TypeCorrect, PTL DEF Spec

\* Acting on such a decision confines the step (the paths of sim_core_update).
LEMMA ConfinedStep ==
    ASSUME TypeOK, ModeInv, [Next]_vars
    PROVE  [Confined]_vars
<1> SUFFICES ASSUME ctl.status.um PROVE Confined \/ UNCHANGED vars
  BY DEF Confined
<1>1. ~ sleeping
  BY DEF ModeInv
<1>2. CASE UNCHANGED <<ctl, sleeping>>
  BY <1>1, <1>2 DEF Confined
<1>3. CASE Fetch \/ CpExec \/ CpData \/ MemData
  BY <1>2, <1>3 DEF Fetch, CpExec, CpData, MemData, coreState
<1>4. CASE CoreExec
  BY <1>2, <1>4 DEF CoreExec, Exec, latched
<1>5. CASE CoreUpdate
  <2>1. stage = "update"
    BY <1>5 DEF CoreUpdate, At
  <2>2. CASE UpdateInstrStall
    BY <1>1, <2>2 DEF UpdateInstrStall, Ticked, Confined, TypeOK, CtlType
  <2>3. CASE UpdateAsleep
    BY <1>2, <2>3 DEF UpdateAsleep
  <2>4. ASSUME ~ inter.instr_stall
        PROVE  /\ inter.type \notin {"CTLUP", "SLEEP", "RFI"}
               /\ inter.type = "TRAP" \/ inter.newstat.um
    BY <2>1, <2>4 DEF ModeInv, Decided
  <2>5. CASE UpdateDataStall \/ UpdateDataFault \/ UpdatePlain
    <3>1. /\ ctl' = Ticked(WithStatus) /\ sleeping' = sleeping
          /\ ~ inter.instr_stall /\ inter.type # "TRAP"
      BY <2>5 DEF UpdateDataStall, UpdateDataFault, UpdatePlain, Proceed, MemType
    <3> QED
      BY <1>1, <2>4, <3>1 DEF Confined, Ticked, WithStatus, TypeOK, CtlType
  <2>6. CASE UpdateDataDone
    <3>1. /\ ~ inter.instr_stall /\ inter.type # "TRAP" /\ inter.newstat \in Status
      BY <2>6 DEF UpdateDataDone, Proceed, MemType, TypeOK, InterType
    <3>2. /\ ctl'.status.um = inter.newstat.um
          /\ UNCHANGED <<ctl.hdl, ctl.exihdl, ctl.ienable, ctl.umcpen>>
      BY <2>6, <3>1 DEF UpdateDataDone, Ticked, WithStatus, TypeOK, CtlType, Status
    <3> QED
      BY <1>1, <2>4, <2>6, <3>1, <3>2 DEF UpdateDataDone, Confined
  <2>7. CASE UpdateTrap
    BY <2>7 DEF UpdateTrap, Proceed, Confined, Ticked, WithStatus, TypeOK, CtlType
  <2>8. CASE UpdateCtl \/ UpdateRfi \/ UpdateSleep
    BY <2>4, <2>8 DEF UpdateCtl, UpdateRfi, UpdateSleep, Proceed
  <2> QED
    BY <1>5, <2>2, <2>3, <2>5, <2>6, <2>7, <2>8 DEF CoreUpdate, Update
<1> QED
  BY <1>3, <1>4, <1>5 DEF Next

\* A user program changes nothing of the machine's set-up and leaves user mode only
\* through a handler entry that saves where it came from.
THEOREM UserConfinedAlways == Spec => UserConfined
<1>1. TypeOK /\ ModeInv /\ [Next]_vars => [Confined]_vars
  BY ConfinedStep
<1>2. Spec => [][Confined]_vars
  BY <1>1, ModeInvAlways, TypeCorrect, PTL DEF Spec
<1> QED
  BY <1>2 DEF UserConfined
---------------------------------------------------------------------------
(* Accesses that are under way.                                            *)

\* A decision is made when the fetch has been answered, and acted upon when the
\* data access has: neither interface is counting then.
AccessInv ==
    /\ NoAbandonedAccess
    /\ sleeping \/ inter.data_stall => ~ instr_out.request
    /\ stage = "exec" /\ (instr_in.valid \/ instr_in.fault) => imem.quiescent
    /\ stage = "update" /\ data_in.valid => dmem.quiescent
    /\ Decided /\ ~ inter.instr_stall => imem.quiescent

\* An awake core decides nothing, but to stall, before its fetch is answered (the
\* early return of sim_core_exec).
LEMMA ExecAnswered ==
    ASSUME TypeOK, Exec, Awake
    PROVE  inter'.instr_stall \/ instr_in.valid \/ instr_in.fault
<1>1. CASE ExecDataStall \/ ExecSleeping
  BY <1>1 DEF ExecDataStall, ExecSleeping, Awake
<1>2. CASE ExecInstrStall
  BY <1>2 DEF ExecInstrStall, TypeOK, InterType
<1>3. CASE ExecInstrFault \/ ExecInterrupt
  BY <1>3 DEF ExecInstrFault, ExecInterrupt
<1>4. CASE Execute
  BY <1>4 DEF Execute, ExecAlu, ExecBranch, ExecLink, ExecLoad, ExecStore, ExecStoreCond,
     ScStores, MemAccess, ExecCoproc, CoprocAccess, ExecInt, ExecRfi, ExecMoveFromCtl,
     ExecMoveToCtl, ExecSleep, Decoded
<1> QED
  BY <1>1, <1>2, <1>3, <1>4 DEF Exec

\* An interface that has answered is at rest (sim_memif_access).
LEMMA AccessRests ==
    /\ IMem!Access => /\ instr_in'.valid \/ instr_in'.fault => imem'.quiescent
                      /\ ~ imem'.quiescent => instr_out.request \/ ~ imem.quiescent
    /\ DMem!Access => /\ data_in'.valid => dmem'.quiescent
                      /\ ~ dmem'.quiescent => data_out.request \/ ~ dmem.quiescent
  BY DEF IMem!Access, IMem!AccessIdle, IMem!AccessDelay, IMem!AccessFault, IMem!AccessServe,
     IMem!NoAnswer, IMem!MemInit, DMem!Access, DMem!AccessIdle, DMem!AccessDelay,
     DMem!AccessFault, DMem!AccessServe, DMem!NoAnswer, DMem!MemInit

\* No step withdraws a request that is being waited for.
LEMMA AccessInvStep ==
    ASSUME TypeOK, WakeInv, ModeInv, AccessInv, [Next]_vars
    PROVE  AccessInv'
<1> USE DEF AccessInv, NoAbandonedAccess, Decided
<1>1. CASE Fetch
  BY <1>1, AccessRests DEF Fetch, At, coreState, corePins
<1>2. CASE CpExec \/ CpData
  BY <1>2 DEF CpExec, CpData, At, coreState, corePins, answers, interfaces
<1>3. CASE MemData
  BY <1>3, AccessRests DEF MemData, At, coreState, corePins
<1>4. CASE CoreExec
  <2>1. /\ UNCHANGED <<sleeping, instr_out, imem, dmem>>
        /\ stage = "exec" /\ stage' = "coproc"
    BY <1>4, ExecSplit DEF CoreExec, At, interfaces
  <2>2. data_out.request => data_out'.request
    BY <1>4, ExecSplit DEF CoreExec, Deed, Pause
  <2>3. inter'.data_stall = inter.data_stall
    BY <1>4, ExecSplit DEF CoreExec, Deed, Pause
  <2>4. inter'.instr_stall \/ imem.quiescent
    BY <1>4, <2>1, ExecAnswered DEF CoreExec, Awake
  <2> QED
    BY <2>1, <2>2, <2>3, <2>4
<1>5. CASE CoreUpdate
  <2>1. stage = "update" /\ stage' = "fetch" /\ UNCHANGED <<imem, dmem>>
    BY <1>5 DEF CoreUpdate, At, interfaces
  <2>2. CASE UpdateInstrStall \/ UpdateAsleep
    BY <2>1, <2>2 DEF UpdateInstrStall, UpdateAsleep
  <2>3. CASE UpdateDataStall
    <3>1. ~ instr_out'.request /\ imem.quiescent
      BY <2>1, <2>3 DEF UpdateDataStall, Proceed, TypeOK, MemPins
    <3> QED
      BY <2>1, <2>3, <3>1 DEF UpdateDataStall
  <2>4. CASE UpdateDataFault \/ UpdateDataDone
    <3>1. imem.quiescent /\ ~ inter'.data_stall /\ ~ sleeping'
      BY <2>1, <2>4 DEF UpdateDataFault, UpdateDataDone, Proceed, MemType, TypeOK, InterType
    <3>2. ~ dmem.quiescent => data_out'.request
      BY <2>1, <2>4 DEF UpdateDataFault, UpdateDataDone
    <3> QED
      BY <2>1, <3>1, <3>2
  <2>5. CASE UpdatePlain \/ UpdateCtl \/ UpdateTrap \/ UpdateRfi
    <3>1. /\ UNCHANGED <<inter, data_out>>
          /\ inter.type \notin MemType /\ ~ inter.instr_stall /\ ~ sleeping'
      BY <2>5 DEF UpdatePlain, UpdateCtl, UpdateTrap, UpdateRfi, Proceed, MemType
    <3>2. ~ inter.data_stall
      BY <3>1 DEF ModeInv
    <3> QED
      BY <2>1, <3>1, <3>2
  <2>6. CASE UpdateSleep
    <3>1. ~ instr_out'.request /\ imem.quiescent
      BY <2>1, <2>6 DEF UpdateSleep, Proceed, TypeOK, MemPins
    <3> QED
      BY <2>1, <2>6, <3>1 DEF UpdateSleep
  <2> QED
    BY <1>5, <2>2, <2>3, <2>4, <2>5, <2>6 DEF CoreUpdate, Update
<1>6. CASE UNCHANGED vars
  BY <1>6 DEF vars
<1> QED
  BY <1>1, <1>2, <1>3, <1>4, <1>5, <1>6 DEF Next

\* No access is abandoned half way, faults included (the requests of the core
\* against the delay of sim_memif_access).
THEOREM NoAbandonedAccessAlways == Spec => []NoAbandonedAccess
<1>1. Init => AccessInv
  BY DEF Init, CoreInit, PowerOnInter, IMem!MemInit, DMem!MemInit, IMem!NoAnswer,
     DMem!NoAnswer, AccessInv, NoAbandonedAccess, Decided
<1>2. AccessInv => NoAbandonedAccess
  BY DEF AccessInv
<1> QED
  BY <1>1, <1>2, AccessInvStep, ModeInvAlways, WakeInvAlways, TypeCorrect, PTL DEF Spec

---------------------------------------------------------------------------
(* The load link.                                                          *)

\* A latched STATUS with the link up is an ll's, or that of a core whose link is up
\* already; a handler entry and a return have it down.
LinkInv ==
    (Decided /\ ~ inter.instr_stall) \/ inter.data_stall \/ sleeping =>
        /\ inter.newstat.ll => ctl.status.ll \/ inter.type = "LOADLNK"
        /\ inter.type \in {"TRAP", "RFI"} => ~ inter.newstat.ll

\* Only ll raises the link among the decisions of sim_core_exec.
LEMMA ExecuteLink ==
    ASSUME TypeOK, Execute
    PROVE  /\ inter'.newstat.ll => ctl.status.ll \/ inter'.type = "LOADLNK"
           /\ inter'.type \in {"TRAP", "RFI"} => ~ inter'.newstat.ll
<1>1. Fresh \in InterType /\ Fresh.newstat = ctl.status
  BY FreshType, FreshFields DEF TypeOK
<1>2. \A handler : /\ Trap(Fresh, handler).newstat.ll = FALSE
                   /\ [Trap(Fresh, handler) EXCEPT !.regval = NextPc].newstat.ll = FALSE
  BY <1>1 DEF Trap, StatusTrap, InterType
<1>3. CASE ExecAlu \/ ExecMoveFromCtl
  BY <1>1, <1>2, <1>3 DEF ExecAlu, ExecMoveFromCtl, Privileged, GprUp, InterType
<1>4. CASE ExecBranch
  <2>1. PICK target \in Addr : inter' = [Fresh EXCEPT !.nextpc = target, !.type = "BRANCH"]
    BY <1>4 DEF ExecBranch
  <2> QED BY <1>1, <2>1 DEF InterType
<1>5. CASE ExecLink
  <2>1. PICK target \in Addr, type \in {"GPRUP", "BRLINK"} : inter' = GprUp(type, target)
    BY <1>5 DEF ExecLink
  <2> QED BY <1>1, <2>1 DEF GprUp, InterType
<1>6. CASE ExecLoad
  BY <1>1, <1>6 DEF ExecLoad, MemAccess, InterType
<1>7. CASE ExecStore \/ ExecStoreCond
  BY <1>1, <1>7 DEF ExecStore, ExecStoreCond, ScStores, MemAccess, GprUp, InterType
<1>8. CASE ExecCoproc
  <2>1. ASSUME NEW op, NEW busop, NEW type \in {"CPREAD", "BRANCH"},
               CoprocAccess(op, busop, type)
        PROVE  /\ inter'.newstat.ll => ctl.status.ll \/ inter'.type = "LOADLNK"
               /\ inter'.type \in {"TRAP", "RFI"} => ~ inter'.newstat.ll
    BY <1>1, <1>2, <2>1 DEF CoprocAccess, InterType
  <2> QED BY <1>8, <2>1 DEF ExecCoproc
<1>9. CASE ExecInt
  BY <1>2, <1>9 DEF ExecInt
<1>10. CASE ExecRfi
  <2>1. StatusRfi(ctl.status).ll = FALSE
    BY DEF StatusRfi
  <2>2. CASE ctl.status.um
    BY <1>2, <1>10, <2>2 DEF ExecRfi, Privileged
  <2>3. CASE ~ ctl.status.um
    <3>1. inter' = [Fresh EXCEPT !.newstat = StatusRfi(ctl.status), !.nextpc = ctl.epc,
                                 !.type = "RFI"]
      BY <1>10, <2>3 DEF ExecRfi, Privileged
    <3> QED BY <1>1, <2>1, <3>1 DEF InterType
  <2> QED BY <2>2, <2>3
<1>11. CASE ExecMoveToCtl
  <2>1. CASE ctl.status.um
    BY <1>2, <1>11, <2>1 DEF ExecMoveToCtl, Privileged
  <2>2. CASE ~ ctl.status.um
    <3>1. PICK r \in WritableReg :
              inter' = [Fresh EXCEPT !.regnum = r, !.regval = 0, !.type = "CTLUP"]
      BY <1>11, <2>2 DEF ExecMoveToCtl, Privileged
    <3> QED BY <1>1, <3>1 DEF InterType
  <2> QED BY <2>1, <2>2
<1>12. CASE ExecSleep
  BY <1>1, <1>2, <1>12 DEF ExecSleep, Privileged, InterType
<1> QED
  BY <1>3, <1>4, <1>5, <1>6, <1>7, <1>8, <1>9, <1>10, <1>11, <1>12 DEF Execute

\* ... and the other paths leave the latch, or trap.
LEMMA ExecLinkInv ==
    ASSUME TypeOK, Exec, LinkInv
    PROVE  inter'.instr_stall \/ (/\ inter'.newstat.ll => ctl.status.ll \/ inter'.type = "LOADLNK"
                                  /\ inter'.type \in {"TRAP", "RFI"} => ~ inter'.newstat.ll)
<1>1. ASSUME NEW latch \in InterType, NEW handler
      PROVE  Trap(latch, handler).newstat.ll = FALSE
  BY DEF Trap, StatusTrap, InterType
<1>2. ASSUME NEW latch \in InterType, TakeInterrupt(latch)
      PROVE  ~ inter'.newstat.ll
  BY <1>1, <1>2 DEF TakeInterrupt
<1>3. inter \in InterType /\ [inter EXCEPT !.instr_stall = FALSE] \in InterType
  BY DEF TypeOK, InterType
<1>4. CASE ExecDataStall
  BY <1>4 DEF ExecDataStall, LinkInv
<1>5. CASE ExecSleeping
  BY <1>2, <1>3, <1>5 DEF ExecSleeping, LinkInv
<1>6. CASE ExecInstrStall
  BY <1>3, <1>6 DEF ExecInstrStall, InterType
<1>7. CASE ExecInstrFault
  BY <1>1, <1>3, <1>7 DEF ExecInstrFault
<1>8. CASE ExecInterrupt
  BY <1>2, <1>3, <1>8 DEF ExecInterrupt
<1>9. CASE Execute
  BY <1>9, ExecuteLink
<1> QED
  BY <1>4, <1>5, <1>6, <1>7, <1>8, <1>9 DEF Exec

\* The link of a latch is good until the latch is used.
LEMMA LinkInvStep ==
    ASSUME TypeOK, WakeInv, ModeInv, LinkInv, [Next]_vars
    PROVE  LinkInv'
<1> USE DEF Decided
<1>1. CASE Fetch \/ CpExec \/ CpData \/ MemData
  BY <1>1 DEF LinkInv, Fetch, CpExec, CpData, MemData, At, coreState, corePins
<1>2. CASE CoreExec
  <2>1. Exec /\ UNCHANGED <<ctl, sleeping>> /\ stage' = "coproc"
    BY <1>2, ExecSplit DEF CoreExec, At
  <2>2. CASE ~ inter'.instr_stall
    BY <2>1, <2>2, ExecLinkInv DEF LinkInv
  <2>3. CASE inter'.instr_stall
    <3>1. ~ inter'.data_stall /\ ~ sleeping
      BY <2>1, <2>3, ExecSplit DEF Deed, Pause, Awake, WakeInv, SleepInv, ModeInv
    <3> QED BY <2>1, <2>3, <3>1 DEF LinkInv
  <2> QED BY <2>2, <2>3
<1>3. CASE CoreUpdate
  <2>1. stage = "update" /\ stage' = "fetch"
    BY <1>3 DEF CoreUpdate, At
  <2>2. CASE UpdateInstrStall
    BY <2>1, <2>2 DEF UpdateInstrStall, LinkInv, WakeInv, SleepInv, ModeInv
  <2>3. CASE UpdateAsleep
    BY <2>1, <2>3 DEF UpdateAsleep, LinkInv
  <2>4. CASE UpdateDataStall
    <3>1. /\ ctl'.status = inter.newstat
          /\ inter'.newstat = inter.newstat /\ inter'.type = inter.type
          /\ inter.type \in MemType
      BY <2>4 DEF UpdateDataStall, Proceed, Ticked, WithStatus, TypeOK, CtlType, InterType
    <3> QED BY <3>1 DEF LinkInv, MemType
  <2>5. CASE UpdateDataFault \/ UpdateDataDone
    <3>1. ~ inter'.data_stall /\ ~ sleeping'
      BY <2>5 DEF UpdateDataFault, UpdateDataDone, Proceed, MemType, TypeOK, InterType
    <3> QED BY <2>1, <3>1 DEF LinkInv
  <2>6. CASE UpdatePlain \/ UpdateCtl \/ UpdateTrap \/ UpdateRfi
    <3>1. /\ UNCHANGED inter /\ inter.type \notin MemType /\ ~ sleeping'
      BY <2>6 DEF UpdatePlain, UpdateCtl, UpdateTrap, UpdateRfi, Proceed, MemType
    <3>2. ~ inter.data_stall
      BY <3>1 DEF ModeInv
    <3> QED BY <2>1, <3>1, <3>2 DEF LinkInv
  <2>7. CASE UpdateSleep
    <3>1. /\ ctl'.status = inter.newstat
          /\ UNCHANGED inter /\ inter.type = "SLEEP"
      BY <2>7 DEF UpdateSleep, Proceed, Ticked, WithStatus, TypeOK, CtlType
    <3> QED BY <3>1 DEF LinkInv
  <2> QED
    BY <1>3, <2>2, <2>3, <2>4, <2>5, <2>6, <2>7 DEF CoreUpdate, Update
<1>4. CASE UNCHANGED vars
  BY <1>4 DEF vars, LinkInv
<1> QED
  BY <1>1, <1>2, <1>3, <1>4 DEF Next

\* mtctl writes one register (the switch over inter.regnum in sim_core_update).
LEMMA WrittenKeeps ==
    ASSUME NEW w \in CtlType, NEW c \in Written(w)
    PROVE  c \in CtlType /\ (inter.regnum # "status" => c.status = w.status)
BY ProgramAssumption DEF Written, CtlType, Counter, Vector

\* What the link may do in a step, as LinkDiscipline has it.
LinkKept ==
    /\ ~ ctl.status.ll /\ ctl'.status.ll =>
          \/ inter.type = "LOADLNK"
          \/ inter.type = "CTLUP" /\ inter.regnum = "status"
    /\ Completes({"LOAD", "STORE", "SCOND", "TRAP", "RFI"}) => ~ ctl'.status.ll

\* Acting on a latch keeps the discipline (the paths of sim_core_update).
LEMMA LinkKeptStep ==
    ASSUME TypeOK, LinkInv, ~ data_in.fault, [Next]_vars
    PROVE  [LinkKept]_vars
<1> SUFFICES ASSUME ~ UNCHANGED vars PROVE LinkKept
  OBVIOUS
<1>1. CASE Fetch \/ CoreExec \/ CpExec \/ CpData \/ MemData
  <2>1. stage # "update" /\ UNCHANGED ctl
    BY <1>1 DEF Fetch, CoreExec, Exec, latched, CpExec, CpData, MemData, At, coreState
  <2> QED BY <2>1 DEF LinkKept, Completes
<1>2. CASE CoreUpdate
  <2>1. stage = "update"
    BY <1>2 DEF CoreUpdate, At
  <2>2. CASE UpdateInstrStall
    <3>1. ctl'.status = ctl.status /\ inter.instr_stall
      BY <2>2 DEF UpdateInstrStall, Ticked, TypeOK, CtlType
    <3> QED BY <3>1 DEF LinkKept, Completes, Proceed
  <2>3. CASE UpdateAsleep
    BY <2>3 DEF UpdateAsleep, LinkKept, Completes, Proceed
  <2>4. ~ inter.instr_stall =>
            /\ inter.newstat.ll => ctl.status.ll \/ inter.type = "LOADLNK"
            /\ inter.type \in {"TRAP", "RFI"} => ~ inter.newstat.ll
    BY <2>1 DEF LinkInv, Decided
  <2>5. CASE UpdateDataStall
    <3>1. ctl'.status = inter.newstat /\ inter'.data_stall /\ ~ inter.instr_stall
      BY <2>5 DEF UpdateDataStall, Proceed, Ticked, WithStatus, TypeOK, CtlType, InterType
    <3> QED BY <2>4, <3>1 DEF LinkKept, Completes
  <2>6. CASE UpdateDataFault
    BY <2>6 DEF UpdateDataFault
  <2>7. CASE UpdateDataDone
    <3>1. ctl'.status.ll = (inter.type = "LOADLNK")
      BY <2>7 DEF UpdateDataDone, Ticked, WithStatus, TypeOK, CtlType, InterType, Status
    <3> QED BY <3>1 DEF LinkKept, Completes, Proceed
  <2>8. CASE UpdatePlain \/ UpdateTrap \/ UpdateRfi \/ UpdateSleep
    <3>1. /\ ctl'.status = inter.newstat /\ ~ inter.instr_stall
          /\ inter.type \notin MemType
      BY <2>8 DEF UpdatePlain, UpdateTrap, UpdateRfi, UpdateSleep, Proceed, MemType, Ticked,
         WithStatus, TypeOK, CtlType
    <3> QED BY <2>4, <3>1 DEF LinkKept, Completes, Proceed, MemType
  <2>9. CASE UpdateCtl
    <3>1. inter.type = "CTLUP" /\ ~ inter.instr_stall
      BY <2>9 DEF UpdateCtl, Proceed
    <3>2. CASE inter.regnum = "status"
      BY <3>1, <3>2 DEF LinkKept, Completes, Proceed
    <3>3. CASE inter.regnum # "status"
      <4>0. WithStatus \in CtlType /\ WithStatus.status = inter.newstat
        BY DEF WithStatus, TypeOK, CtlType, InterType
      <4>1. PICK w \in CtlType : w = WithStatus /\ w.status = inter.newstat
        BY <4>0
      <4>2. PICK c \in Written(w) : ctl' = Ticked(c)
        BY <2>9, <4>1 DEF UpdateCtl
      <4>3. c \in CtlType /\ c.status = inter.newstat
        BY <3>3, <4>1, <4>2, WrittenKeeps
      <4>4. ctl'.status = inter.newstat
        BY <4>2, <4>3 DEF Ticked, CtlType
      <4> QED BY <2>4, <3>1, <4>4 DEF LinkKept, Completes, Proceed
    <3> QED BY <3>2, <3>3
  <2> QED
    BY <1>2, <2>2, <2>3, <2>5, <2>6, <2>7, <2>8, <2>9 DEF CoreUpdate, Update
<1> QED
  BY <1>1, <1>2 DEF Next

\* In front of a memory that covers the address space the link is raised by ll and
\* mtctl alone, and broken by every load, store, handler entry and return.
THEOREM LinkDisciplineAlways == MemoryCovers => (Spec => LinkDiscipline)
<1> SUFFICES ASSUME MemoryCovers PROVE Spec => LinkDiscipline
  OBVIOUS
<1>1. Init => BusInv /\ LinkInv
  BY DEF Init, CoreInit, PowerOnInter, DMem!NoAnswer, BusInv, LinkInv, Decided
<1>2. TypeOK /\ WakeInv /\ BusInv /\ [Next]_vars => BusInv'
  BY BusInvStep
<1>3. TypeOK /\ LinkInv /\ BusInv /\ [Next]_vars => [LinkKept]_vars
  BY LinkKeptStep DEF BusInv
<1>4. Spec => [][LinkKept]_vars
  BY <1>1, <1>2, <1>3, LinkInvStep, TypeCorrect, WakeInvAlways, ModeInvAlways, PTL DEF Spec
<1> QED
  BY <1>4 DEF LinkKept, LinkDiscipline

(***************************************************************************)
(* The refinement: the cycle-level core implements the architecture of Isa,*)
(* for every program that does not raise the interrupt enable bit by mtctl,*)
(* in front of a memory that covers the address space.                     *)
(***************************************************************************)

\* mtctl to STATUS leaves interrupts off.
QuietWrites == \A s \in StatusWrites : ~ s.gie

---------------------------------------------------------------------------
(* What a latched decision promises.                                       *)

SameMode(s, t) == s.um = t.um /\ s.rum = t.rum /\ s.ums = t.ums /\ s.gie = t.gie

EnteredFrom(s, t) == ~ s.um /\ s.rum = t.um /\ s.ums = t.rum /\ ~ s.gie

ReturnedFrom(s, t) == s.um = t.rum /\ s.rum = t.ums /\ s.ums = t.ums /\ s.gie

\* Why a handler is entered, and what it will return to.
Software(l) == ~ sleeping /\ l.nextpc = ctl.hdl["swihdl"] /\ l.regval = NextPc

Privilege(l) ==
    ~ sleeping /\ ctl.status.um /\ l.nextpc = ctl.hdl["privophdl"] /\ l.regval = pc

External(l) ==
    /\ ctl.status.gie /\ coproc_out.op = "NONE" /\ l.regval = pc
    /\ \E i \in exint \cap ctl.ienable : l.nextpc = ctl.exihdl[i]

\* The latch l, applied to the state as it is, makes a step of Isa.
Promise(l) ==
    /\ l.type \notin {"TRAP", "RFI"} => SameMode(l.newstat, ctl.status)
    /\ l.type \in {"CTLUP", "SLEEP"} => ~ ctl.status.um /\ l.nextpc = NextPc
    /\ l.type = "TRAP" => /\ EnteredFrom(l.newstat, ctl.status)
                          /\ Software(l) \/ Privilege(l) \/ External(l)
    /\ l.type = "RFI" => /\ ~ ctl.status.um /\ l.nextpc = ctl.epc
                         /\ ReturnedFrom(l.newstat, ctl.status)

Asleep == sleeping /\ inter.type = "SLEEP"

\* A decision keeps its promise until it is acted upon, however many cycles that
\* takes; and a latch that is only waiting holds the current mode if an interrupt can
\* be taken on top of it.
PromiseInv ==
    /\ ~ instr_in.fault
    /\ Decided /\ ~ inter.instr_stall /\ ~ Asleep => Promise(inter)
    /\ inter.data_stall => SameMode(inter.newstat, ctl.status)
    /\ ctl.status.gie /\ (~ Decided \/ inter.instr_stall \/ Asleep)
         => SameMode(inter.newstat, ctl.status)

---------------------------------------------------------------------------
(* sim_core_exec.                                                          *)

\* The label `trap`.
LEMMA TrapPromise ==
    ASSUME NEW latch \in InterType, NEW handler, SameMode(latch.newstat, ctl.status)
    PROVE  LET l == Trap(latch, handler)
           IN  /\ l.type = "TRAP" /\ l.nextpc = handler /\ l.regval = pc
               /\ EnteredFrom(l.newstat, ctl.status)
BY DEF Trap, StatusTrap, SameMode, EnteredFrom, InterType, Status

\* Every decoded instruction makes a promise (the switch of sim_core_exec).
LEMMA ExecutePromise ==
    ASSUME TypeOK, Execute
    PROVE  Promise(inter')
<1>1. Fresh \in InterType /\ Fresh.newstat = ctl.status /\ Fresh.nextpc = NextPc
  BY FreshType, FreshFields DEF TypeOK, Fresh, InterType
<1>2. ctl.status \in Status
  BY DEF TypeOK, CtlType
<1>3. ASSUME ctl.status.um, ~ sleeping, inter' = Trap(Fresh, ctl.hdl["privophdl"])
      PROVE  Promise(inter')
  <2>1. PICK l : l = inter'
    OBVIOUS
  <2>2. /\ l.type = "TRAP" /\ l.nextpc = ctl.hdl["privophdl"] /\ l.regval = pc
        /\ EnteredFrom(l.newstat, ctl.status)
    BY <1>1, <1>3, <2>1 DEF Trap, StatusTrap, EnteredFrom, InterType
  <2> QED BY <1>3, <2>1, <2>2 DEF Promise, Privilege
<1>4. ~ sleeping
  BY DEF Execute, ExecAlu, ExecBranch, ExecLink, ExecLoad, ExecStore, ExecStoreCond,
     ScStores, MemAccess, ExecCoproc, CoprocAccess, ExecInt, ExecRfi, ExecMoveFromCtl,
     ExecMoveToCtl, ExecSleep, Decoded, Awake
<1>5. CASE ExecAlu
  BY <1>1, <1>5 DEF ExecAlu, GprUp, Promise, SameMode, InterType
<1>6. CASE ExecBranch
  <2>1. PICK target \in Addr : inter' = [Fresh EXCEPT !.nextpc = target, !.type = "BRANCH"]
    BY <1>6 DEF ExecBranch
  <2> QED BY <1>1, <2>1 DEF Promise, SameMode, InterType
<1>7. CASE ExecLink
  <2>1. PICK target \in Addr, type \in {"GPRUP", "BRLINK"} : inter' = GprUp(type, target)
    BY <1>7 DEF ExecLink
  <2> QED BY <1>1, <2>1 DEF GprUp, Promise, SameMode, InterType
<1>8. CASE ExecLoad
  <2>1. CASE MemAccess("ll", TRUE, [Fresh EXCEPT !.regnum = "gpr", !.newstat.ll = TRUE,
                                                !.type = "LOADLNK"])
    <3>1. PICK s : s = [ctl.status EXCEPT !.ll = TRUE]
      OBVIOUS
    <3>2. SameMode(s, ctl.status)
      BY <1>2, <3>1 DEF SameMode, Status
    <3>3. inter'.newstat = s /\ inter'.type = "LOADLNK"
      BY <1>1, <2>1, <3>1 DEF MemAccess, InterType
    <3> QED BY <3>2, <3>3 DEF Promise
  <2>2. CASE MemAccess("ldw", TRUE, [Fresh EXCEPT !.regnum = "gpr", !.type = "LOAD"])
    BY <1>1, <2>2 DEF MemAccess, Promise, SameMode, InterType
  <2> QED BY <1>8, <2>1, <2>2 DEF ExecLoad
<1>9. CASE ExecStore \/ ExecStoreCond
  BY <1>1, <1>9 DEF ExecStore, ExecStoreCond, ScStores, MemAccess, GprUp, Promise, SameMode,
     InterType
<1>10. CASE ExecCoproc
  <2>1. ASSUME NEW op, NEW busop, NEW type \in {"CPREAD", "BRANCH"},
               CoprocAccess(op, busop, type)
        PROVE  Promise(inter')
    <3>1. PICK c \in CpNum :
              IF CpDenied(c) THEN inter' = Trap(Fresh, ctl.hdl["privophdl"])
              ELSE inter' = [Fresh EXCEPT !.type = type,
                                          !.regnum = IF type = "CPREAD" THEN "gpr" ELSE @]
      BY <2>1 DEF CoprocAccess
    <3>2. CASE CpDenied(c)
      BY <1>3, <1>4, <3>1, <3>2 DEF CpDenied
    <3>3. CASE ~ CpDenied(c)
      BY <1>1, <3>1, <3>3 DEF Promise, SameMode, InterType
    <3> QED BY <3>2, <3>3
  <2> QED BY <1>10, <2>1 DEF ExecCoproc
<1>11. CASE ExecInt
  <2>1. PICK l : l = inter'
    OBVIOUS
  <2>2. /\ l.type = "TRAP" /\ l.nextpc = ctl.hdl["swihdl"] /\ l.regval = NextPc
        /\ EnteredFrom(l.newstat, ctl.status)
    BY <1>1, <1>11, <2>1 DEF ExecInt, Trap, StatusTrap, EnteredFrom, InterType
  <2> QED BY <1>4, <2>1, <2>2 DEF Promise, Software
<1>12. CASE ExecRfi
  <2>1. CASE ctl.status.um
    BY <1>3, <1>4, <1>12, <2>1 DEF ExecRfi, Privileged
  <2>2. CASE ~ ctl.status.um
    <3>1. inter' = [Fresh EXCEPT !.newstat = StatusRfi(ctl.status), !.nextpc = ctl.epc,
                                 !.type = "RFI"]
      BY <1>12, <2>2 DEF ExecRfi, Privileged
    <3>2. ReturnedFrom(StatusRfi(ctl.status), ctl.status)
      BY DEF ReturnedFrom, StatusRfi
    <3>3. inter'.newstat = StatusRfi(ctl.status) /\ inter'.nextpc = ctl.epc
          /\ inter'.type = "RFI"
      BY <1>1, <3>1 DEF InterType
    <3> QED BY <2>2, <3>2, <3>3 DEF Promise
  <2> QED BY <2>1, <2>2
<1>13. CASE ExecMoveFromCtl
  <2>1. CASE ctl.status.um
    BY <1>3, <1>4, <1>13, <2>1 DEF ExecMoveFromCtl, Privileged
  <2>2. CASE ~ ctl.status.um
    BY <1>1, <1>13, <2>2 DEF ExecMoveFromCtl, Privileged, GprUp, Promise, SameMode, InterType
  <2> QED BY <2>1, <2>2
<1>14. CASE ExecMoveToCtl
  <2>1. CASE ctl.status.um
    BY <1>3, <1>4, <1>14, <2>1 DEF ExecMoveToCtl, Privileged
  <2>2. CASE ~ ctl.status.um
    <3>1. PICK r \in WritableReg :
              inter' = [Fresh EXCEPT !.regnum = r, !.regval = 0, !.type = "CTLUP"]
      BY <1>14, <2>2 DEF ExecMoveToCtl, Privileged
    <3> QED BY <1>1, <2>2, <3>1 DEF Promise, SameMode, InterType
  <2> QED BY <2>1, <2>2
<1>15. CASE ExecSleep
  <2>1. CASE ctl.status.um
    BY <1>3, <1>4, <1>15, <2>1 DEF ExecSleep, Privileged
  <2>2. CASE ~ ctl.status.um
    BY <1>1, <1>15, <2>2 DEF ExecSleep, Privileged, Promise, SameMode, InterType
  <2> QED BY <2>1, <2>2
<1> QED
  BY <1>5, <1>6, <1>7, <1>8, <1>9, <1>10, <1>11, <1>12, <1>13, <1>14, <1>15 DEF Execute

\* An instruction that traps has not used the coprocessor bus.
LEMMA ExecuteTrap ==
    ASSUME TypeOK, Execute, inter'.type = "TRAP"
    PROVE  UNCHANGED coproc_out
<1>1. Fresh \in InterType
  BY FreshType DEF TypeOK
<1>2. CASE ExecCoproc
  <2>1. ASSUME NEW op, NEW busop, NEW type \in {"CPREAD", "BRANCH"},
               CoprocAccess(op, busop, type)
        PROVE  UNCHANGED coproc_out
    BY <1>1, <2>1 DEF CoprocAccess, InterType
  <2> QED BY <1>2, <2>1 DEF ExecCoproc
<1>3. CASE ~ ExecCoproc
  BY <1>3 DEF Execute, ExecAlu, ExecBranch, ExecLink, ExecLoad, ExecStore, ExecStoreCond,
     ScStores, MemAccess, ExecInt, ExecRfi, ExecMoveFromCtl, ExecMoveToCtl, ExecSleep
<1> QED BY <1>2, <1>3

\* ... and so does every decision but to stall (sim_core_exec).
LEMMA ExecPromise ==
    ASSUME TypeOK, WakeInv, DozeInv, PromiseInv, Exec, stage = "exec"
    PROVE  \/ inter'.instr_stall /\ inter'.newstat = inter.newstat
           \/ Asleep /\ inter' = inter
           \/ inter.data_stall /\ inter' = inter
           \/ /\ ~ inter.data_stall /\ Promise(inter')
              /\ ~ inter'.instr_stall /\ ~ (sleeping /\ inter'.type = "SLEEP")
              /\ inter'.type = "TRAP" => UNCHANGED coproc_out
<1>1. inter \in InterType /\ coproc_out.op = "NONE" /\ ~ Decided
  BY DEF TypeOK, WakeInv, OneCycleOnBus, Decided
<1>2. ASSUME NEW latch \in InterType, latch.newstat = inter.newstat, ~ latch.instr_stall,
             TakeInterrupt(latch)
      PROVE  Promise(inter') /\ ~ inter'.instr_stall /\ inter'.type = "TRAP"
  <2>1. PICK i \in Pending : inter' = Trap(latch, ctl.exihdl[i])
    BY <1>2 DEF TakeInterrupt
  <2>2. ctl.status.gie /\ i \in exint \cap ctl.ienable
    BY DEF Pending
  <2>3. SameMode(latch.newstat, ctl.status)
    BY <1>1, <1>2, <2>2 DEF PromiseInv
  <2>4. /\ inter'.type = "TRAP" /\ inter'.nextpc = ctl.exihdl[i] /\ inter'.regval = pc
        /\ EnteredFrom(inter'.newstat, ctl.status)
    BY <2>1, <2>3, TrapPromise
  <2>5. ~ inter'.instr_stall
    BY <1>2, <2>1, TrapFields
  <2> QED BY <1>1, <2>2, <2>4, <2>5 DEF Promise, External
<1>3. CASE ExecDataStall
  BY <1>3 DEF ExecDataStall
<1>4. CASE ExecSleeping
  BY <1>1, <1>2, <1>4 DEF ExecSleeping, DozeInv, Asleep, WakeInv, SleepInv
<1>5. CASE ExecInstrStall
  BY <1>1, <1>5 DEF ExecInstrStall, InterType
<1>6. CASE ExecInstrFault
  BY <1>6 DEF ExecInstrFault, PromiseInv
<1>7. CASE ExecInterrupt
  <2>1. PICK latch \in InterType : latch = [inter EXCEPT !.instr_stall = FALSE]
    BY <1>1 DEF InterType
  <2>2. latch.newstat = inter.newstat /\ ~ latch.instr_stall
    BY <1>1, <2>1 DEF InterType
  <2> QED BY <1>2, <1>7, <2>1, <2>2 DEF ExecInterrupt, Awake
<1>8. CASE Execute
  <2>1. ~ inter.data_stall /\ ~ sleeping
    BY <1>8 DEF Execute, ExecAlu, ExecBranch, ExecLink, ExecLoad, ExecStore, ExecStoreCond,
       ScStores, MemAccess, ExecCoproc, CoprocAccess, ExecInt, ExecRfi, ExecMoveFromCtl,
       ExecMoveToCtl, ExecSleep, Decoded, Awake
  <2> QED BY <1>8, <2>1, ExecutePromise, ExecuteTrap, ExecuteDeed DEF Deed
<1> QED BY <1>3, <1>4, <1>5, <1>6, <1>7, <1>8 DEF Exec

---------------------------------------------------------------------------
(* Keeping the promise.                                                    *)

\* What the promise of a latch is about.
promised == <<pc, ctl, sleeping, inter>>

\* No call between exec and update breaks it: a device may lower its line only when
\* it executes an operation (cycle).
LEMMA PromiseStays ==
    ASSUME TypeOK, Promise(inter), UNCHANGED <<promised, coproc_out>>,
           exint \subseteq exint' \/ coproc_out.op = "EXEC"
    PROVE  Promise(inter)'
<1> USE DEF promised
<1>1. Software(inter)' = Software(inter) /\ Privilege(inter)' = Privilege(inter)
  BY DEF Software, Privilege, NextPc
<1>2. External(inter) => External(inter)'
  BY DEF External
<1> QED BY <1>1, <1>2 DEF Promise, NextPc

\* An answer of a memory that covers the address space is no fault.
LEMMA NoFault ==
    ASSUME MemoryCovers, TypeOK, IMem!Access
    PROVE  ~ instr_in'.fault
<1>1. instr_out.addr \in Addr
  BY DEF TypeOK, MemPins
<1>2. ~ IMem!AccessFault
  BY <1>1, DeviceAssumption DEF IMem!AccessFault, MemoryCovers, Addr
<1> QED
  BY <1>2 DEF IMem!Access, IMem!AccessIdle, IMem!AccessDelay, IMem!AccessServe, IMem!NoAnswer

\* STATUS takes the latched mode in every update that is not mtctl's or a stall's.
LEMMA StatusTaken ==
    ASSUME TypeOK, ~ data_in.fault,
           \/ UpdateDataStall \/ UpdateDataDone \/ UpdatePlain \/ UpdateTrap \/ UpdateRfi
           \/ UpdateSleep
    PROVE  SameMode(ctl'.status, inter.newstat) /\ inter'.newstat = inter.newstat
<1>1. CASE UpdateDataDone
  BY <1>1 DEF UpdateDataDone, Ticked, WithStatus, TypeOK, CtlType, InterType, Status, SameMode
<1>2. CASE UpdateDataStall \/ UpdatePlain \/ UpdateTrap \/ UpdateRfi \/ UpdateSleep
  <2>1. ctl'.status = inter.newstat
    BY <1>2 DEF UpdateDataStall, UpdatePlain, UpdateTrap, UpdateRfi, UpdateSleep, Ticked,
       WithStatus, TypeOK, CtlType
  <2>2. inter'.newstat = inter.newstat
    BY <1>2 DEF UpdateDataStall, UpdatePlain, UpdateTrap, UpdateRfi, UpdateSleep, TypeOK,
       InterType
  <2> QED BY <2>1, <2>2 DEF SameMode
<1> QED BY <1>1, <1>2

\* The invariant of the latch.
LEMMA PromiseInvStep ==
    ASSUME MemoryCovers, QuietWrites, TypeOK, WakeInv, ModeInv, BusInv, DozeInv, PromiseInv,
           [Next]_vars
    PROVE  PromiseInv'
<1> USE DEF Decided
<1>1. CASE Fetch
  <2>1. ~ instr_in'.fault
    BY <1>1, NoFault DEF Fetch
  <2> QED BY <1>1, <2>1 DEF PromiseInv, Fetch, At, coreState, Asleep, SameMode
<1>2. CASE CpExec \/ CpData \/ MemData
  <2>1. /\ UNCHANGED <<promised, coproc_out, instr_in>>
        /\ stage \in {"coproc", "data", "dmem"} /\ stage' \in {"data", "dmem", "update"}
    BY <1>2 DEF CpExec, CpData, MemData, At, coreState, corePins, answers, promised
  <2>2. exint \subseteq exint' \/ coproc_out.op = "EXEC"
    BY <1>2 DEF CpExec, CpData, MemData
  <2>3. Promise(inter) => Promise(inter)'
    BY <2>1, <2>2, PromiseStays
  <2> QED BY <2>1, <2>3 DEF PromiseInv, promised, Asleep, SameMode
<1>3. CASE CoreExec
  <2>1. /\ Exec /\ UNCHANGED <<pc, ctl, sleeping, exint, instr_in>>
        /\ stage = "exec" /\ stage' = "coproc"
    BY <1>3, ExecSplit DEF CoreExec, At, answers
  <2>2. inter'.data_stall = inter.data_stall
    BY <2>1, ExecSplit DEF Deed, Pause
  <2>3. CASE inter'.instr_stall /\ inter'.newstat = inter.newstat
    <3>1. ~ inter'.data_stall
      BY <2>1, <2>2, <2>3, ExecSplit DEF Deed, Pause, Awake, ModeInv, WakeInv, SleepInv
    <3> QED BY <2>1, <2>3, <3>1 DEF PromiseInv, SameMode
  <2>4. CASE Asleep /\ inter' = inter
    BY <2>1, <2>4 DEF PromiseInv, Asleep, SameMode
  <2>5. CASE inter.data_stall /\ inter' = inter
    <3>1. inter.type \in MemType /\ ~ inter.instr_stall
      BY <2>5 DEF ModeInv
    <3>2. Promise(inter)'
      BY <2>1, <2>5, <3>1 DEF PromiseInv, Promise, SameMode, MemType
    <3> QED BY <2>1, <2>5, <3>1, <3>2 DEF PromiseInv, Asleep, SameMode, MemType
  <2>6. CASE /\ ~ inter.data_stall /\ Promise(inter')
             /\ ~ inter'.instr_stall /\ ~ (sleeping /\ inter'.type = "SLEEP")
             /\ inter'.type = "TRAP" => UNCHANGED coproc_out
    <3>1. inter'.type = "TRAP" /\ External(inter') => External(inter)'
      BY <2>1, <2>6 DEF External
    <3>2. Promise(inter)'
      BY <2>1, <2>6, <3>1 DEF Promise, Software, Privilege, NextPc
    <3> QED BY <2>1, <2>2, <2>6, <3>2 DEF PromiseInv, Asleep
  <2> QED BY <2>1, <2>3, <2>4, <2>5, <2>6, ExecPromise
<1>4. CASE CoreUpdate
  <2>1. /\ stage = "update" /\ stage' = "fetch" /\ UNCHANGED instr_in
        /\ ~ data_in.fault
    BY <1>4 DEF CoreUpdate, At, answers, BusInv
  <2>2. CASE UpdateInstrStall
    <3>1. UNCHANGED inter /\ inter.instr_stall /\ ctl'.status = ctl.status
      BY <2>2 DEF UpdateInstrStall, Ticked, TypeOK, CtlType
    <3> QED BY <2>1, <3>1 DEF PromiseInv, ModeInv, SameMode
  <2>3. CASE UpdateAsleep
    <3>1. UNCHANGED <<inter, ctl>> /\ Asleep /\ ~ inter.data_stall
      BY <2>3 DEF UpdateAsleep, Asleep, WakeInv, SleepInv, ModeInv, MemType
    <3> QED BY <2>1, <3>1 DEF PromiseInv, SameMode
  <2>4. CASE \/ UpdateDataStall \/ UpdateDataDone \/ UpdatePlain \/ UpdateTrap \/ UpdateRfi
             \/ UpdateSleep
    <3>1. SameMode(inter'.newstat, ctl'.status)
      BY <2>1, <2>4, StatusTaken DEF SameMode
    <3> QED BY <2>1, <3>1 DEF PromiseInv
  <2>5. CASE UpdateCtl
    <3>1. UNCHANGED inter /\ inter.type = "CTLUP" /\ ~ inter.data_stall
      BY <2>5 DEF UpdateCtl, Proceed, ModeInv, MemType
    <3>2. ctl'.status.gie => SameMode(inter.newstat, ctl'.status)
      <4>1. WithStatus \in CtlType /\ WithStatus.status = inter.newstat
        BY DEF WithStatus, TypeOK, CtlType, InterType
      <4>2. PICK w \in CtlType : w = WithStatus /\ w.status = inter.newstat
        BY <4>1
      <4>3. PICK c \in Written(w) : ctl' = Ticked(c)
        BY <2>5, <4>2 DEF UpdateCtl
      <4>4. c \in CtlType /\ (inter.regnum # "status" => c.status = w.status)
        BY <4>2, <4>3, WrittenKeeps
      <4>5. ASSUME inter.regnum = "status" PROVE ~ c.status.gie
        <5>1. PICK s \in StatusWrites : c = [w EXCEPT !.status = s]
          BY <4>3, <4>5 DEF Written, Vector
        <5>2. c.status = s
          BY <4>2, <5>1 DEF CtlType
        <5> QED BY <5>1, <5>2 DEF QuietWrites
      <4>6. ctl'.status = c.status
        BY <4>3, <4>4 DEF Ticked, CtlType
      <4> QED BY <4>2, <4>4, <4>5, <4>6 DEF SameMode
    <3> QED BY <2>1, <3>1, <3>2 DEF PromiseInv
  <2> QED
    BY <1>4, <2>1, <2>2, <2>3, <2>4, <2>5 DEF CoreUpdate, Update, UpdateDataFault
<1>5. CASE UNCHANGED vars
  <2>1. Promise(inter) => Promise(inter)'
    BY <1>5, PromiseStays DEF vars, promised
  <2> QED BY <1>5, <2>1 DEF vars, PromiseInv, Asleep, SameMode
<1> QED BY <1>1, <1>2, <1>3, <1>4, <1>5 DEF Next

---------------------------------------------------------------------------
(* The refinement.                                                         *)

\* The cycle's view of what a program sees.
LEMMA InitRefines == Init => Architecture!Init
<1> SUFFICES ASSUME Init PROVE Architecture!Init
  OBVIOUS
<1>1. /\ pc \in Addr /\ sleeping = FALSE /\ exint = {}
      /\ ctl = PowerOnCtl
  BY DEF Init, CoreInit
<1>2. /\ ctl.status = PowerOnStatus /\ ctl.epc = 0 /\ ctl.epc_saved = 0
      /\ ctl.hdl = [v \in Vector |-> 0] /\ ctl.exihdl = [i \in IntLine |-> 0]
      /\ ctl.ienable = {} /\ ctl.umcpen = {}
  BY <1>1 DEF PowerOnCtl
<1>3. /\ ctl.status.um = FALSE /\ ctl.status.rum = FALSE /\ ctl.status.ums = FALSE
      /\ ctl.status.gie = FALSE
  BY <1>2 DEF PowerOnStatus
<1> QED
  BY <1>1, <1>2, <1>3 DEF Architecture!Init, Architecture!Addr, Architecture!Vector, Addr, Vector

\* A step that changes neither pc nor the control registers, but for the load link
\* and the counter, is none to the program.
LEMMA Stutters ==
    ASSUME TypeOK, UNCHANGED <<pc, sleeping, exint>>, SameMode(ctl'.status, ctl.status),
           ctl'.status \in Status,
           UNCHANGED <<ctl.epc, ctl.epc_saved, ctl.hdl, ctl.exihdl, ctl.ienable, ctl.umcpen>>
    PROVE  UNCHANGED Architecture!vars
BY DEF Architecture!vars, SameMode

\* Which control registers an update leaves alone.
LEMMA SetupKept ==
    ASSUME TypeOK, ~ data_in.fault, Update, ~ UpdateCtl
    PROVE  UNCHANGED <<ctl.hdl, ctl.exihdl, ctl.ienable, ctl.umcpen>>
<1>0. CASE UpdateAsleep
  BY <1>0 DEF UpdateAsleep
<1>1. CASE UpdateInstrStall
  BY <1>1 DEF UpdateInstrStall, Ticked, TypeOK, CtlType
<1>2. CASE UpdateDataStall \/ UpdatePlain \/ UpdateSleep
  BY <1>2 DEF UpdateDataStall, UpdatePlain, UpdateSleep, Ticked, WithStatus, TypeOK, CtlType
<1>3. CASE UpdateDataDone
  BY <1>3 DEF UpdateDataDone, Ticked, WithStatus, TypeOK, CtlType
<1>4. CASE UpdateTrap
  BY <1>4 DEF UpdateTrap, Ticked, WithStatus, TypeOK, CtlType
<1>5. CASE UpdateRfi
  BY <1>5 DEF UpdateRfi, Ticked, WithStatus, TypeOK, CtlType
<1> QED BY <1>0, <1>1, <1>2, <1>3, <1>4, <1>5 DEF Update, UpdateDataFault

\* The registers of the way back.
LEMMA EpcTaken ==
    ASSUME TypeOK
    PROVE  /\ UpdateInstrStall \/ UpdateDataStall \/ UpdatePlain \/ UpdateSleep
                \/ UpdateDataDone => UNCHANGED <<ctl.epc, ctl.epc_saved>>
           /\ UpdateTrap => ctl'.epc = inter.regval /\ ctl'.epc_saved = ctl.epc
           /\ UpdateRfi => ctl'.epc = ctl.epc_saved /\ ctl'.epc_saved = ctl.epc_saved
<1>0. UpdateInstrStall => UNCHANGED <<ctl.epc, ctl.epc_saved>>
  BY DEF UpdateInstrStall, Ticked, TypeOK, CtlType
<1>1. UpdateDataStall \/ UpdatePlain \/ UpdateSleep => UNCHANGED <<ctl.epc, ctl.epc_saved>>
  BY DEF UpdateDataStall, UpdatePlain, UpdateSleep, Ticked, WithStatus, TypeOK, CtlType
<1>2. UpdateDataDone => UNCHANGED <<ctl.epc, ctl.epc_saved>>
  BY DEF UpdateDataDone, Ticked, WithStatus, TypeOK, CtlType
<1>3. UpdateTrap => ctl'.epc = inter.regval /\ ctl'.epc_saved = ctl.epc
  BY DEF UpdateTrap, Ticked, WithStatus, TypeOK, CtlType
<1>4. UpdateRfi => ctl'.epc = ctl.epc_saved /\ ctl'.epc_saved = ctl.epc_saved
  BY DEF UpdateRfi, Ticked, WithStatus, TypeOK, CtlType
<1> QED BY <1>0, <1>1, <1>2, <1>3, <1>4

\* mtctl writes one register of the architecture, or none.
LEMMA ControlRefines ==
    ASSUME TypeOK, UpdateCtl, UNCHANGED exint, ~ sleeping, Promise(inter)
    PROVE  Architecture!WriteControl
<1>1. /\ inter.type = "CTLUP" /\ pc' = inter.nextpc /\ UNCHANGED sleeping
      /\ ~ ctl.status.um /\ inter.nextpc = NextPc /\ SameMode(inter.newstat, ctl.status)
  BY DEF UpdateCtl, Proceed, Advance, Promise
<1>2. WithStatus \in CtlType /\ WithStatus = [ctl EXCEPT !.status = inter.newstat]
  BY DEF WithStatus, TypeOK, CtlType, InterType
<1>3. PICK w \in CtlType : w = WithStatus
  BY <1>2
<1>4. PICK c \in Written(w) : ctl' = Ticked(c)
  BY <1>3 DEF UpdateCtl
<1>5. /\ w.epc = ctl.epc /\ w.epc_saved = ctl.epc_saved /\ w.hdl = ctl.hdl
      /\ w.exihdl = ctl.exihdl /\ w.ienable = ctl.ienable /\ w.umcpen = ctl.umcpen
      /\ SameMode(w.status, ctl.status)
  BY <1>1, <1>2, <1>3 DEF TypeOK, CtlType
<1>6. c \in CtlType
  BY <1>3, <1>4, WrittenKeeps
<1>7. /\ ctl'.epc = c.epc /\ ctl'.epc_saved = c.epc_saved /\ ctl'.hdl = c.hdl
      /\ ctl'.exihdl = c.exihdl /\ ctl'.ienable = c.ienable /\ ctl'.umcpen = c.umcpen
      /\ ctl'.status = c.status
  BY <1>4, <1>6 DEF Ticked, CtlType
<1> DEFINE Moded(s) == [um |-> s.um, rum |-> s.rum, ums |-> s.ums, gie |-> s.gie]
<1>8. ASSUME SameMode(c.status, ctl.status)
      PROVE  Moded(ctl'.status) = Moded(ctl.status)
  BY <1>7, <1>8 DEF SameMode
<1>9. inter.regnum # "status" => SameMode(c.status, ctl.status)
  BY <1>3, <1>4, <1>5, WrittenKeeps
<1>10. /\ ~ sleeping /\ ~ ctl.status.um /\ pc' = Architecture!Following
       /\ UNCHANGED <<sleeping, exint>>
  BY <1>1 DEF Architecture!Following, NextPc
<1>11. Architecture!Addr = Addr /\ Architecture!Vector = Vector
  BY DEF Architecture!Addr, Architecture!Vector, Addr, Vector
<1> USE DEF Architecture!WriteControl, Architecture!saved, Architecture!setup
<1>12. CASE inter.regnum \in {"status", "counter_low", "counter_high", "other", "gpr"}
  <2>1. /\ c.epc = w.epc /\ c.epc_saved = w.epc_saved /\ c.hdl = w.hdl
        /\ c.exihdl = w.exihdl /\ c.ienable = w.ienable /\ c.umcpen = w.umcpen
    BY <1>3, <1>4, <1>12 DEF Written, CtlType, Vector
  <2>2. Moded(ctl'.status) \in Architecture!Mode
    BY <1>6, <1>7 DEF CtlType, Status, Architecture!Mode
  <2> QED BY <1>5, <1>7, <1>10, <2>1, <2>2
<1>13. CASE inter.regnum \in {"epc", "epc_saved"}
  <2>1. /\ c.hdl = w.hdl /\ c.exihdl = w.exihdl /\ c.ienable = w.ienable
        /\ c.umcpen = w.umcpen /\ c.epc \in Addr /\ c.epc_saved \in Addr
        /\ c.epc = w.epc \/ c.epc_saved = w.epc_saved
    BY <1>3, <1>4, <1>6, <1>13 DEF Written, CtlType, Vector
  <2>2. Moded(ctl'.status) = Moded(ctl.status)
    BY <1>8, <1>9, <1>13
  <2> QED BY <1>5, <1>7, <1>10, <1>11, <2>1, <2>2
<1>14. CASE inter.regnum \in Vector
  <2>1. PICK a \in AddrWrites : c = [w EXCEPT !.hdl[inter.regnum] = a]
    BY <1>4, <1>14 DEF Written, Vector
  <2>2. /\ c.epc = w.epc /\ c.epc_saved = w.epc_saved /\ c.exihdl = w.exihdl
        /\ c.ienable = w.ienable /\ c.umcpen = w.umcpen
        /\ c.hdl = [w.hdl EXCEPT ![inter.regnum] = a]
    BY <1>3, <2>1 DEF CtlType
  <2>3. Moded(ctl'.status) = Moded(ctl.status)
    BY <1>8, <1>9, <1>14 DEF Vector
  <2>4. a \in Addr
    BY ProgramAssumption
  <2>5. \E v \in Architecture!Vector, b \in Architecture!Addr :
            ctl'.hdl = [ctl.hdl EXCEPT ![v] = b]
    BY <1>5, <1>7, <1>11, <1>14, <2>2, <2>4
  <2> QED BY <1>5, <1>7, <1>10, <2>2, <2>3, <2>5
<1>15. CASE inter.regnum = "exihdl"
  <2>1. PICK i \in IntLine, a \in AddrWrites : c = [w EXCEPT !.exihdl[i] = a]
    BY <1>4, <1>15 DEF Written, Vector
  <2>2. /\ c.epc = w.epc /\ c.epc_saved = w.epc_saved /\ c.hdl = w.hdl
        /\ c.ienable = w.ienable /\ c.umcpen = w.umcpen
        /\ c.exihdl = [w.exihdl EXCEPT ![i] = a]
    BY <1>3, <2>1 DEF CtlType
  <2>3. Moded(ctl'.status) = Moded(ctl.status)
    BY <1>8, <1>9, <1>15
  <2>4. a \in Addr
    BY ProgramAssumption
  <2>5. \E j \in IntLine, b \in Architecture!Addr : ctl'.exihdl = [ctl.exihdl EXCEPT ![j] = b]
    BY <1>5, <1>7, <1>11, <2>2, <2>4
  <2> QED BY <1>5, <1>7, <1>10, <2>2, <2>3, <2>5
<1>16. CASE inter.regnum \in {"ienable", "umcpen"}
  <2>1. /\ c.epc = w.epc /\ c.epc_saved = w.epc_saved /\ c.hdl = w.hdl
        /\ c.exihdl = w.exihdl
        /\ c.ienable \in SUBSET EnableBit /\ c.umcpen \in SUBSET EnableBit
        /\ c.ienable = w.ienable \/ c.umcpen = w.umcpen
    BY <1>3, <1>4, <1>6, <1>16 DEF Written, CtlType, Vector
  <2>2. Moded(ctl'.status) = Moded(ctl.status)
    BY <1>8, <1>9, <1>16
  <2> QED BY <1>5, <1>7, <1>10, <2>1, <2>2
<1>17. inter.regnum \in RegNum
  BY DEF TypeOK, InterType
<1> QED
  BY <1>12, <1>13, <1>14, <1>15, <1>16, <1>17 DEF RegNum, CtlReg, Vector

\* What an update step is to the program, path by path.
LEMMA UpdateRefines ==
    ASSUME TypeOK, TypeOK', WakeInv, BusInv, ModeInv, PromiseInv, CoreUpdate
    PROVE  [Architecture!Next]_(Architecture!vars)
<1> DEFINE Moded(s) == [um |-> s.um, rum |-> s.rum, ums |-> s.ums, gie |-> s.gie]
<1>1. /\ Update /\ Decided /\ ~ data_in.fault /\ UNCHANGED exint
      /\ ctl.status \in Status /\ ctl'.status \in Status /\ pc' \in Addr
      /\ coproc_out.op # "NONE" => ~ sleeping
  BY DEF CoreUpdate, At, BusInv, Decided, TypeOK, CtlType, WakeInv, SleepInv
<1>2. ~ inter.instr_stall /\ ~ Asleep => Promise(inter)
  BY <1>1 DEF PromiseInv
<1>3. Architecture!Addr = Addr /\ Architecture!Following = NextPc
  BY DEF Architecture!Addr, Addr, Architecture!Following, NextPc
<1>4. CASE UpdateInstrStall
  <2>1. UNCHANGED <<pc, sleeping, exint, ctl.epc, ctl.epc_saved, ctl.hdl, ctl.exihdl,
                    ctl.ienable, ctl.umcpen>>
    BY <1>1, <1>4, EpcTaken, SetupKept DEF UpdateInstrStall, UpdateCtl, Proceed
  <2>2. ctl'.status = ctl.status
    BY <1>4 DEF UpdateInstrStall, Ticked, TypeOK, CtlType
  <2> QED BY <1>1, <2>1, <2>2, Stutters DEF SameMode
<1>5. CASE UpdateAsleep
  <2>1. UNCHANGED <<pc, sleeping, exint, ctl>>
    BY <1>1, <1>5 DEF UpdateAsleep
  <2> QED BY <1>1, <2>1, Stutters DEF SameMode
<1>6. CASE UpdateDataStall
  <2>1. Promise(inter) /\ inter.type \in MemType
    BY <1>2, <1>6 DEF UpdateDataStall, Proceed, Asleep, MemType
  <2>2. SameMode(ctl'.status, inter.newstat) /\ SameMode(inter.newstat, ctl.status)
    BY <1>1, <1>6, <2>1, StatusTaken DEF Promise, MemType
  <2>3. UNCHANGED <<pc, sleeping, exint, ctl.epc, ctl.epc_saved, ctl.hdl, ctl.exihdl,
                    ctl.ienable, ctl.umcpen>>
    BY <1>1, <1>6, <2>1, EpcTaken, SetupKept DEF UpdateDataStall, UpdateCtl, Proceed, MemType
  <2> QED BY <1>1, <2>2, <2>3, Stutters DEF SameMode
<1>7. CASE UpdateDataDone \/ UpdatePlain
  <2>1. /\ inter.type \in MemType \cup {"GPRUP", "BRANCH", "BRLINK", "CPREAD"}
        /\ ~ inter.instr_stall /\ ~ sleeping /\ UNCHANGED sleeping
    BY <1>7 DEF UpdateDataDone, UpdatePlain, Proceed, MemType
  <2>2. SameMode(ctl'.status, inter.newstat) /\ SameMode(inter.newstat, ctl.status)
    BY <1>1, <1>2, <1>7, <2>1, StatusTaken DEF Promise, MemType, Asleep
  <2>3. Moded(ctl'.status) = Moded(ctl.status)
    BY <2>2 DEF SameMode
  <2>4. UNCHANGED <<ctl.epc, ctl.epc_saved, ctl.hdl, ctl.exihdl, ctl.ienable, ctl.umcpen>>
    BY <1>1, <1>7, <2>1, EpcTaken, SetupKept DEF UpdateCtl, Proceed, MemType
  <2>5. Architecture!Complete
    BY <1>1, <1>3, <2>1, <2>3, <2>4 DEF Architecture!Complete, Architecture!saved,
       Architecture!setup
  <2> QED BY <2>5 DEF Architecture!Next
<1>8. CASE UpdateCtl
  <2>1. ~ inter.instr_stall /\ ~ sleeping
    BY <1>8 DEF UpdateCtl, Proceed
  <2>2. Architecture!WriteControl
    BY <1>1, <1>2, <1>8, <2>1, ControlRefines DEF Asleep
  <2> QED BY <2>2 DEF Architecture!Next
<1>9. CASE UpdateTrap
  <2>1. /\ inter.type = "TRAP" /\ ~ inter.instr_stall /\ pc' = inter.nextpc
        /\ sleeping' = FALSE
    BY <1>9 DEF UpdateTrap, Proceed, Advance
  <2>2. /\ EnteredFrom(inter.newstat, ctl.status)
        /\ Software(inter) \/ Privilege(inter) \/ External(inter)
    BY <1>2, <2>1 DEF Promise, Asleep
  <2>3. SameMode(ctl'.status, inter.newstat)
    BY <1>1, <1>9, StatusTaken
  <2>4. /\ ctl'.status.um = FALSE /\ ctl'.status.rum = ctl.status.um
        /\ ctl'.status.ums = ctl.status.rum /\ ctl'.status.gie = FALSE
    BY <1>1, <2>2, <2>3 DEF EnteredFrom, SameMode, Status
  <2>5. /\ UNCHANGED <<ctl.hdl, ctl.exihdl, ctl.ienable, ctl.umcpen>>
        /\ ctl'.epc = inter.regval /\ ctl'.epc_saved = ctl.epc
    BY <1>1, <1>9, <2>1, EpcTaken, SetupKept DEF UpdateCtl, Proceed
  <2>6. Architecture!Enter(inter.nextpc, inter.regval)
    BY <1>1, <2>1, <2>4, <2>5 DEF Architecture!Enter, Architecture!setup
  <2>7. CASE Software(inter)
    BY <1>3, <2>6, <2>7 DEF Software, Architecture!SoftwareInterrupt, Architecture!Next
  <2>8. CASE Privilege(inter)
    BY <2>6, <2>8 DEF Privilege, Architecture!PrivilegeTrap, Architecture!Next
  <2>9. CASE External(inter)
    BY <2>6, <2>9 DEF External, Architecture!Interrupt, Architecture!Next
  <2> QED BY <2>2, <2>7, <2>8, <2>9
<1>10. CASE UpdateRfi
  <2>1. /\ inter.type = "RFI" /\ ~ inter.instr_stall /\ pc' = inter.nextpc
        /\ ~ sleeping /\ UNCHANGED sleeping
    BY <1>10 DEF UpdateRfi, Proceed, Advance
  <2>2. /\ ~ ctl.status.um /\ inter.nextpc = ctl.epc
        /\ ReturnedFrom(inter.newstat, ctl.status)
    BY <1>2, <2>1 DEF Promise, Asleep
  <2>3. SameMode(ctl'.status, inter.newstat)
    BY <1>1, <1>10, StatusTaken
  <2>4. /\ ctl'.status.um = ctl.status.rum /\ ctl'.status.rum = ctl.status.ums
        /\ ctl'.status.ums = ctl.status.ums /\ ctl'.status.gie = TRUE
    BY <1>1, <2>2, <2>3 DEF ReturnedFrom, SameMode, Status
  <2>5. /\ UNCHANGED <<ctl.hdl, ctl.exihdl, ctl.ienable, ctl.umcpen>>
        /\ ctl'.epc = ctl.epc_saved /\ ctl'.epc_saved = ctl.epc_saved
    BY <1>1, <1>10, <2>1, EpcTaken, SetupKept DEF UpdateCtl, Proceed
  <2>6. Architecture!Return
    BY <1>1, <2>1, <2>2, <2>4, <2>5 DEF Architecture!Return, Architecture!setup
  <2> QED BY <2>6 DEF Architecture!Next
<1>11. CASE UpdateSleep
  <2>1. /\ inter.type = "SLEEP" /\ ~ inter.instr_stall /\ pc' = inter.nextpc
        /\ ~ sleeping /\ sleeping' = TRUE
    BY <1>11 DEF UpdateSleep, Proceed
  <2>2. /\ ~ ctl.status.um /\ inter.nextpc = NextPc /\ SameMode(inter.newstat, ctl.status)
    BY <1>2, <2>1 DEF Promise, Asleep
  <2>3. SameMode(ctl'.status, inter.newstat)
    BY <1>1, <1>11, StatusTaken
  <2>4. Moded(ctl'.status) = Moded(ctl.status)
    BY <2>2, <2>3 DEF SameMode
  <2>5. UNCHANGED <<ctl.epc, ctl.epc_saved, ctl.hdl, ctl.exihdl, ctl.ienable, ctl.umcpen>>
    BY <1>1, <1>11, <2>1, EpcTaken, SetupKept DEF UpdateCtl, Proceed
  <2>6. Architecture!FallAsleep
    BY <1>1, <1>3, <2>1, <2>2, <2>4, <2>5 DEF Architecture!FallAsleep, Architecture!saved,
       Architecture!setup
  <2> QED BY <2>6 DEF Architecture!Next
<1> QED
  BY <1>1, <1>4, <1>5, <1>6, <1>7, <1>8, <1>9, <1>10, <1>11 DEF Update, UpdateDataFault

\* ... and what any step of the cycle is.
LEMMA NextRefines ==
    ASSUME TypeOK, TypeOK', WakeInv, BusInv, ModeInv, PromiseInv, [Next]_vars
    PROVE  [Architecture!Next]_(Architecture!vars)
<1>1. CASE CoreUpdate
  BY <1>1, UpdateRefines
<1>2. CASE CpExec \/ CpData
  <2>1. UNCHANGED <<pc, ctl, sleeping>> /\ exint' \in SUBSET IntLine
    BY <1>2, DeviceAssumption DEF CpExec, CpData, coreState, TypeOK
  <2>2. Architecture!PinsMove
    BY <2>1 DEF Architecture!PinsMove, Architecture!saved, Architecture!setup
  <2> QED BY <2>2 DEF Architecture!Next
<1>3. CASE Fetch \/ CoreExec \/ MemData \/ UNCHANGED vars
  <2>1. UNCHANGED <<pc, ctl, sleeping, exint>>
    BY <1>3 DEF Fetch, CoreExec, Exec, latched, MemData, coreState, vars
  <2> QED BY <2>1 DEF Architecture!vars
<1> QED BY <1>1, <1>2, <1>3 DEF Next

\* In front of a memory that covers the address space, and for programs that leave the
\* interrupt enable bit to rfi, what the cycles of sim_core_exec and sim_core_update
\* add up to is the architecture: whole instructions, and handler entries between them
\* that save where they came from.
THEOREM ImplementsIsaAlways == MemoryCovers /\ QuietWrites => (Spec => ImplementsIsa)
<1> SUFFICES ASSUME MemoryCovers, QuietWrites PROVE Spec => ImplementsIsa
  OBVIOUS
<1>1. Init => BusInv
  BY DEF Init, CoreInit, PowerOnInter, DMem!NoAnswer, BusInv, Decided
<1>2. Init => DozeInv /\ PromiseInv
  BY DEF Init, CoreInit, PowerOnInter, PowerOnCtl, PowerOnStatus, IMem!NoAnswer, DozeInv,
     PromiseInv, Decided, SameMode
<1>3. TypeOK /\ WakeInv /\ BusInv /\ [Next]_vars => BusInv'
  BY BusInvStep
<1>4. TypeOK /\ WakeInv /\ DozeInv /\ [Next]_vars => DozeInv'
  <2>1. DozeInv /\ UNCHANGED vars => DozeInv'
    BY DEF vars, DozeInv, Decided
  <2> QED BY <2>1, DozeStep
<1>5. TypeOK /\ WakeInv /\ ModeInv /\ BusInv /\ DozeInv /\ PromiseInv /\ [Next]_vars
        => PromiseInv'
  BY PromiseInvStep
<1>6. TypeOK /\ TypeOK' /\ WakeInv /\ BusInv /\ ModeInv /\ PromiseInv /\ [Next]_vars
        => [Architecture!Next]_(Architecture!vars)
  BY NextRefines
<1>7. Spec => [](TypeOK /\ WakeInv /\ ModeInv /\ BusInv /\ DozeInv /\ PromiseInv)
  BY <1>1, <1>2, <1>3, <1>4, <1>5, TypeCorrect, WakeInvAlways, ModeInvAlways, PTL DEF Spec
<1> QED
  BY <1>6, <1>7, InitRefines, PTL DEF Spec, ImplementsIsa, Architecture!Spec
==============================================================================
