-------------------------------- MODULE Isa --------------------------------
(***************************************************************************)
(* What the core promises the programs it runs: instructions complete one  *)
(* at a time and entirely, interrupts and traps come between instructions  *)
(* and save where they came from, two levels deep.  No cycles, no stalls,  *)
(* no buses, no latch.                                                     *)
(*                                                                         *)
(* The load link is left out: it is set one cycle before the load it       *)
(* belongs to completes, so it is no part of the promise.  A program is    *)
(* promised this much only if it does not raise the interrupt enable bit   *)
(* by writing STATUS (see the README).                                     *)
(***************************************************************************)
EXTENDS CoreTypes

VARIABLES
    pc,
    mode,             \* the bits of STATUS but the load link
    epc, epc_saved,
    hdl, exihdl,
    ienable, umcpen,
    sleeping,
    exint

vars == <<pc, mode, epc, epc_saved, hdl, exihdl, ienable, umcpen, sleeping, exint>>

saved == <<mode, epc, epc_saved>>
setup == <<hdl, exihdl, ienable, umcpen>>

Mode == [um : BOOLEAN, rum : BOOLEAN, ums : BOOLEAN, gie : BOOLEAN]

Init ==
    /\ pc \in Addr
    /\ mode = [um |-> FALSE, rum |-> FALSE, ums |-> FALSE, gie |-> FALSE]
    /\ epc = 0 /\ epc_saved = 0
    /\ hdl = [v \in Vector |-> 0] /\ exihdl = [i \in IntLine |-> 0]
    /\ ienable = {} /\ umcpen = {}
    /\ sleeping = FALSE
    /\ exint = {}

Following == (pc + 1) % AddrSpace

\* Continue at the handler; the way back is two registers and two mode bits.
Enter(handler, return) ==
    /\ pc' = handler
    /\ epc_saved' = epc
    /\ epc' = return
    /\ mode' = [um |-> FALSE, rum |-> mode.um, ums |-> mode.rum, gie |-> FALSE]
    /\ sleeping' = FALSE
    /\ UNCHANGED <<setup, exint>>

\* An instruction that leaves the control registers alone.
Complete ==
    /\ ~ sleeping
    /\ pc' \in Addr
    /\ UNCHANGED <<saved, setup, sleeping, exint>>

SoftwareInterrupt == ~ sleeping /\ Enter(hdl["swihdl"], Following)

PrivilegeTrap == ~ sleeping /\ mode.um /\ Enter(hdl["privophdl"], pc)

\* Also what ends a sleep.
Interrupt ==
    /\ mode.gie
    /\ \E i \in exint \cap ienable : Enter(exihdl[i], pc)

Return ==
    /\ ~ sleeping
    /\ ~ mode.um
    /\ pc' = epc
    /\ epc' = epc_saved
    /\ mode' = [um |-> mode.rum, rum |-> mode.ums, ums |-> mode.ums, gie |-> TRUE]
    /\ UNCHANGED <<epc_saved, setup, sleeping, exint>>

\* mtctl writes one register, in supervisor mode only.
WriteControl ==
    /\ ~ sleeping
    /\ ~ mode.um
    /\ pc' = Following
    /\ \/ mode' \in Mode /\ UNCHANGED <<epc, epc_saved, setup>>
       \/ epc' \in Addr /\ UNCHANGED <<mode, epc_saved, setup>>
       \/ epc_saved' \in Addr /\ UNCHANGED <<mode, epc, setup>>
       \/ /\ \E v \in Vector, a \in Addr : hdl' = [hdl EXCEPT ![v] = a]
          /\ UNCHANGED <<saved, exihdl, ienable, umcpen>>
       \/ /\ \E i \in IntLine, a \in Addr : exihdl' = [exihdl EXCEPT ![i] = a]
          /\ UNCHANGED <<saved, hdl, ienable, umcpen>>
       \/ /\ ienable' \in SUBSET EnableBit
          /\ UNCHANGED <<saved, hdl, exihdl, umcpen>>
       \/ /\ umcpen' \in SUBSET EnableBit
          /\ UNCHANGED <<saved, hdl, exihdl, ienable>>
    /\ UNCHANGED <<sleeping, exint>>

FallAsleep ==
    /\ ~ sleeping
    /\ ~ mode.um
    /\ pc' = Following
    /\ sleeping' = TRUE
    /\ UNCHANGED <<saved, setup, exint>>

\* The interrupt pins belong to the devices.
PinsMove ==
    /\ exint' \in SUBSET IntLine
    /\ UNCHANGED <<pc, saved, setup, sleeping>>

Next ==
    \/ Complete \/ SoftwareInterrupt \/ PrivilegeTrap \/ Interrupt \/ Return
    \/ WriteControl \/ FallAsleep \/ PinsMove

Spec == Init /\ [][Next]_vars
============================================================================
