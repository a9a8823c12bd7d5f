--------------------------- MODULE SimDivergence ---------------------------
(***************************************************************************)
(* A statement of cpuspec.txt the core does not keep; the run stale_status *)
(* shows how.                                                              *)
(***************************************************************************)
EXTENDS MCSim

\* cpuspec.txt:156: the return to user mode bit is set to 1 if the CPU was in
\* user mode prior to handling the interrupt, and 0 if it was in supervisor mode.
TrapSavesMode == [][Completes({"TRAP"}) => ctl'.status.rum = ctl.status.um]_vars

\* STATUS values that turn interrupts on, as the nested handler of cpuspec.txt:720
\* writes them, or that switch the mode as well.
LoudStatus == {[PowerOnStatus EXCEPT !.gie = TRUE, !.um = u] : u \in BOOLEAN}
============================================================================
