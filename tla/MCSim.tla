------------------------------- MODULE MCSim -------------------------------
(* Small instances of the simulator for TLC. *)
EXTENDS SimProps

\* STATUS values a program writes with interrupts off: stay in supervisor mode,
\* prepare a return to user mode, go to user mode, with the link down or up.
QuietStatus ==
    {[PowerOnStatus EXCEPT !.ums = TRUE],
     [PowerOnStatus EXCEPT !.rum = TRUE],
     [PowerOnStatus EXCEPT !.um = TRUE, !.ll = TRUE]}

\* The interrupt enable masks a program writes over the empty one it starts with:
\* line 0, and a bit no line stands behind.
Masks == {{0}, {1}}

Registers == {"status", "ienable", "exihdl", "privophdl", "other"}
============================================================================
