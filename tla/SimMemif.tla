------------------------------ MODULE SimMemif ------------------------------
(***************************************************************************)
(* One memory interface of the simulator (sim_memif.c).  The simulator has *)
(* two, for instructions and for data, in front of the same memory.  A     *)
(* call of sim_memif_access answers the request that stands on the core's  *)
(* output pins, MEMIF_DELAY calls after it was first seen.                 *)
(***************************************************************************)
EXTENDS Naturals

CONSTANTS
    MemLen,        \* sim_memif_state_t.memlen
    MEMIF_DELAY    \* calls a request waits before it is served

VARIABLES
    mem,           \* [delay, quiescent]
    out,           \* the core's pins: [addr, read, request]
    in             \* the answer: [valid, fault]

MemState == [delay : 0 .. MEMIF_DELAY, quiescent : BOOLEAN]
Answer == [valid : BOOLEAN, fault : BOOLEAN]

NoAnswer == [valid |-> FALSE, fault |-> FALSE]

MemInit == [delay |-> 0, quiescent |-> TRUE]

\* The calls the current request still has to wait, a new one starting over.
Wait == IF mem.quiescent THEN MEMIF_DELAY ELSE mem.delay

AccessIdle ==
    /\ ~ out.request
    /\ in' = NoAnswer
    /\ UNCHANGED mem

\* An interface that starts its delay over on every call.
BugNeverCountsDown ==
    /\ out.request
    /\ Wait > 0
    /\ mem' = [delay |-> Wait - 1, quiescent |-> TRUE]
    /\ in' = NoAnswer

AccessDelay ==
    /\ out.request
    /\ Wait > 0
    /\ mem' = [delay |-> Wait - 1, quiescent |-> FALSE]
    /\ in' = NoAnswer

AccessFault ==
    /\ out.request
    /\ Wait = 0
    /\ out.addr > MemLen
    /\ in' = [valid |-> FALSE, fault |-> TRUE]
    /\ mem' = MemInit

\* A read or a write: the word itself is not modelled.
AccessServe ==
    /\ out.request
    /\ Wait = 0
    /\ out.addr <= MemLen
    /\ in' = [valid |-> TRUE, fault |-> FALSE]
    /\ mem' = MemInit

Access == AccessIdle \/ AccessDelay \/ AccessFault \/ AccessServe
=============================================================================
