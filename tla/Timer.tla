-------------------------------- MODULE Timer --------------------------------
(***************************************************************************)
(* The timer coprocessor (sim_cp_timer.c): two words that count down once  *)
(* per cycle while the enable bit is set.  One operator per callback.      *)
(***************************************************************************)
EXTENDS Integers

CONSTANT WordMod      \* number of values of a register, 2^16 in the code

VARIABLES
    enabled,          \* bit 0 of the register CTL
    lo, hi,           \* the registers CYCLE_LO and CYCLE_HI
    pin               \* exint_sig of this coprocessor

registers == <<enabled, lo, hi>>

Word == 0 .. WordMod - 1

TimerInit == enabled = FALSE /\ lo = 0 /\ hi = 0 /\ pin = FALSE

\* An interrupt that stands for one cycle only.
BugPulse == ~ enabled /\ pin' = FALSE /\ UNCHANGED registers

Idle == ~ enabled /\ UNCHANGED <<registers, pin>>

\* The low word is decremented before it is looked at: 0 becomes the largest word.
Decrement ==
    /\ enabled
    /\ lo # 1
    /\ lo' = (lo + WordMod - 1) % WordMod
    /\ UNCHANGED <<enabled, hi, pin>>

\* A low word that starts over without taking from the high word.
BugNoBorrow ==
    /\ enabled
    /\ lo = 1
    /\ hi > 0
    /\ lo' = 0
    /\ UNCHANGED <<enabled, hi, pin>>

\* A borrow that does not look whether there is anything left.
BugBorrowsFromZero ==
    /\ enabled
    /\ lo = 1
    /\ lo' = 0
    /\ hi' = hi - 1
    /\ UNCHANGED <<enabled, pin>>

Borrow ==
    /\ enabled
    /\ lo = 1
    /\ hi > 0
    /\ lo' = 0
    /\ hi' = hi - 1
    /\ UNCHANGED <<enabled, pin>>

Expire ==
    /\ enabled
    /\ lo = 1
    /\ hi = 0
    /\ lo' = 0
    /\ enabled' = FALSE
    /\ pin' = TRUE
    /\ UNCHANGED hi

TimerData == Idle \/ Decrement \/ Borrow \/ Expire

\* IACK, the only operation.
TimerExec == pin' = FALSE /\ UNCHANGED registers

\* mtcp to a register; the other registers are not read by anything here.
TimerWrite ==
    /\ \/ enabled' \in BOOLEAN /\ UNCHANGED <<lo, hi>>
       \/ lo' \in Word /\ UNCHANGED <<enabled, hi>>
       \/ hi' \in Word /\ UNCHANGED <<enabled, lo>>
    /\ UNCHANGED pin
=============================================================================
