------------------------------- MODULE Devices -------------------------------
(***************************************************************************)
(* The timer and the NVRAM under the cycle of the simulator (sim.c): the   *)
(* program gives at most one coprocessor operation per cycle, to the       *)
(* device it selects; then every device's data callback runs; a register   *)
(* write comes last.  Between cycles the user may reset.                   *)
(***************************************************************************)
EXTENDS Naturals

CONSTANTS
    TimerMod,         \* number of values of a register of the timer ...
    WordMod,          \* ... and of the NVRAM, both 2^16 in the code
    datalen, CP_NVRAM_DELAY_CYCLES,
    CtlWrites         \* values the program writes to the NVRAM's CTL

ASSUME DevicesAssumption ==
    /\ TimerMod \in Nat /\ TimerMod > 1
    /\ WordMod \in Nat /\ WordMod > 1
    /\ datalen \in Nat /\ datalen % 2 = 0
    /\ CP_NVRAM_DELAY_CYCLES \in Nat \ {0}
    /\ CtlWrites \subseteq SUBSET {"READ_INT", "WRITE_INT"}

VARIABLES
    enabled, lo, hi, tpin,            \* timer
    reg, data, delay, pend, npin,     \* NVRAM
    bus,              \* core_output.coproc: [op, select]
    stage,            \* the part of cycle() to come
    asked,            \* history: the last request accepted, [inst, addr]
    shadow            \* history: the image as the accepted writes leave it

timer == <<enabled, lo, hi, tpin>>
nvram == <<reg, data, delay, pend, npin>>
history == <<asked, shadow>>
vars == <<timer, nvram, bus, stage, history>>

T == INSTANCE Timer WITH WordMod <- TimerMod, pin <- tpin
N == INSTANCE Nvram WITH pin <- npin

Select == {"timer", "nvram"}
NoOp == [op |-> "NONE", select |-> "timer"]

Init ==
    /\ T!TimerInit
    /\ N!NvramInit
    /\ bus = NoOp
    /\ stage = "exec"
    /\ asked = [inst |-> "NOOP", addr |-> 0]
    /\ shadow = data

---------------------------------------------------------------------------
At(s, t) == stage = s /\ stage' = t

\* What the history makes of a step of the NVRAM's exec callback.
Recorded ==
    IF delay' > delay
    THEN /\ asked' = [inst |-> pend'.inst, addr |-> N!addr]
         /\ shadow' = IF pend'.inst = "WRITE" /\ N!addr \in N!Words
                      THEN [shadow EXCEPT ![N!addr] = reg.val]
                      ELSE shadow
    ELSE UNCHANGED history

\* The exec callback of the selected device, when the operation is a cpop.
Exec ==
    /\ At("exec", "data")
    /\ \/ /\ bus' \in {NoOp} \cup [op : {"WRITE"}, select : Select]
          /\ UNCHANGED <<timer, nvram, history>>
       \/ /\ bus' = [op |-> "EXEC", select |-> "timer"]
          /\ T!TimerExec
          /\ UNCHANGED <<nvram, history>>
       \/ /\ bus' = [op |-> "EXEC", select |-> "nvram"]
          /\ N!NvramExec
          /\ Recorded
          /\ UNCHANGED timer

Data ==
    /\ At("data", "write")
    /\ T!TimerData
    /\ N!NvramData
    /\ UNCHANGED <<bus, history>>

\* sim_cp_write to the selected device, and the release of the bus.
Write ==
    /\ At("write", "exec")
    /\ IF bus.op = "WRITE" /\ bus.select = "timer" THEN T!TimerWrite ELSE UNCHANGED timer
    /\ IF bus.op = "WRITE" /\ bus.select = "nvram" THEN N!NvramWrite(CtlWrites)
                                                   ELSE UNCHANGED nvram
    /\ bus' = NoOp
    /\ UNCHANGED history

LowerPins == tpin' = FALSE /\ npin' = FALSE

\* `reset core`: the pins, but none of the devices.
ResetCore ==
    /\ At("exec", "exec")
    /\ LowerPins
    /\ UNCHANGED <<enabled, lo, hi, reg, data, delay, pend, bus, history>>

\* `reset all`: a request that is still pending is forgotten.
ResetAll ==
    /\ At("exec", "exec")
    /\ LowerPins
    /\ enabled' = FALSE /\ lo' = 0 /\ hi' = 0
    /\ N!NvramReset
    /\ shadow' = data
    /\ UNCHANGED <<bus, asked>>

Next == Exec \/ Data \/ Write \/ ResetCore \/ ResetAll

\* cycle() is called in a loop; the user need not reset.
Fairness == WF_vars(Exec \/ Data \/ Write)

Spec == Init /\ [][Next]_vars /\ Fairness
=============================================================================
