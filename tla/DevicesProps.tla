----------------------------- MODULE DevicesProps -----------------------------
(***************************************************************************)
(* What the timer and the NVRAM are checked for.                           *)
(***************************************************************************)
EXTENDS Devices

\* Every variable stays within its type (the registers, sim_cp_nvram_state_t).
TypeOK ==
    /\ enabled \in BOOLEAN /\ lo \in T!Word /\ hi \in T!Word
    /\ reg \in N!RegType
    /\ data \in [N!Words -> N!Word] /\ shadow \in [N!Words -> N!Word]
    /\ delay \in 0 .. CP_NVRAM_DELAY_CYCLES
    /\ pend \in N!PendType
    /\ tpin \in BOOLEAN /\ npin \in BOOLEAN
    /\ bus \in [op : {"NONE", "EXEC", "WRITE"}, select : Select]
    /\ stage \in {"exec", "data", "write"}
    /\ asked \in [inst : {"NOOP", "READ", "WRITE"}, addr : Nat]

\* The cycles an enabled timer has left: its two words as a number, with 0 in the
\* low word standing for a whole turn of it.
Left == (IF lo = 0 THEN TimerMod ELSE lo) + TimerMod * hi

\* The two words count as one number: every cycle takes one from it, the interrupt
\* comes at the end and not before, and disables the timer (timer_state_data).
TimerCountsDown ==
    [][stage = "data" /\ enabled =>
         IF Left = 1 THEN tpin' /\ ~ enabled'
                     ELSE enabled' /\ Left' = Left - 1 /\ tpin' = tpin]_vars

\* A request is pending exactly while its delay runs.
Pending == delay > 0

\* The image is what the accepted writes made it, once each, at the addresses and
\* with the values the registers held when they were accepted, whatever the program
\* writes to the registers meanwhile (nvram_state_exec latches, _data serves).
WritesApplied == ~ Pending => data = shadow

\* An answer is the one to the request: the word at the full address asked for, or
\* an error exactly when there is no such word (the two range tests).
AnswersRequest ==
    [][Pending /\ delay' = 0 /\ stage = "data" =>
         LET found == asked.addr \in N!Words
         IN  IF asked.inst = "READ"
             THEN /\ reg'.status = (IF found THEN "READ_OK" ELSE "READ_ERR")
                  /\ found => reg'.val = shadow[asked.addr]
             ELSE reg'.status = (IF found THEN "WRITE_OK" ELSE "WRITE_ERR")]_vars

\* While the interrupt stands there is an answer to acknowledge, and nothing is
\* pending behind it: a handler that reads STATUS finds why it was called.
PinMeansAnswer == npin => reg.status # "IDLE" /\ ~ Pending

\* A request is answered although the program goes on giving operations, which
\* never start it over; only a reset forgets it.
RequestsAnswered == Pending ~> ~ Pending

\* What the model of the core assumes of a device (module Sim): its pin goes up in
\* the data callbacks only, and down only by an operation given to it or a reset of
\* the core.
PinsAsAssumed ==
    [][/\ stage # "data" => (tpin' => tpin) /\ (npin' => npin)
       /\ ~ (ResetCore \/ ResetAll) =>
            /\ tpin /\ ~ tpin' => bus' = [op |-> "EXEC", select |-> "timer"]
            /\ npin /\ ~ npin' => bus' = [op |-> "EXEC", select |-> "nvram"]]_vars

\* cpuspec.txt:1558-1561, of a read: wait for interrupt; if status is then read
\* error, a bad address was given.
BadAddressSignalled ==
    [][reg.status # "READ_ERR" /\ reg'.status = "READ_ERR" /\ "READ_INT" \in reg.ctl
         => npin']_vars
===============================================================================
