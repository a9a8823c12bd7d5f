-------------------------------- MODULE Nvram --------------------------------
(***************************************************************************)
(* The NVRAM coprocessor (sim_cp_nvram.c): a file of words behind a        *)
(* request that takes CP_NVRAM_DELAY_CYCLES.  One operator per operation   *)
(* and per callback.                                                       *)
(***************************************************************************)
EXTENDS Naturals

CONSTANTS
    WordMod,                  \* number of values of a word, 2^16 in the code
    datalen,                  \* length of the image file in bytes, even
    CP_NVRAM_DELAY_CYCLES

VARIABLES
    reg,              \* the registers: [ctl, status, addr_lo, addr_hi, val]
    data,             \* the words of the image
    delay,            \* cycles until the pending request is served
    pend,             \* the pending request: [inst, addr, val]
    pin               \* exint_sig of this coprocessor

request == <<delay, pend>>

Word == 0 .. WordMod - 1
Words == 0 .. datalen \div 2 - 1

CtlBit == {"READ_INT", "WRITE_INT"}
Status == {"IDLE", "READ_OK", "READ_ERR", "WRITE_OK", "WRITE_ERR"}

RegType == [ctl : SUBSET CtlBit, status : Status, addr_lo : Word, addr_hi : Word, val : Word]
PendType == [inst : {"NOOP", "READ", "WRITE"}, addr : Word, val : Word]

ClearRegs == [ctl |-> {}, status |-> "IDLE", addr_lo |-> 0, addr_hi |-> 0, val |-> 0]
NoRequest == [inst |-> "NOOP", addr |-> 0, val |-> 0]

NvramInit ==
    /\ reg = ClearRegs
    /\ data \in [Words -> Word]
    /\ delay = 0
    /\ pend = NoRequest
    /\ pin = FALSE

---------------------------------------------------------------------------
(* nvram_state_exec.  While a request is pending every operation, ACK      *)
(* included, is ignored.                                                   *)

Free == delay = 0

addr == reg.addr_lo + WordMod * reg.addr_hi

\* A retry that is accepted while the first request is pending.
BugAcceptsPending == reg.status = "IDLE"

\* READ and WRITE wait for the previous answer to be acknowledged.
Accepts == Free /\ reg.status = "IDLE"

\* An address that is cut to a word before it is tested.
BugQueueUntested(inst, err) ==
    /\ pend' = [inst |-> inst, addr |-> addr % WordMod, val |-> reg.val]
    /\ delay' = CP_NVRAM_DELAY_CYCLES
    /\ UNCHANGED reg

\* The address is tested in full, against bytes, and kept as one word.
Queue(inst, err) ==
    IF addr < datalen
    THEN /\ pend' = [inst |-> inst, addr |-> addr % WordMod,
                     val |-> IF inst = "WRITE" THEN reg.val ELSE pend.val]
         /\ delay' = CP_NVRAM_DELAY_CYCLES
         /\ UNCHANGED reg
    ELSE /\ reg' = [reg EXCEPT !.status = err]
         /\ UNCHANGED request

ExecRead == Accepts /\ Queue("READ", "READ_ERR") /\ UNCHANGED <<data, pin>>

ExecWrite == Accepts /\ Queue("WRITE", "WRITE_ERR") /\ UNCHANGED <<data, pin>>

\* An acknowledgement that leaves the interrupt standing.
BugAckKeepsPin ==
    /\ Free
    /\ reg' = [reg EXCEPT !.status = "IDLE"]
    /\ UNCHANGED <<data, request, pin>>

ExecAck ==
    /\ Free
    /\ reg' = [reg EXCEPT !.status = "IDLE"]
    /\ pin' = FALSE
    /\ UNCHANGED <<data, request>>

\* GETLEN_LO and GETLEN_HI.
ExecGetLen ==
    /\ Free
    /\ reg' \in {[reg EXCEPT !.val = n] :
                    n \in {datalen % WordMod, (datalen \div WordMod) % WordMod}}
    /\ UNCHANGED <<data, request, pin>>

\* READ or WRITE with an answer outstanding, or anything during a request.
ExecIgnored == ~ Accepts /\ UNCHANGED <<reg, data, request, pin>>

NvramExec == ExecRead \/ ExecWrite \/ ExecAck \/ ExecGetLen \/ ExecIgnored

---------------------------------------------------------------------------
(* nvram_state_data                                                        *)

Quiet == Free /\ UNCHANGED <<reg, data, request, pin>>

CountDown ==
    /\ delay > 1
    /\ delay' = delay - 1
    /\ UNCHANGED <<reg, data, pend, pin>>

\* The request is served at the address the register holds by now.
BugServesRegister == reg.addr_lo

Target == pend.addr

\* The interrupt, if the program asked for one.
Signals(bit) == pin' = (pin \/ bit \in reg.ctl)

Finish == delay' = 0 /\ pend' = [pend EXCEPT !.inst = "NOOP"]

ServeRead ==
    /\ delay = 1
    /\ pend.inst = "READ"
    /\ reg' = IF Target \in Words
              THEN [reg EXCEPT !.val = data[Target], !.status = "READ_OK"]
              ELSE [reg EXCEPT !.status = "READ_ERR"]
    /\ Finish
    /\ Signals("READ_INT")
    /\ UNCHANGED data

ServeWrite ==
    /\ delay = 1
    /\ pend.inst = "WRITE"
    /\ IF Target \in Words
       THEN /\ data' = [data EXCEPT ![Target] = pend.val]
            /\ reg' = [reg EXCEPT !.status = "WRITE_OK"]
       ELSE /\ reg' = [reg EXCEPT !.status = "WRITE_ERR"]
            /\ UNCHANGED data
    /\ Finish
    /\ Signals("WRITE_INT")

NvramData == Quiet \/ CountDown \/ ServeRead \/ ServeWrite

---------------------------------------------------------------------------
\* sim_cp_hdr_reset and nvram_state_reset; the image stays.
NvramReset == reg' = ClearRegs /\ delay' = 0 /\ pend' = NoRequest /\ UNCHANGED data

\* mtcp to a register the program may write: not STATUS, which is the answer.
NvramWrite(ctls) ==
    /\ \/ reg' \in {[reg EXCEPT !.ctl = c] : c \in ctls}
       \/ reg' \in {[reg EXCEPT !.addr_lo = w] : w \in Word}
       \/ reg' \in {[reg EXCEPT !.addr_hi = w] : w \in Word}
       \/ reg' \in {[reg EXCEPT !.val = w] : w \in Word}
    /\ UNCHANGED <<data, request, pin>>
=============================================================================
