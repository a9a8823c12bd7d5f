---------------------------- MODULE DevicesProofs ----------------------------
(***************************************************************************)
(* Proofs about the timer and the NVRAM, for registers of any width, images *)
(* of any length and any delay.                                            *)
(***************************************************************************)
EXTENDS DevicesProps, TLAPS

(***************************************************************************)
(* The timer.                                                              *)
(***************************************************************************)

\* Taking one from a word: it wraps at 0 and nowhere else (uint16_t).
LEMMA Predecessor ==
    ASSUME NEW M \in Nat, M > 1, NEW w \in 0 .. M - 1
    PROVE  (w + M - 1) % M = IF w = 0 THEN M - 1 ELSE w - 1
<1>1. CASE w = 0
  BY <1>1
<1>2. CASE w # 0
  BY <1>2
<1> QED
  BY <1>1, <1>2

TimerType == enabled \in BOOLEAN /\ lo \in T!Word /\ hi \in T!Word /\ tpin \in BOOLEAN

\* A data callback of the timer keeps its types and counts down by one.
LEMMA TimerDataCounts ==
    ASSUME TimerType, T!TimerData
    PROVE  /\ TimerType'
           /\ enabled => IF Left = 1 THEN tpin' /\ ~ enabled'
                                     ELSE enabled' /\ Left' = Left - 1 /\ tpin' = tpin
<1> USE DevicesAssumption DEF TimerType, T!Word
<1>1. CASE T!Idle
  BY <1>1 DEF T!Idle, T!registers
<1>2. CASE T!Decrement
  <2>1. lo' = IF lo = 0 THEN TimerMod - 1 ELSE lo - 1
    BY <1>2, Predecessor DEF T!Decrement
  <2>2. UNCHANGED <<enabled, hi, tpin>> /\ enabled /\ lo # 1
    BY <1>2 DEF T!Decrement
  <2>3. TimerMod * hi \in Nat
    OBVIOUS
  <2> QED
    BY <2>1, <2>2, <2>3 DEF Left
<1>3. CASE T!Borrow
  <2>1. lo = 1 /\ hi > 0 /\ lo' = 0 /\ hi' = hi - 1 /\ UNCHANGED <<enabled, tpin>> /\ enabled
    BY <1>3 DEF T!Borrow
  <2>2. TimerMod * hi = TimerMod * (hi - 1) + TimerMod
    OBVIOUS
  <2>3. TimerMod * (hi - 1) \in Nat
    BY <2>1
  <2> QED
    BY <2>1, <2>2, <2>3 DEF Left
<1>4. CASE T!Expire
  <2>1. lo = 1 /\ lo' = 0 /\ enabled' = FALSE /\ tpin' = TRUE /\ hi = 0 /\ hi' = 0
    BY <1>4 DEF T!Expire
  <2>2. TimerMod * hi = 0
    BY <2>1
  <2>3. Left = 1
    BY <2>1, <2>2 DEF Left
  <2>4. lo' \in T!Word /\ hi' \in T!Word
    BY <2>1
  <2> QED
    BY <2>1, <2>3, <2>4
<1> QED
  BY <1>1, <1>2, <1>3, <1>4 DEF T!TimerData

\* The timer starts well typed (sim_cp_hdr_reset).
LEMMA TimerTypeInit == Init => TimerType
<1>1. 0 \in T!Word
  BY DevicesAssumption DEF T!Word
<1> QED
  BY <1>1 DEF Init, T!TimerInit, TimerType

\* The timer's variables keep their types in every step.
LEMMA TimerTypeStep ==
    ASSUME TimerType, [Next]_vars
    PROVE  TimerType'
<1> USE DEF TimerType
<1>1. CASE UNCHANGED timer
  BY <1>1 DEF timer
<1>2. CASE Exec
  <2>1. CASE T!TimerExec
    BY <2>1 DEF T!TimerExec, T!registers
  <2> QED
    BY <1>1, <1>2, <2>1 DEF Exec
<1>3. CASE Data
  BY <1>3, TimerDataCounts DEF Data
<1>4. CASE Write
  BY <1>1, <1>4 DEF Write, T!TimerWrite
<1>5. CASE ResetCore
  BY <1>5 DEF ResetCore, LowerPins
<1>6. CASE ResetAll
  <2>1. enabled' = FALSE /\ lo' = 0 /\ hi' = 0 /\ tpin' = FALSE
    BY <1>6 DEF ResetAll, LowerPins
  <2>2. 0 \in T!Word
    BY DevicesAssumption DEF T!Word
  <2> QED
    BY <2>1, <2>2 DEF T!Word
<1> QED
  BY <1>1, <1>2, <1>3, <1>4, <1>5, <1>6 DEF Next, vars

\* The two words count down as one number, by one in every cycle, for words of any
\* width; the interrupt comes with the last cycle (timer_state_data).
THEOREM TimerCountsDownAlways == Spec => TimerCountsDown
<1> DEFINE Counts ==
      stage = "data" /\ enabled =>
        IF Left = 1 THEN tpin' /\ ~ enabled'
                    ELSE enabled' /\ Left' = Left - 1 /\ tpin' = tpin
<1>1. Init => TimerType
  BY TimerTypeInit
<1>2. TimerType /\ [Next]_vars => TimerType'
  BY TimerTypeStep
<1>3. TimerType /\ [Next]_vars => [Counts]_vars
  <2> SUFFICES ASSUME TimerType, Next, stage = "data" PROVE Counts
    BY DEF Next
  <2>1. Data
    BY DEF Next, Exec, Write, ResetCore, ResetAll, At
  <2> QED
    BY <2>1, TimerDataCounts DEF Data
<1> QED
  BY <1>1, <1>2, <1>3, PTL DEF Spec, TimerCountsDown

(***************************************************************************)
(* The NVRAM: its types, and the handshake of STATUS and the pin.          *)
(***************************************************************************)

\* The full address of a request is a number, and its cut to a word is a word.
LEMMA AddrType ==
    ASSUME reg \in N!RegType
    PROVE  N!addr \in Nat /\ N!addr % WordMod \in N!Word
<1>1. reg.addr_lo \in Nat /\ reg.addr_hi \in Nat
  BY DEF N!RegType, N!Word
<1>2. WordMod * reg.addr_hi \in Nat
  BY <1>1, DevicesAssumption
<1>3. N!addr \in Nat
  BY <1>1, <1>2 DEF N!addr
<1> QED
  BY <1>3, DevicesAssumption DEF N!Word

NvramType ==
    /\ reg \in N!RegType
    /\ data \in [N!Words -> N!Word] /\ shadow \in [N!Words -> N!Word]
    /\ delay \in 0 .. CP_NVRAM_DELAY_CYCLES
    /\ pend \in N!PendType
    /\ npin \in BOOLEAN
    /\ asked \in [inst : {"NOOP", "READ", "WRITE"}, addr : Nat]

\* A request that is accepted leaves the NVRAM and the history well typed.
LEMMA QueueType ==
    ASSUME NvramType, NEW inst \in {"READ", "WRITE"}, NEW err \in {"READ_ERR", "WRITE_ERR"},
           N!Queue(inst, err), Recorded, UNCHANGED <<data, npin>>
    PROVE  NvramType'
<1> USE DEF NvramType
<1>1. N!addr \in Nat /\ N!addr % WordMod \in N!Word
  BY AddrType
<1>2. reg.val \in N!Word /\ pend.val \in N!Word
  BY DEF N!RegType, N!PendType
<1>3. CASE N!addr < datalen
  <2>1. /\ pend' = [inst |-> inst, addr |-> N!addr % WordMod,
                    val |-> IF inst = "WRITE" THEN reg.val ELSE pend.val]
        /\ delay' = CP_NVRAM_DELAY_CYCLES
        /\ reg' = reg
    BY <1>3 DEF N!Queue
  <2>2. pend' \in N!PendType
    BY <1>1, <1>2, <2>1 DEF N!PendType
  <2>3. delay' \in 0 .. CP_NVRAM_DELAY_CYCLES
    BY <2>1, DevicesAssumption
  <2>4. asked' \in [inst : {"NOOP", "READ", "WRITE"}, addr : Nat]
    BY <1>1, <2>2 DEF Recorded, history, N!PendType
  <2>5. shadow' \in [N!Words -> N!Word]
    BY <1>2 DEF Recorded, history
  <2> QED
    BY <2>1, <2>2, <2>3, <2>4, <2>5
<1>4. CASE ~ N!addr < datalen
  <2>1. reg' = [reg EXCEPT !.status = err] /\ UNCHANGED <<delay, pend>>
    BY <1>4 DEF N!Queue, N!request
  <2>2. reg' \in N!RegType
    BY <2>1 DEF N!RegType, N!Status
  <2>3. UNCHANGED history
    BY <2>1 DEF Recorded
  <2> QED
    BY <2>1, <2>2, <2>3 DEF history
<1> QED
  BY <1>3, <1>4

\* An operation for the NVRAM keeps the types (nvram_state_exec).
LEMMA NvramExecType ==
    ASSUME NvramType, N!NvramExec, Recorded
    PROVE  NvramType'
<1>1. CASE N!ExecRead
  BY <1>1, QueueType DEF N!ExecRead
<1>2. CASE N!ExecWrite
  BY <1>2, QueueType DEF N!ExecWrite
<1>3. ASSUME UNCHANGED <<data, delay, pend>>, reg' \in N!RegType, npin' \in BOOLEAN
      PROVE  NvramType'
  BY <1>3 DEF Recorded, history, NvramType
<1>4. CASE N!ExecAck
  <2>1. reg' \in N!RegType
    BY <1>4 DEF N!ExecAck, NvramType, N!RegType, N!Status
  <2> QED
    BY <1>3, <1>4, <2>1 DEF N!ExecAck, N!request
<1>5. CASE N!ExecGetLen
  <2>1. datalen % WordMod \in N!Word /\ (datalen \div WordMod) % WordMod \in N!Word
    BY DevicesAssumption DEF N!Word
  <2>2. reg' \in N!RegType
    BY <1>5, <2>1 DEF N!ExecGetLen, NvramType, N!RegType
  <2> QED
    BY <1>3, <1>5, <2>2 DEF N!ExecGetLen, N!request, NvramType
<1>6. CASE N!ExecIgnored
  BY <1>3, <1>6 DEF N!ExecIgnored, N!request, NvramType
<1> QED
  BY <1>1, <1>2, <1>4, <1>5, <1>6 DEF N!NvramExec

\* A data callback keeps the types (nvram_state_data).
LEMMA NvramDataType ==
    ASSUME NvramType, N!NvramData, UNCHANGED history
    PROVE  NvramType'
<1> USE DEF NvramType, history
<1>1. CASE N!Quiet
  BY <1>1 DEF N!Quiet, N!request
<1>2. CASE N!CountDown
  BY <1>2, DevicesAssumption DEF N!CountDown
<1>3. ASSUME N!Finish
      PROVE  pend' \in N!PendType /\ delay' \in 0 .. CP_NVRAM_DELAY_CYCLES
  BY <1>3, DevicesAssumption DEF N!Finish, N!PendType
<1>4. ASSUME NEW bit, N!Signals(bit)
      PROVE  npin' \in BOOLEAN
  BY <1>4 DEF N!Signals
<1>5. CASE N!ServeRead
  <2>1. reg' \in N!RegType
    BY <1>5 DEF N!ServeRead, N!RegType, N!Status
  <2> QED
    BY <1>3, <1>4, <1>5, <2>1 DEF N!ServeRead
<1>6. CASE N!ServeWrite
  <2>1. reg' \in N!RegType
    BY <1>6 DEF N!ServeWrite, N!RegType, N!Status
  <2>2. data' \in [N!Words -> N!Word]
    BY <1>6 DEF N!ServeWrite, N!PendType
  <2> QED
    BY <1>3, <1>4, <1>6, <2>1, <2>2 DEF N!ServeWrite
<1> QED
  BY <1>1, <1>2, <1>5, <1>6 DEF N!NvramData

\* The NVRAM's variables keep their types in every step.
LEMMA NvramTypeStep ==
    ASSUME NvramType, [Next]_vars
    PROVE  NvramType'
<1>1. CASE UNCHANGED <<nvram, history>>
  BY <1>1 DEF NvramType, nvram, history
<1>2. CASE Exec
  BY <1>1, <1>2, NvramExecType DEF Exec
<1>3. CASE Data
  BY <1>3, NvramDataType DEF Data
<1>4. CASE Write
  <2>1. CASE N!NvramWrite(CtlWrites)
    <3>1. reg' \in N!RegType
      BY <2>1, DevicesAssumption DEF N!NvramWrite, N!RegType, N!CtlBit, NvramType
    <3> QED
      BY <1>4, <2>1, <3>1 DEF Write, N!NvramWrite, N!request, NvramType, history
  <2> QED
    BY <1>1, <1>4, <2>1 DEF Write
<1>5. CASE ResetCore
  BY <1>5 DEF ResetCore, LowerPins, NvramType, history
<1>6. CASE ResetAll
  <2>1. 0 \in N!Word /\ 0 \in 0 .. CP_NVRAM_DELAY_CYCLES
    BY DevicesAssumption DEF N!Word
  <2>2. N!ClearRegs \in N!RegType /\ N!NoRequest \in N!PendType
    BY <2>1 DEF N!ClearRegs, N!RegType, N!Status, N!NoRequest, N!PendType
  <2> QED
    BY <1>6, <2>1, <2>2 DEF ResetAll, LowerPins, N!NvramReset, NvramType
<1> QED
  BY <1>1, <1>2, <1>3, <1>4, <1>5, <1>6 DEF Next, vars

\* Every register, latch and history variable of the two devices keeps its type.
THEOREM DevicesTypeCorrect == Spec => []TypeOK
<1> DEFINE BusType == /\ bus \in [op : {"NONE", "EXEC", "WRITE"}, select : Select]
                      /\ stage \in {"exec", "data", "write"}
<1>1. Init => NvramType
  <2>1. 0 \in N!Word /\ 0 \in 0 .. CP_NVRAM_DELAY_CYCLES
    BY DevicesAssumption DEF N!Word
  <2>2. N!ClearRegs \in N!RegType /\ N!NoRequest \in N!PendType
    BY <2>1 DEF N!ClearRegs, N!RegType, N!Status, N!NoRequest, N!PendType
  <2>3. [inst |-> "NOOP", addr |-> 0] \in [inst : {"NOOP", "READ", "WRITE"}, addr : Nat]
    OBVIOUS
  <2> QED
    BY <2>1, <2>2, <2>3 DEF Init, N!NvramInit, NvramType
<1>2. Init => BusType
  BY DEF Init, NoOp, Select
<1>3. BusType /\ [Next]_vars => BusType'
  BY DEF Next, vars, Exec, Data, Write, ResetCore, ResetAll, At, NoOp, Select
<1>4. TimerType /\ NvramType /\ BusType => TypeOK
  BY DEF TimerType, NvramType, TypeOK
<1> QED
  BY <1>1, <1>2, <1>3, <1>4, TimerTypeInit, TimerTypeStep, NvramTypeStep, PTL DEF Spec

\* Nothing is pending behind an answer, and the pin stands for an answer.
Handshake ==
    /\ Pending => reg.status = "IDLE"
    /\ npin => reg.status # "IDLE"

\* Accepting, answering and acknowledging keep the handshake.
LEMMA HandshakeStep ==
    ASSUME NvramType, Handshake, [Next]_vars
    PROVE  Handshake'
<1> USE DEF Handshake, Pending
<1>1. CASE UNCHANGED nvram
  BY <1>1 DEF nvram
<1>2. CASE Exec
  <2>1. CASE N!ExecRead
    BY <2>1 DEF N!ExecRead, N!Accepts, N!Free, N!Queue, N!request, NvramType, N!RegType
  <2>2. CASE N!ExecWrite
    BY <2>2 DEF N!ExecWrite, N!Accepts, N!Free, N!Queue, N!request, NvramType, N!RegType
  <2>3. CASE N!ExecAck \/ N!ExecGetLen \/ N!ExecIgnored
    BY <2>3 DEF N!ExecAck, N!ExecGetLen, N!ExecIgnored, N!Free, N!request, NvramType, N!RegType
  <2> QED
    BY <1>1, <1>2, <2>1, <2>2, <2>3 DEF Exec, N!NvramExec
<1>3. CASE Data
  <2>1. CASE N!Quiet \/ N!CountDown
    BY <2>1 DEF N!Quiet, N!CountDown, N!request, NvramType
  <2>2. CASE N!ServeRead
    BY <2>2 DEF N!ServeRead, N!Finish, NvramType, N!RegType
  <2>3. CASE N!ServeWrite
    BY <2>3 DEF N!ServeWrite, N!Finish, NvramType, N!RegType
  <2> QED
    BY <1>3, <2>1, <2>2, <2>3 DEF Data, N!NvramData
<1>4. CASE Write
  <2>1. CASE N!NvramWrite(CtlWrites)
    BY <2>1 DEF N!NvramWrite, N!request, NvramType, N!RegType
  <2> QED
    BY <1>1, <1>4, <2>1 DEF Write
<1>5. CASE ResetCore
  BY <1>5 DEF ResetCore, LowerPins
<1>6. CASE ResetAll
  BY <1>6 DEF ResetAll, LowerPins, N!NvramReset
<1> QED
  BY <1>1, <1>2, <1>3, <1>4, <1>5, <1>6 DEF Next, vars

\* Types and handshake together hold for ever.
LEMMA HandshakeAlways == Spec => [](NvramType /\ Handshake)
<1>1. TypeOK => NvramType
  BY DEF TypeOK, NvramType
<1>2. Init => Handshake
  BY DEF Init, N!NvramInit, Handshake, Pending
<1> QED
  BY <1>1, <1>2, DevicesTypeCorrect, HandshakeStep, PTL DEF Spec

\* A program that is interrupted finds an answer in STATUS and nothing pending
\* (nvram_state_data raises, ACK in nvram_state_exec lowers).
THEOREM PinMeansAnswerAlways == Spec => []PinMeansAnswer
<1>1. NvramType /\ Handshake => PinMeansAnswer
  BY DEF NvramType, Handshake, PinMeansAnswer, Pending
<1> QED
  BY <1>1, HandshakeAlways, PTL

(***************************************************************************)
(* The NVRAM: requests, for images whose addresses fit in one register.    *)
(***************************************************************************)

\* The image is no longer than a word can count bytes: beyond, the latch cuts the
\* address and another word is served.
NarrowImage == datalen <= WordMod

\* What the pending request will have done to the image.
Served ==
    IF pend.inst = "WRITE" /\ asked.addr \in N!Words
    THEN [data EXCEPT ![asked.addr] = pend.val]
    ELSE data

\* The latch holds the request that was accepted, and the image is behind the
\* accepted writes by that request only.
RequestInv ==
    /\ ~ Pending => data = shadow
    /\ Pending => /\ pend.inst = asked.inst /\ pend.inst \in {"READ", "WRITE"}
                  /\ pend.addr = asked.addr
                  /\ shadow = Served

\* A request that is accepted is latched as it was asked.
LEMMA QueueRequest ==
    ASSUME NarrowImage, NvramType, RequestInv, NEW inst \in {"READ", "WRITE"},
           NEW err, ~ Pending, N!Queue(inst, err), Recorded, UNCHANGED data
    PROVE  RequestInv'
<1>1. data = shadow /\ delay = 0
  BY DEF RequestInv, Pending, NvramType
<1>2. CASE N!addr < datalen
  <2>1. /\ pend'.inst = inst
        /\ pend'.addr = N!addr % WordMod
        /\ inst = "WRITE" => pend'.val = reg.val
        /\ delay' > delay
    BY <1>1, <1>2, DevicesAssumption DEF N!Queue
  <2>2. N!addr % WordMod = N!addr
    <3>1. N!addr \in 0 .. WordMod - 1
      BY <1>2, AddrType, DevicesAssumption DEF NarrowImage, NvramType
    <3> QED
      BY <3>1, DevicesAssumption
  <2>3. asked'.inst = inst /\ asked'.addr = N!addr
    BY <2>1 DEF Recorded
  <2>4. shadow' = IF inst = "WRITE" /\ N!addr \in N!Words
                  THEN [shadow EXCEPT ![N!addr] = reg.val]
                  ELSE shadow
    BY <2>1 DEF Recorded
  <2>5. Pending'
    BY <1>1, <2>1 DEF Pending
  <2>6. shadow' = Served'
    BY <1>1, <2>1, <2>2, <2>3, <2>4 DEF Served
  <2> QED
    BY <2>1, <2>2, <2>3, <2>5, <2>6 DEF RequestInv
<1>3. CASE ~ N!addr < datalen
  BY <1>1, <1>3 DEF N!Queue, N!request, Recorded, history, RequestInv, Pending
<1> QED
  BY <1>2, <1>3

\* A step that leaves the image, the latch and the history alone.
LEMMA RequestUnmoved ==
    ASSUME RequestInv, UNCHANGED <<data, pend, history>>, Pending' = Pending
    PROVE  RequestInv'
BY DEF RequestInv, Served, history

\* The answer to a request is written by the cycle that ends its delay.
LEMMA ServeAnswers ==
    ASSUME NvramType, RequestInv, Pending, N!ServeRead \/ N!ServeWrite, UNCHANGED history
    PROVE  /\ ~ Pending'
           /\ data' = shadow'
           /\ LET found == asked.addr \in N!Words
              IN  IF asked.inst = "READ"
                  THEN /\ reg'.status = (IF found THEN "READ_OK" ELSE "READ_ERR")
                       /\ found => reg'.val = shadow[asked.addr]
                  ELSE reg'.status = (IF found THEN "WRITE_OK" ELSE "WRITE_ERR")
<1>1. ~ Pending'
  BY DEF N!ServeRead, N!ServeWrite, N!Finish, Pending
<1>2. /\ pend.inst = asked.inst /\ pend.addr = asked.addr
      /\ shadow = Served
  BY DEF RequestInv
<1>3. CASE N!ServeRead
  <2>1. asked.inst = "READ" /\ data = shadow /\ data' = data
    BY <1>2, <1>3 DEF N!ServeRead, Served
  <2>2. reg' = IF asked.addr \in N!Words
               THEN [reg EXCEPT !.val = data[asked.addr], !.status = "READ_OK"]
               ELSE [reg EXCEPT !.status = "READ_ERR"]
    BY <1>2, <1>3 DEF N!ServeRead, N!Target
  <2> QED
    BY <1>1, <2>1, <2>2 DEF NvramType, N!RegType, history
<1>4. CASE N!ServeWrite
  <2>1. asked.inst = "WRITE"
    BY <1>2, <1>4 DEF N!ServeWrite
  <2>2. data' = shadow
    BY <1>2, <1>4 DEF N!ServeWrite, N!Target, Served
  <2>3. reg'.status = (IF asked.addr \in N!Words THEN "WRITE_OK" ELSE "WRITE_ERR")
    BY <1>2, <1>4 DEF N!ServeWrite, N!Target, NvramType, N!RegType
  <2> QED
    BY <1>1, <2>1, <2>2, <2>3 DEF history
<1> QED
  BY <1>3, <1>4

\* Every step keeps the latch, the history and the image in step.
LEMMA RequestInvStep ==
    ASSUME NarrowImage, NvramType, RequestInv, [Next]_vars
    PROVE  RequestInv'
<1>1. CASE UNCHANGED <<nvram, history>>
  BY <1>1, RequestUnmoved DEF nvram, Pending
<1>2. CASE Exec
  <2>1. CASE N!ExecRead /\ Recorded
    BY <2>1, QueueRequest DEF N!ExecRead, N!Accepts, N!Free, Pending
  <2>2. CASE N!ExecWrite /\ Recorded
    BY <2>2, QueueRequest DEF N!ExecWrite, N!Accepts, N!Free, Pending
  <2>3. CASE (N!ExecAck \/ N!ExecGetLen \/ N!ExecIgnored) /\ Recorded
    <3>1. UNCHANGED <<data, delay, pend>>
      BY <2>3 DEF N!ExecAck, N!ExecGetLen, N!ExecIgnored, N!request
    <3>2. UNCHANGED history
      BY <2>3, <3>1 DEF Recorded, NvramType
    <3> QED
      BY <3>1, <3>2, RequestUnmoved DEF Pending
  <2> QED
    BY <1>1, <1>2, <2>1, <2>2, <2>3 DEF Exec, N!NvramExec
<1>3. CASE Data
  <2>1. UNCHANGED history
    BY <1>3 DEF Data
  <2>2. CASE N!Quiet
    BY <2>1, <2>2, RequestUnmoved DEF N!Quiet, N!request, Pending
  <2>3. CASE N!CountDown
    <3>1. Pending /\ Pending'
      BY <2>3 DEF N!CountDown, Pending, NvramType
    <3> QED
      BY <2>1, <2>3, <3>1, RequestUnmoved DEF N!CountDown
  <2>4. CASE N!ServeRead \/ N!ServeWrite
    <3>1. Pending
      BY <2>4 DEF N!ServeRead, N!ServeWrite, Pending
    <3> QED
      BY <2>1, <2>4, <3>1, ServeAnswers DEF RequestInv
  <2> QED
    BY <1>3, <2>2, <2>3, <2>4 DEF Data, N!NvramData
<1>4. CASE Write
  <2>1. CASE N!NvramWrite(CtlWrites)
    BY <1>4, <2>1, RequestUnmoved DEF Write, N!NvramWrite, N!request, Pending
  <2> QED
    BY <1>1, <1>4, <2>1 DEF Write
<1>5. CASE ResetCore
  BY <1>5, RequestUnmoved DEF ResetCore, Pending
<1>6. CASE ResetAll
  BY <1>6 DEF ResetAll, N!NvramReset, RequestInv, Pending
<1> QED
  BY <1>1, <1>2, <1>3, <1>4, <1>5, <1>6 DEF Next, vars

\* The latch and the history stay in step for ever.
LEMMA RequestInvAlways == NarrowImage /\ Spec => [](NvramType /\ RequestInv)
<1> SUFFICES ASSUME NarrowImage PROVE Spec => [](NvramType /\ RequestInv)
  OBVIOUS
<1>1. TypeOK => NvramType
  BY DEF TypeOK, NvramType
<1>2. Init => RequestInv
  BY DEF Init, N!NvramInit, RequestInv, Pending
<1>3. NvramType /\ RequestInv /\ [Next]_vars => RequestInv'
  BY RequestInvStep
<1> QED
  BY <1>1, <1>2, <1>3, DevicesTypeCorrect, PTL DEF Spec

\* Accepted writes reach the image once each, where and as they were asked, whatever
\* the program does to the registers and however often it repeats itself.
THEOREM WritesAppliedAlways == NarrowImage /\ Spec => []WritesApplied
<1>1. RequestInv => WritesApplied
  BY DEF RequestInv, WritesApplied
<1> QED
  BY <1>1, RequestInvAlways, PTL

\* Every answer is the one to the request that was accepted.
THEOREM AnswersRequestAlways == NarrowImage /\ Spec => AnswersRequest
<1> DEFINE Answers ==
      Pending /\ delay' = 0 /\ stage = "data" =>
        LET found == asked.addr \in N!Words
        IN  IF asked.inst = "READ"
            THEN /\ reg'.status = (IF found THEN "READ_OK" ELSE "READ_ERR")
                 /\ found => reg'.val = shadow[asked.addr]
            ELSE reg'.status = (IF found THEN "WRITE_OK" ELSE "WRITE_ERR")
<1>1. NvramType /\ RequestInv /\ [Next]_vars => [Answers]_vars
  <2> SUFFICES ASSUME NvramType, RequestInv, Next, Pending, delay' = 0, stage = "data"
               PROVE  Answers
    OBVIOUS
  <2>1. Data
    BY DEF Next, Exec, Write, ResetCore, ResetAll, At
  <2>2. N!ServeRead \/ N!ServeWrite
    BY <2>1 DEF Data, N!NvramData, N!Quiet, N!CountDown, N!Free, Pending, NvramType
  <2> QED
    BY <2>1, <2>2, ServeAnswers DEF Data
<1> QED
  BY <1>1, RequestInvAlways, PTL DEF Spec, AnswersRequest
(***************************************************************************)
(* The pins, as the model of the core takes them for granted.              *)
(***************************************************************************)

\* The conditions of PinsAsAssumed, for one step.
PinsRiseInData == stage # "data" => (tpin' => tpin) /\ (npin' => npin)

PinsFallOnRequest ==
    ~ (ResetCore \/ ResetAll) =>
        /\ tpin /\ ~ tpin' => bus' = [op |-> "EXEC", select |-> "timer"]
        /\ npin /\ ~ npin' => bus' = [op |-> "EXEC", select |-> "nvram"]

\* An operation raises no pin, and lowers that of the device it selects.
LEMMA PinsExec ==
    ASSUME Exec
    PROVE  PinsRiseInData /\ PinsFallOnRequest
<1>1. CASE UNCHANGED <<timer, nvram>>
  BY <1>1 DEF timer, nvram, PinsRiseInData, PinsFallOnRequest
<1>2. CASE bus' = [op |-> "EXEC", select |-> "timer"] /\ T!TimerExec /\ UNCHANGED nvram
  BY <1>2 DEF nvram, T!TimerExec, PinsRiseInData, PinsFallOnRequest
<1>3. CASE bus' = [op |-> "EXEC", select |-> "nvram"] /\ N!NvramExec /\ UNCHANGED timer
  <2>1. npin' => npin
    BY <1>3 DEF N!NvramExec, N!ExecRead, N!ExecWrite, N!ExecAck, N!ExecGetLen, N!ExecIgnored
  <2> QED
    BY <1>3, <2>1 DEF timer, PinsRiseInData, PinsFallOnRequest
<1> QED
  BY <1>1, <1>2, <1>3 DEF Exec

\* A data callback lowers no pin.
LEMMA PinsData ==
    ASSUME NvramType, Data
    PROVE  PinsRiseInData /\ PinsFallOnRequest
<1>1. stage = "data"
  BY DEF Data, At
<1>2. tpin => tpin'
  BY DEF Data, T!TimerData, T!Idle, T!Decrement, T!Borrow, T!Expire
<1>3. npin => npin'
  BY DEF Data, N!NvramData, N!Quiet, N!CountDown, N!ServeRead, N!ServeWrite, N!Signals
<1> QED
  BY <1>1, <1>2, <1>3 DEF PinsRiseInData, PinsFallOnRequest

\* The devices keep what the model of the core (module Sim) assumes of any device: a
\* pin rises in the data callbacks only, and falls only by an operation given to its
\* own device or a reset of the core (timer_state_data, nvram_state_data, IACK, ACK).
THEOREM PinsAsAssumedAlways == Spec => PinsAsAssumed
<1>1. TypeOK => NvramType
  BY DEF TypeOK, NvramType
<1>2. NvramType /\ [Next]_vars => [PinsRiseInData /\ PinsFallOnRequest]_vars
  <2> SUFFICES ASSUME NvramType, Next PROVE PinsRiseInData /\ PinsFallOnRequest
    OBVIOUS
  <2>1. CASE Write
    <3>1. UNCHANGED <<tpin, npin>>
      BY <2>1 DEF Write, T!TimerWrite, N!NvramWrite, timer, nvram
    <3> QED
      BY <3>1 DEF PinsRiseInData, PinsFallOnRequest
  <2>2. CASE ResetCore \/ ResetAll
    BY <2>2 DEF ResetCore, ResetAll, LowerPins, PinsRiseInData, PinsFallOnRequest
  <2> QED
    BY <2>1, <2>2, PinsExec, PinsData DEF Next
<1> QED
  BY <1>1, <1>2, DevicesTypeCorrect, PTL DEF Spec, PinsAsAssumed, PinsRiseInData, PinsFallOnRequest

=============================================================================
