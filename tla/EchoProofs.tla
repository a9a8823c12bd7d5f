------------------------------ MODULE EchoProofs ------------------------------
(***************************************************************************)
(* The echo of test_41.asm answers in order, for boxes of any length and   *)
(* any number of characters.                                               *)
(***************************************************************************)
EXTENDS EchoProps, UartProofs

Main == {"ctl", "fifos_on", "enable", "wait", "test", "exit", "halt"}
Handler == {"ack", "recv", "check", "send", "reset", "return"}

EchoTypes ==
    /\ pc \in Main \cup Handler /\ epc \in Main /\ gie \in BOOLEAN
    /\ VAL \in Nat /\ echo \in Seq(Nat)

\* Each run of the handler finds a character: the interrupt is not raised for another one
\* before the handler has taken this one and re-armed the interrupt.
InterruptInv ==
    /\ CTL \subseteq {"RX_AVAIL_INT"}
    /\ line => rx_raised /\ in_box.msgs # <<>>
    /\ pc \in Handler => ~ gie
    /\ pc = "ack" => line
    /\ pc \in {"recv", "check", "send", "reset"} => rx_raised /\ ~ line
    /\ pc = "recv" => in_box.msgs # <<>>
    /\ core.at = "get" => pc = "check" /\ in_box.msgs # <<>>
    /\ core.at = "post" => pc = "reset"

\* VAL holds a character that has not been answered.
Answering == (pc = "check" /\ core.at # "get") \/ pc = "send" \/ core.at = "post"

\* So every answer is to a newer character than the one before.
AnswerInv ==
    /\ Len(echo) = posted
    /\ VAL = IF received = <<>> THEN 0 ELSE received[Len(received)]
    /\ Increasing(echo) /\ Below(echo, VAL + 1)
    /\ echo # <<>> => received # <<>>
    /\ Answering => received # <<>> /\ Below(echo, VAL)

EchoInv == EchoTypes /\ InterruptInv /\ AnswerInv

---------------------------------------------------------------------------
(* The program over the UART                                               *)

\* The handler as a chain of labels.
LEMMA Chain ==
    /\ Head(HandlerCode) = "ack"
    /\ FollowedBy("ack") = "recv" /\ FollowedBy("recv") = "check" /\ FollowedBy("check") = "send"
    /\ FollowedBy("send") = "reset" /\ FollowedBy("reset") = "return"
<1>1. /\ DOMAIN HandlerCode = 1 .. 6
      /\ HandlerCode[1] = "ack" /\ HandlerCode[2] = "recv" /\ HandlerCode[3] = "check"
      /\ HandlerCode[4] = "send" /\ HandlerCode[5] = "reset" /\ HandlerCode[6] = "return"
  BY DEF HandlerCode
<1>2. Head(HandlerCode) = "ack"
  BY DEF HandlerCode
<1>3. \A j \in 1 .. 6 : /\ HandlerCode[j] = "ack" => j = 1
                        /\ HandlerCode[j] = "recv" => j = 2
                        /\ HandlerCode[j] = "check" => j = 3
                        /\ HandlerCode[j] = "send" => j = 4
                        /\ HandlerCode[j] = "reset" => j = 5
  BY <1>1
<1>4. ASSUME NEW label, NEW n \in 1 .. 5, HandlerCode[n] = label,
             \A j \in 1 .. 6 : HandlerCode[j] = label => j = n
      PROVE  FollowedBy(label) = HandlerCode[n + 1]
  <2>1. (CHOOSE j \in DOMAIN HandlerCode : HandlerCode[j] = label) = n
    BY <1>1, <1>4
  <2> QED
    BY <2>1 DEF FollowedBy
<1>5. FollowedBy("ack") = "recv"
  BY <1>1, <1>3, <1>4
<1>6. FollowedBy("recv") = "check"
  BY <1>1, <1>3, <1>4
<1>7. FollowedBy("check") = "send"
  BY <1>1, <1>3, <1>4
<1>8. FollowedBy("send") = "reset"
  BY <1>1, <1>3, <1>4
<1>9. FollowedBy("reset") = "return"
  BY <1>1, <1>3, <1>4
<1> QED
  BY <1>2, <1>5, <1>6, <1>7, <1>8, <1>9

\* What the program does is what the UART allows.
LEMMA EchoSteps == [EchoNext]_echoVars => [Next]_vars
<1>1. ASSUME EchoCycle PROVE SimThread
  <2>1. ~ crashed /\ UNCHANGED <<run_threads, rxSide, txSide>>
    BY <1>1 DEF EchoCycle
  <2>2. CASE Stall \/ Interrupt
    BY <2>1, <2>2 DEF Stall, Interrupt, SimThread
  <2>3. CASE Instruction
    BY <2>1, <2>3 DEF Instruction, SetCtl, FifosOn, Enable, Wait, Test, Exit, Acknowledge, Receive,
       Check, Send, Rearm, Return, Other, SimThread
  <2>4. CASE RestOfCycle
    BY <2>1, <2>4 DEF RestOfCycle, SimThread
  <2> QED
    BY <1>1, <2>2, <2>3, <2>4 DEF EchoCycle
<1>2. Threads => RxThread \/ TxThread
  BY DEF Threads
<1>3. Ends => Quit \/ Join
  BY DEF Ends, Halt
<1>4. UNCHANGED echoVars => UNCHANGED vars
  BY DEF echoVars
<1> QED
  BY <1>1, <1>2, <1>3, <1>4 DEF EchoNext, Next

\* The invariants of the UART that the program relies on.
UartInv == UartType /\ SentInv /\ Passed /\ FreshInv

LEMMA UartInvAlways == ~ ReadErrors /\ EchoSpec => []UartInv
<1>1. EchoInit => Init
  BY DEF EchoInit
<1> QED
  BY <1>1, EchoSteps, UartTypeAlways, SentInvAlways, PassedAlways, FreshAlways, PTL
     DEF EchoSpec, Steps, UartInv

LEMMA EchoInvInit == EchoInit => EchoInv
<1> SUFFICES ASSUME EchoInit PROVE EchoInv
  OBVIOUS
<1>1. pc = "ctl" /\ epc = "ctl" /\ gie = FALSE /\ VAL = 0 /\ echo = <<>>
  BY DEF EchoInit
<1>2. received = <<>> /\ CTL = {} /\ line = FALSE /\ posted = 0
  BY DEF EchoInit, Init
<1>3. core.at = "exec"
  BY DEF EchoInit, Init
<1>4. EchoTypes
  <2>1. pc \in Main /\ epc \in Main /\ gie \in BOOLEAN /\ VAL \in Nat
    BY <1>1 DEF Main
  <2>2. echo \in Seq(Nat)
    BY <1>1
  <2> QED
    BY <2>1, <2>2 DEF EchoTypes
<1>5. InterruptInv
  <2>1. pc \notin Handler
    BY <1>1 DEF Handler
  <2>2. pc \notin {"recv", "check", "send", "reset", "ack"}
    BY <1>1
  <2> QED
    BY <1>2, <1>3, <2>1, <2>2 DEF InterruptInv
<1>6. AnswerInv
  <2>1. Len(echo) = 0 /\ DOMAIN echo = {}
    BY <1>1
  <2>2. Increasing(echo) /\ Below(echo, VAL + 1)
    BY <2>1 DEF Increasing, Below
  <2>3. ~ Answering
    BY <1>1, <1>3 DEF Answering
  <2> QED
    BY <1>1, <1>2, <2>1, <2>2, <2>3 DEF AnswerInv
<1> QED
  BY <1>4, <1>5, <1>6 DEF EchoInv

---------------------------------------------------------------------------
(* Characters come to the program in the order of their arrival            *)

LEMMA IncreasingPrefix ==
    ASSUME NEW s \in Seq(Nat), NEW t \in Seq(Nat), Increasing(s \o t)
    PROVE  Increasing(s)
<1>1. /\ DOMAIN s = 1 .. Len(s) /\ DOMAIN (s \o t) = 1 .. Len(s) + Len(t)
      /\ Len(s) \in Nat /\ Len(t) \in Nat
      /\ \A i \in 1 .. Len(s) : (s \o t)[i] = s[i]
  BY ConcatProperties, LenProperties
<1> QED
  BY <1>1 DEF Increasing

ReceivedInOrder == received \in Seq(Nat) /\ Increasing(received)

LEMMA ReceivedIncreasing == UartInv => ReceivedInOrder
<1> SUFFICES ASSUME UartInv PROVE ReceivedInOrder
  OBVIOUS
<1>1. received \in Seq(Nat) /\ in_box.msgs \in Seq(Nat) /\ rx.c \in Nat
  BY ReceiveTypesHold DEF UartInv, ReceiveTypes
<1>2. Posting \in Seq(Nat)
  BY <1>1 DEF Posting
<1>3. received \o in_box.msgs \in Seq(Nat)
  BY <1>1, ConcatProperties
<1>4. Increasing((received \o in_box.msgs) \o Posting)
  BY DEF UartInv, Passed, FreshInv
<1>5. Increasing(received \o in_box.msgs)
  BY <1>2, <1>3, <1>4, IncreasingPrefix
<1> QED
  BY <1>1, <1>5, IncreasingPrefix DEF ReceivedInOrder

LEMMA ReceivedIncreasingNext == UartInv' => ReceivedInOrder'
  BY ReceivedIncreasing, PTL

---------------------------------------------------------------------------
(* The steps                                                               *)

\* A step that does not take or give a character, and does not come nearer to an answer.
LEMMA AnswerFrame ==
    ASSUME AnswerInv, UNCHANGED <<echo, VAL, received, posted>>, Answering' => Answering
    PROVE  AnswerInv'
  BY DEF AnswerInv, Increasing, Below

\* What the steps below use of the UART's types.
CoreShape == core \in [at : CoreAt, n : Nat, op : {"NOOP", "WRITE"}]

LEMMA Shapes ==
    UartInv => /\ CoreShape /\ in_box \in Box(0 .. RxChars) /\ received \in Seq(Nat)
               /\ posted \in Nat /\ CTL \subseteq CtlBit
<1> SUFFICES ASSUME UartInv PROVE /\ CoreShape /\ in_box \in Box(0 .. RxChars)
                                  /\ received \in Seq(Nat) /\ posted \in Nat
                                  /\ CTL \subseteq CtlBit
  OBVIOUS
<1>1. CoreShape /\ posted \in Nat
  BY UartAssumption DEF UartInv, UartType, CoreType, CoreShape
<1>2. in_box \in Box(0 .. RxChars) /\ CTL \subseteq CtlBit
  BY DEF UartInv, UartType, InType, RegisterType
<1> QED
  BY <1>1, <1>2, ReceivedIncreasing DEF ReceivedInOrder

\* The threads only put characters into the box.
LEMMA EchoInvThreads ==
    ASSUME EchoInv, UartInv, Threads
    PROVE  EchoInv'
<1>1. UNCHANGED <<driver, core, CTL, line, rx_raised, received, posted>>
  BY DEF Threads, RxThread, TxThread, registers, flags
<1>2. in_box.msgs # <<>> => in_box'.msgs # <<>>
  <2>1. CASE TxThread
    BY <2>1 DEF TxThread
  <2>2. CASE RxThread
    <3>1. CASE RxPost
      <4>1. in_box' = mbox_msg_post(in_box, rx.c)
        BY <3>1 DEF RxPost
      <4>2. in_box \in Box(0 .. RxChars) /\ rx.c \in 0 .. RxChars
        BY ReceiveTypesHold DEF UartInv, ReceiveTypes
      <4>3. in_box'.msgs = Append(in_box.msgs, rx.c)
        BY <4>1, <4>2, Post
      <4>4. in_box.msgs \in Seq(Nat) /\ rx.c \in Nat
        BY ReceiveTypesHold DEF UartInv, ReceiveTypes
      <4> QED
        BY <4>3, <4>4, AppendProperties
    <3>2. CASE ~ RxPost
      BY <2>2, <3>2 DEF RxThread, RxRead, RxReadInterrupted, RxReadFails, RxUsed, RxDecide,
                        RxFinish
    <3> QED
      BY <3>1, <3>2
  <2> QED
    BY <2>1, <2>2 DEF Threads
<1>3. EchoTypes'
  BY <1>1 DEF EchoInv, EchoTypes, driver
<1>4. InterruptInv'
  BY <1>1, <1>2 DEF EchoInv, InterruptInv, driver
<1>5. Answering' => Answering
  BY <1>1 DEF Answering, driver
<1>6. AnswerInv'
  BY <1>1, <1>5, AnswerFrame DEF EchoInv, driver
<1> QED
  BY <1>3, <1>4, <1>6 DEF EchoInv

\* Quitting and joining leave the program where it is, halted or not.
LEMMA EchoInvEnds ==
    ASSUME EchoInv, UartInv, Ends
    PROVE  EchoInv'
<1>1. /\ UNCHANGED <<driver, in_box, CTL, line, rx_raised, received, posted>>
      /\ core'.at \in {"joinrx", "jointx", "done"}
      /\ core.at \in {"exec", "joinrx", "jointx"}
  BY Shapes DEF Ends, Halt, Quit, Join, To, CoreShape, registers, flags
<1>2. EchoTypes'
  BY <1>1 DEF EchoInv, EchoTypes, driver
<1>3. InterruptInv'
  BY <1>1 DEF EchoInv, InterruptInv, driver
<1>4. Answering' => Answering
  BY <1>1 DEF Answering, driver
<1>5. AnswerInv'
  BY <1>1, <1>4, AnswerFrame DEF EchoInv, driver
<1> QED
  BY <1>2, <1>3, <1>5 DEF EchoInv

\* The rest of a cycle.
LEMMA EchoInvRestOfCycle ==
    ASSUME EchoInv, UartInv, UartInv', RestOfCycle
    PROVE  EchoInv'
<1>1. CASE RecvGet /\ VAL' = received'[Len(received')]
           /\ UNCHANGED <<pc, epc, gie, sleeping, r6, echo>>
  <2>1. core.at = "get" /\ core'.at = "rxint" /\ UNCHANGED <<CTL, line, rx_raised, posted>>
    BY <1>1, Shapes DEF RecvGet, To, CoreShape, registers, flags
  <2>2. pc = "check" /\ ~ line /\ in_box.msgs # <<>>
    BY <2>1 DEF EchoInv, InterruptInv
  <2>3. received' = Append(received, Head(in_box.msgs)) /\ ~ Unlinks(in_box)
    BY <1>1, <2>2 DEF RecvGet, Unlinks
  <2>4. Head(in_box.msgs) \in Nat
    BY <2>2, ReceiveTypesHold, HeadTailProperties DEF UartInv, ReceiveTypes
  <2>5. /\ received \in Seq(Nat) /\ Len(received) \in Nat
        /\ Len(received') = Len(received) + 1
        /\ received' # <<>>
        /\ DOMAIN received' = 1 .. Len(received) + 1
        /\ \A i \in 1 .. Len(received) : received'[i] = received[i]
        /\ received'[Len(received')] = Head(in_box.msgs)
    BY <2>3, <2>4, Shapes, AppendProperties, LenProperties, AppendElements
  <2>6. received' \in Seq(Nat) /\ Increasing(received')
    BY ReceivedIncreasingNext DEF ReceivedInOrder, Increasing
  <2>7. VAL' \in Nat /\ (received # <<>> => VAL < VAL')
    <3>1. VAL' \in Nat
      BY <1>1, <2>4, <2>5
    <3>2. ASSUME received # <<>> PROVE VAL < VAL'
      <4>1. Len(received) \in 1 .. Len(received) /\ VAL = received[Len(received)]
        BY <2>5, <3>2, EmptySeq DEF EchoInv, AnswerInv
      <4>2. VAL = received'[Len(received)]
        BY <2>5, <4>1
      <4>3. Len(received) \in DOMAIN received' /\ Len(received) + 1 \in DOMAIN received'
            /\ Len(received) < Len(received) + 1
        BY <2>5, <4>1
      <4>4. received'[Len(received)] < received'[Len(received) + 1]
        BY <2>6, <4>3 DEF Increasing
      <4> QED
        BY <1>1, <2>5, <4>2, <4>4
    <3> QED
      BY <3>1, <3>2
  <2>8. EchoTypes'
    BY <1>1, <2>7 DEF EchoInv, EchoTypes
  <2>9. InterruptInv'
    <3>1. InterruptInv
      BY DEF EchoInv
    <3> QED
      BY <1>1, <2>1, <2>2, <3>1 DEF InterruptInv
  <2>10. Below(echo, VAL')
    <3>1. CASE received = <<>>
      <4>1. echo = <<>>
        BY <3>1 DEF EchoInv, AnswerInv
      <4> QED
        BY <4>1 DEF Below
    <3>2. CASE received # <<>>
      <4>1. Below(echo, VAL + 1) /\ VAL < VAL' /\ VAL \in Nat
            /\ (\A i \in DOMAIN echo : echo[i] \in Nat)
        BY <2>7, <3>2 DEF EchoInv, AnswerInv, EchoTypes
      <4> QED
        BY <2>7, <4>1 DEF Below
    <3> QED
      BY <3>1, <3>2
  <2>11. AnswerInv'
    <3>1. Below(echo, VAL' + 1)
      <4>1. \A i \in DOMAIN echo : echo[i] \in Nat
        BY DEF EchoInv, EchoTypes
      <4> QED
        BY <2>7, <2>10, <4>1 DEF Below
    <3>2. Len(echo) = posted /\ Increasing(echo)
      BY DEF EchoInv, AnswerInv
    <3>3. Len(echo') = posted' /\ Increasing(echo')
      BY <1>1, <2>1, <3>2 DEF Increasing
    <3>4. Below(echo', VAL') /\ Below(echo', VAL' + 1)
      BY <1>1, <2>10, <3>1 DEF Below
    <3> QED
      BY <1>1, <2>5, <3>3, <3>4 DEF AnswerInv
  <2> QED
    BY <2>8, <2>9, <2>11 DEF EchoInv
<1>2. CASE SendPost /\ echo' = Append(echo, VAL) /\ UNCHANGED <<pc, epc, gie, sleeping, r6, VAL>>
  <2>1. /\ core.at = "post" /\ core'.at = "rxint" /\ posted' = posted + 1
        /\ UNCHANGED <<in_box, CTL, line, rx_raised, received>>
    BY <1>2, Shapes DEF SendPost, To, CoreShape, registers, flags
  <2>2. pc = "reset"
    BY <2>1 DEF EchoInv, InterruptInv
  <2>3. Answering /\ ~ Answering'
    BY <1>2, <2>1, <2>2 DEF Answering
  <2>4. echo \in Seq(Nat) /\ VAL \in Nat /\ Increasing(echo) /\ Below(echo, VAL)
        /\ Below(echo, VAL + 1) /\ received # <<>> /\ Len(echo) = posted
    BY <2>3 DEF EchoInv, EchoTypes, AnswerInv
  <2>5. EchoTypes'
    BY <1>2, <2>4, AppendProperties DEF EchoInv, EchoTypes
  <2>6. InterruptInv'
    BY <1>2, <2>1 DEF EchoInv, InterruptInv
  <2>7. Increasing(echo') /\ Below(echo', VAL + 1) /\ Len(echo') = posted + 1
    <3>1. VAL < VAL + 1 /\ VAL + 1 \in Nat
      BY <2>4
    <3>2. Increasing(Append(echo, VAL))
      BY <2>4, IncreasingAppend
    <3>3. Below(Append(echo, VAL), VAL + 1)
      BY <2>4, <3>1, BelowAppend
    <3>4. Len(Append(echo, VAL)) = Len(echo) + 1
      BY <2>4, AppendProperties
    <3> QED
      BY <1>2, <2>4, <3>2, <3>3, <3>4
  <2>8. AnswerInv'
    <3>1. Increasing(echo)' /\ Below(echo, VAL + 1)'
      BY <1>2, <2>7 DEF Increasing, Below
    <3>2. VAL' = IF received' = <<>> THEN 0 ELSE received'[Len(received')]
      BY <1>2, <2>1 DEF EchoInv, AnswerInv
    <3> QED
      BY <2>1, <2>3, <2>4, <2>7, <3>1, <3>2 DEF AnswerInv
  <2> QED
    BY <2>5, <2>6, <2>8 DEF EchoInv
<1>3. CASE (DataRx \/ DataTx \/ Write) /\ UNCHANGED driver
  <2>1. /\ core.at \in {"rxint", "txint", "write"} /\ core'.at \in {"txint", "write", "exec"}
        /\ UNCHANGED <<driver, in_box, received, posted>>
    BY <1>3, Shapes DEF DataRx, DataTx, Write, To, CoreShape, registers, flags
  <2>2. CTL' \subseteq {"RX_AVAIL_INT"}
    BY <1>3, EchoAssumption DEF DataRx, DataTx, Write, EchoInv, InterruptInv
  <2>3. \/ UNCHANGED <<line, rx_raised>>
        \/ ~ rx_raised /\ line' /\ rx_raised' /\ in_box.msgs # <<>>
    <3>1. CASE DataRx
      <4>1. mbox_len(in_box) > 0 => in_box.msgs # <<>>
        BY DEF mbox_len
      <4> QED
        BY <3>1, <4>1 DEF DataRx, RxRaises
    <3>2. CASE DataTx
      BY <3>2 DEF DataTx, EchoInv, InterruptInv
    <3>3. CASE Write
      BY <3>3 DEF Write, flags
    <3> QED
      BY <1>3, <3>1, <3>2, <3>3
  <2>4. EchoTypes'
    BY <2>1 DEF EchoInv, EchoTypes, driver
  <2>5. InterruptInv'
    BY <2>1, <2>2, <2>3 DEF EchoInv, InterruptInv, driver
  <2>6. Answering' => Answering
    BY <2>1 DEF Answering, driver
  <2>7. AnswerInv'
    BY <2>1, <2>6, AnswerFrame DEF EchoInv, driver
  <2> QED
    BY <2>4, <2>5, <2>7 DEF EchoInv
<1> QED
  BY <1>1, <1>2, <1>3 DEF RestOfCycle

\* An instruction of the main program.
LEMMA EchoInvMain ==
    ASSUME EchoInv, UartInv, SetCtl \/ FifosOn \/ Enable \/ Wait \/ Test \/ Exit
    PROVE  EchoInv'
<1>1. /\ core.at = "exec" /\ core'.at = "rxint"
      /\ UNCHANGED <<in_box, CTL, line, rx_raised, received, posted, echo, VAL, epc>>
  <2>1. CASE SetCtl
    BY <2>1, Shapes DEF SetCtl, ExecNothing, CoreShape, registers, flags
  <2>2. CASE FifosOn
    BY <2>2, Shapes DEF FifosOn, Operates, ExecFlag, Issue, To, CoreShape, registers, flags
  <2>3. CASE Enable \/ Wait \/ Test \/ Exit
    BY <2>3, Shapes DEF Enable, Wait, Test, Exit, Other, ExecNothing, CoreShape, registers, flags
  <2> QED
    BY <2>1, <2>2, <2>3
<1>2. pc \in {"ctl", "fifos_on", "enable", "wait", "test", "exit"}
  BY DEF SetCtl, FifosOn, Enable, Wait, Test, Exit, Operates, Other, Execs
<1>3. pc' \in Main
  BY DEF SetCtl, FifosOn, Enable, Wait, Test, Exit, Operates, Other, Main
<1>4. gie' \in BOOLEAN
  BY DEF SetCtl, FifosOn, Enable, Wait, Test, Exit, Operates, Other, EchoInv, EchoTypes
<1>5. pc' \notin Handler /\ pc' \notin {"recv", "check", "send", "reset", "ack"}
  BY <1>3 DEF Main, Handler
<1>6. EchoTypes'
  BY <1>1, <1>3, <1>4 DEF EchoInv, EchoTypes
<1>7. InterruptInv'
  BY <1>1, <1>5 DEF EchoInv, InterruptInv
<1>8. AnswerInv'
  BY <1>1, <1>5, AnswerFrame DEF EchoInv, Answering
<1> QED
  BY <1>6, <1>7, <1>8 DEF EchoInv

\* A cycle that stalls, or takes the interrupt.
LEMMA EchoInvStall ==
    ASSUME EchoInv, UartInv, Stall \/ Interrupt
    PROVE  EchoInv'
<1>1. /\ core.at = "exec" /\ core'.at = "rxint"
      /\ UNCHANGED <<in_box, CTL, line, rx_raised, received, posted, echo, VAL>>
  BY Shapes DEF Stall, Interrupt, ExecNothing, CoreShape, registers, flags, driver
<1>2. CASE Stall
  <2>1. UNCHANGED <<pc, epc, gie>>
    BY <1>2 DEF Stall, driver
  <2>2. EchoTypes'
    BY <1>1, <2>1 DEF EchoInv, EchoTypes
  <2>3. InterruptInv'
    BY <1>1, <2>1 DEF EchoInv, InterruptInv
  <2>4. AnswerInv'
    BY <1>1, <2>1, AnswerFrame DEF EchoInv, Answering
  <2> QED
    BY <2>2, <2>3, <2>4 DEF EchoInv
<1>3. CASE Interrupt
  <2>1. line /\ gie /\ gie' = FALSE /\ epc' = pc /\ pc' = "ack"
    BY <1>3, Chain DEF Interrupt, Interrupted
  <2>2. pc \in Main
    BY <2>1 DEF EchoInv, EchoTypes, InterruptInv
  <2>3. EchoTypes'
    BY <1>1, <2>1, <2>2 DEF EchoInv, EchoTypes, Handler
  <2>4. InterruptInv'
    BY <1>1, <2>1 DEF EchoInv, InterruptInv
  <2>5. AnswerInv'
    BY <1>1, <2>1, AnswerFrame DEF EchoInv, Answering
  <2> QED
    BY <2>3, <2>4, <2>5 DEF EchoInv
<1> QED
  BY <1>2, <1>3

\* An instruction of the handler.
LEMMA EchoInvHandler ==
    ASSUME EchoInv, UartInv, Acknowledge \/ Receive \/ Check \/ Send \/ Rearm \/ Return
    PROVE  EchoInv'
<1>1. /\ core.at = "exec"
      /\ UNCHANGED <<in_box, CTL, received, posted, echo, VAL, epc>>
  BY Shapes DEF Acknowledge, Receive, Check, Send, Rearm, Return, Operates, Other, ExecNothing,
     ExecFlag, ExecRecv, ExecSend, Issue, To, CoreShape, registers, flags
<1>2. CASE Acknowledge
  <2>1. /\ pc = "ack" /\ pc' = "recv" /\ gie' = gie /\ core'.at = "rxint"
        /\ ~ line' /\ rx_raised' = rx_raised
    BY <1>2, Chain, Shapes DEF Acknowledge, Operates, Execs, ExecFlag, To, CoreShape
  <2>2. EchoTypes'
    BY <1>1, <2>1 DEF EchoInv, EchoTypes, Handler
  <2>3. InterruptInv'
    BY <1>1, <2>1 DEF EchoInv, InterruptInv, Handler
  <2>4. AnswerInv'
    BY <1>1, <2>1, AnswerFrame DEF EchoInv, Answering
  <2> QED
    BY <2>2, <2>3, <2>4 DEF EchoInv
<1>3. CASE Receive
  <2>1. /\ pc = "recv" /\ pc' = "check" /\ gie' = gie
        /\ UNCHANGED <<line, rx_raised>>
        /\ core'.at = IF mbox_len(in_box) > 0 THEN "get" ELSE "rxint"
    BY <1>3, Chain, Shapes DEF Receive, Operates, Execs, ExecRecv, To, CoreShape, flags
  <2>2. in_box.msgs # <<>> /\ core'.at = "get"
    <3>1. in_box.msgs # <<>>
      BY <2>1 DEF EchoInv, InterruptInv
    <3>2. in_box.msgs \in Seq(0 .. RxChars)
      BY Shapes DEF Box
    <3>3. Len(in_box.msgs) > 0
      BY <3>1, <3>2, EmptySeq, LenProperties
    <3> QED
      BY <2>1, <3>1, <3>3 DEF mbox_len
  <2>3. EchoTypes'
    BY <1>1, <2>1 DEF EchoInv, EchoTypes, Handler
  <2>4. InterruptInv'
    BY <1>1, <2>1, <2>2 DEF EchoInv, InterruptInv, Handler
  <2>5. AnswerInv'
    BY <1>1, <2>1, <2>2, AnswerFrame DEF EchoInv, Answering
  <2> QED
    BY <2>3, <2>4, <2>5 DEF EchoInv
<1>4. CASE Check
  <2>1. /\ pc = "check" /\ pc' \in {"send", "reset"} /\ gie' = gie /\ core'.at = "rxint"
        /\ UNCHANGED <<line, rx_raised>>
    BY <1>4, Chain, Shapes DEF Check, Execs, ExecNothing, CoreShape, flags
  <2>2. EchoTypes'
    BY <1>1, <2>1 DEF EchoInv, EchoTypes, Handler
  <2>3. InterruptInv'
    BY <1>1, <2>1 DEF EchoInv, InterruptInv, Handler
  <2>4. AnswerInv'
    BY <1>1, <2>1, AnswerFrame DEF EchoInv, Answering
  <2> QED
    BY <2>2, <2>3, <2>4 DEF EchoInv
<1>5. CASE Send
  <2>1. /\ pc = "send" /\ pc' = "reset" /\ gie' = gie /\ core'.at \in {"post", "rxint"}
        /\ UNCHANGED <<line, rx_raised>>
    BY <1>5, Chain, Shapes DEF Send, Operates, Execs, ExecSend, To, CoreShape, flags
  <2>2. EchoTypes'
    BY <1>1, <2>1 DEF EchoInv, EchoTypes, Handler
  <2>3. InterruptInv'
    BY <1>1, <2>1 DEF EchoInv, InterruptInv, Handler
  <2>4. AnswerInv'
    BY <1>1, <2>1, AnswerFrame DEF EchoInv, Answering
  <2> QED
    BY <2>2, <2>3, <2>4 DEF EchoInv
<1>6. CASE Rearm
  <2>1. /\ pc = "reset" /\ pc' = "return" /\ gie' = gie /\ core'.at = "rxint"
        /\ line' = line /\ ~ rx_raised'
    BY <1>6, Chain, Shapes DEF Rearm, Operates, Execs, ExecFlag, To, CoreShape
  <2>2. EchoTypes'
    BY <1>1, <2>1 DEF EchoInv, EchoTypes, Handler
  <2>3. InterruptInv'
    BY <1>1, <2>1 DEF EchoInv, InterruptInv, Handler
  <2>4. AnswerInv'
    BY <1>1, <2>1, AnswerFrame DEF EchoInv, Answering
  <2> QED
    BY <2>2, <2>3, <2>4 DEF EchoInv
<1>7. CASE Return
  <2>1. /\ pc = "return" /\ pc' = epc /\ gie' = TRUE /\ core'.at = "rxint"
        /\ UNCHANGED <<line, rx_raised>>
    BY <1>7, Shapes DEF Return, Other, Execs, ExecNothing, CoreShape, flags
  <2>2. pc' \in Main
    BY <2>1 DEF EchoInv, EchoTypes
  <2>3. pc' \notin Handler /\ pc' \notin {"recv", "check", "send", "reset", "ack"}
    BY <2>2 DEF Main, Handler
  <2>4. EchoTypes'
    BY <1>1, <2>1, <2>2 DEF EchoInv, EchoTypes
  <2>5. InterruptInv'
    BY <1>1, <2>1, <2>3 DEF EchoInv, InterruptInv
  <2>6. AnswerInv'
    BY <1>1, <2>1, <2>3, AnswerFrame DEF EchoInv, Answering
  <2> QED
    BY <2>4, <2>5, <2>6 DEF EchoInv
<1> QED
  BY <1>2, <1>3, <1>4, <1>5, <1>6, <1>7

LEMMA EchoInvStep ==
    ASSUME EchoInv, UartInv, UartInv', [EchoNext]_echoVars
    PROVE  EchoInv'
<1>1. CASE EchoCycle
  BY <1>1, EchoInvStall, EchoInvMain, EchoInvHandler, EchoInvRestOfCycle DEF EchoCycle, Instruction
<1>2. CASE Threads
  BY <1>2, EchoInvThreads
<1>3. CASE Ends
  BY <1>3, EchoInvEnds
<1>4. CASE UNCHANGED echoVars
  <2>1. UNCHANGED <<driver, core, in_box, CTL, line, rx_raised, received, posted>>
    BY <1>4 DEF echoVars, vars, registers, flags
  <2>2. EchoTypes'
    BY <2>1 DEF EchoInv, EchoTypes, driver
  <2>3. InterruptInv'
    BY <2>1 DEF EchoInv, InterruptInv, driver
  <2>4. AnswerInv'
    BY <2>1, AnswerFrame DEF EchoInv, Answering, driver
  <2> QED
    BY <2>2, <2>3, <2>4 DEF EchoInv
<1> QED
  BY <1>1, <1>2, <1>3, <1>4 DEF EchoNext

\* As long as read() does not fail, every answer written is to a character newer than the
\* one answered before, whatever the two threads, full boxes and the interrupt do in
\* between: none is answered twice or overtaken (test_41.asm, uart_state_data, rx_thr_fun).
THEOREM EchoesInOrderAlways == ~ ReadErrors /\ EchoSpec => []EchoesInOrder
<1>1. EchoInv /\ UartInv => EchoesInOrder
  <2> SUFFICES ASSUME EchoInv, UartInv PROVE EchoesInOrder
    OBVIOUS
  <2>1. /\ echo \in Seq(Nat) /\ Len(echo) = posted /\ Increasing(echo)
        /\ DOMAIN echo = 1 .. Len(echo)
    BY LenProperties DEF EchoInv, EchoTypes, AnswerInv
  <2>2. /\ sent \in Seq(1 .. TxChars) /\ Increasing(sent) /\ Below(sent, posted + 1)
        /\ posted \in Nat
    BY Shapes DEF UartInv, UartType, TxType, SentInv
  <2>3. \A i \in DOMAIN sent : sent[i] \in 1 .. TxChars
    BY <2>2, ElementOfSeq, LenProperties
  <2>4. \A i \in DOMAIN sent : sent[i] \in DOMAIN echo
    BY <2>1, <2>2, <2>3, UartAssumption DEF Below
  <2>5. \A i, j \in DOMAIN sent : i < j => echo[sent[i]] < echo[sent[j]]
    BY <2>1, <2>2, <2>4 DEF Increasing
  <2> QED
    BY <2>1, <2>5 DEF EchoesInOrder, Increasing
<1>2. EchoSpec => EchoInit /\ [][EchoNext]_echoVars
  BY DEF EchoSpec
<1> QED
  BY <1>1, <1>2, EchoInvInit, EchoInvStep, UartInvAlways, PTL
==============================================================================
