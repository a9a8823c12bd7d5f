------------------------------ MODULE UartProofs ------------------------------
(***************************************************************************)
(* Proofs about the UART, for boxes of any length, any number of           *)
(* characters, and any operations of the program, resets, wakeups and host *)
(* errors unless a theorem names the ones it excludes.                     *)
(***************************************************************************)
EXTENDS UartProps, SequenceTheorems, TLAPS

(***************************************************************************)
(* Boxes.                                                                  *)
(***************************************************************************)

\* No more threads are signalled than wait.
WellSignalled(box) == box.signals <= box.waiting

\* A post adds the message at the end and signals a waiter if there is one left.
LEMMA Post ==
    ASSUME NEW M, NEW box \in Box(M), NEW m \in M
    PROVE  LET b == mbox_msg_post(box, m)
           IN  /\ b \in Box(M)
               /\ b.msgs = Append(box.msgs, m)
               /\ b.waiting = box.waiting
               /\ Len(b.msgs) = Len(box.msgs) + 1
               /\ WellSignalled(box) => WellSignalled(b)
<1> DEFINE msgs == Append(box.msgs, m)
           signals == IF box.waiting > box.signals THEN box.signals + 1 ELSE box.signals
<1>1. /\ box \in [msgs : Seq(M), waiting : 0 .. 1, signals : 0 .. 1]
      /\ box.msgs \in Seq(M) /\ box.waiting \in 0 .. 1 /\ box.signals \in 0 .. 1
  BY DEF Box
<1>2. msgs \in Seq(M) /\ Len(msgs) = Len(box.msgs) + 1
  BY <1>1
<1>3. signals \in 0 .. 1 /\ (WellSignalled(box) => signals <= box.waiting)
  BY <1>1 DEF WellSignalled
<1>4. mbox_msg_post(box, m) = [box EXCEPT !.msgs = msgs, !.signals = signals]
  BY <1>1, Zenon DEF mbox_msg_post
<1> HIDE DEF msgs, signals
<1>5. mbox_msg_post(box, m) \in [msgs : Seq(M), waiting : 0 .. 1, signals : 0 .. 1]
  BY <1>1, <1>2, <1>3, <1>4
<1>6. /\ mbox_msg_post(box, m).msgs = msgs
      /\ mbox_msg_post(box, m).waiting = box.waiting
      /\ mbox_msg_post(box, m).signals = signals
  BY <1>1, <1>4
<1> QED
  BY <1>2, <1>3, <1>5, <1>6 DEF Box, WellSignalled, msgs

\* Taking a message from a box that has one leaves the others and hands out the first.
LEMMA Take ==
    ASSUME NEW M, NEW box \in Box(M), ~ Unlinks(box)
    PROVE  /\ Taken(box) \in Box(M)
           /\ Taken(box).msgs = Tail(box.msgs)
           /\ Taken(box).waiting = box.waiting
           /\ Taken(box).signals = box.signals
           /\ Len(Taken(box).msgs) = Len(box.msgs) - 1
           /\ Len(box.msgs) > 0
           /\ Head(box.msgs) \in M
<1> USE DEF Box, Taken, Unlinks
<1>1. box.msgs \in Seq(M) /\ box.msgs # <<>>
  OBVIOUS
<1>2. /\ Tail(box.msgs) \in Seq(M) /\ Len(Tail(box.msgs)) = Len(box.msgs) - 1
      /\ Head(box.msgs) \in M /\ Len(box.msgs) > 0
  BY <1>1
<1> QED
  BY <1>1, <1>2

\* A thread that starts to wait, or stops, leaves the messages alone.
LEMMA Waiting ==
    ASSUME NEW M, NEW box \in Box(M), WellSignalled(box)
    PROVE  /\ box.waiting = 0 =>
                /\ WaitBegins(box) \in Box(M)
                /\ WellSignalled(WaitBegins(box))
                /\ WaitBegins(box).waiting = 1
           /\ WaitBegins(box).msgs = box.msgs
           /\ WaitBegins(box).signals = box.signals
           /\ Signalled(box) =>
                /\ WaitSignalled(box) \in Box(M)
                /\ WellSignalled(WaitSignalled(box))
                /\ WaitSignalled(box).waiting = 0
                /\ WaitSignalled(box).signals = 0
           /\ WaitSignalled(box).msgs = box.msgs
           /\ Expirable(box) =>
                /\ WaitExpires(box) \in Box(M)
                /\ WellSignalled(WaitExpires(box))
                /\ WaitExpires(box).waiting = 0
                /\ WaitExpires(box).signals = 0
           /\ WaitExpires(box).msgs = box.msgs
<1> USE DEF Box, WellSignalled
<1>1. /\ box.waiting \in 0 .. 1 /\ box.signals \in 0 .. 1 /\ box.signals <= box.waiting
      /\ box.msgs \in Seq(M)
      /\ box = [msgs |-> box.msgs, waiting |-> box.waiting, signals |-> box.signals]
  OBVIOUS
<1>2. /\ WaitBegins(box).msgs = box.msgs
      /\ WaitBegins(box).signals = box.signals
      /\ box.waiting = 0 => /\ WaitBegins(box) \in Box(M)
                            /\ WellSignalled(WaitBegins(box))
                            /\ WaitBegins(box).waiting = 1
  BY <1>1 DEF WaitBegins
<1>3. /\ WaitSignalled(box).msgs = box.msgs
      /\ Signalled(box) => /\ WaitSignalled(box) \in Box(M)
                           /\ WellSignalled(WaitSignalled(box))
                           /\ WaitSignalled(box).waiting = 0
                           /\ WaitSignalled(box).signals = 0
  <2>1. /\ WaitSignalled(box).msgs = box.msgs
        /\ WaitSignalled(box).waiting = box.waiting - 1
        /\ WaitSignalled(box).signals = box.signals - 1
    BY <1>1 DEF WaitSignalled
  <2>2. Signalled(box) => box.waiting - 1 = 0 /\ box.signals - 1 = 0
    BY <1>1 DEF Signalled
  <2>3. Signalled(box) => WaitSignalled(box) \in Box(M)
    <3>1. WaitSignalled(box) = [box EXCEPT !.waiting = box.waiting - 1,
                                           !.signals = box.signals - 1]
      BY <1>1, Zenon DEF WaitSignalled
    <3>2. \A w, i \in 0 .. 1 : [box EXCEPT !.waiting = w, !.signals = i] \in Box(M)
      BY <1>1
    <3> QED
      BY <2>2, <3>1, <3>2, 0 \in 0 .. 1, Zenon
  <2>4. Signalled(box) => WaitSignalled(box).waiting = 0 /\ WaitSignalled(box).signals = 0
    BY <2>1, <2>2
  <2> HIDE DEF Box
  <2> QED
    BY <2>1, <2>3, <2>4
<1>4. /\ WaitExpires(box).msgs = box.msgs
      /\ Expirable(box) => /\ WaitExpires(box) \in Box(M)
                           /\ WellSignalled(WaitExpires(box))
                           /\ WaitExpires(box).waiting = 0
                           /\ WaitExpires(box).signals = 0
  <2>1. Expirable(box) => box.waiting = 1 /\ box.signals = 0
    BY <1>1 DEF Expirable
  <2> QED
    BY <1>1, <2>1 DEF WaitExpires
<1> QED
  BY <1>2, <1>3, <1>4

(***************************************************************************)
(* Types.                                                                  *)
(***************************************************************************)

InType == in_box \in Box(0 .. RxChars) /\ received \in Seq(0 .. RxChars)

RxType ==
    /\ rx \in [at : {"poll", "used", "decide", "post", "done"}, c : 0 .. RxChars, used : Nat]
    /\ arrived \in 0 .. RxChars
    /\ accepted \in Seq(0 .. RxChars)

OutType ==
    /\ out_box \in Box(1 .. TxChars) /\ WellSignalled(out_box)
    /\ ~ crashed => (tx.at = "wait" <=> out_box.waiting = 1)

TxType ==
    /\ tx \in [at : {"loop", "wait", "write", "done"}, c : 0 .. TxChars]
    /\ tx.at = "write" => tx.c \in 1 .. TxChars
    /\ sent \in Seq(1 .. TxChars)

CoreAt == {"exec", "post", "get", "clear", "rxint", "txint", "write", "resetin", "resetout",
           "resetcore", "joinrx", "jointx", "done"}

CoreType ==
    /\ core \in [at : CoreAt, n : Nat, op : {"NOOP", "WRITE"}]
    /\ posted \in 0 .. TxChars
    /\ core.at = "post" => posted < TxChars

RegisterType == CTL \subseteq CtlBit /\ STATUS \subseteq StatusBit

FlagType ==
    /\ fifo_en \in BOOLEAN /\ rx_raised \in BOOLEAN /\ tx_raised \in BOOLEAN
    /\ run_threads \in BOOLEAN /\ line \in BOOLEAN

UartType ==
    InType /\ RxType /\ OutType /\ TxType /\ CoreType /\ RegisterType /\ FlagType
    /\ crashed \in BOOLEAN

LEMMA UartTypeInit == Init => UartType
<1> SUFFICES ASSUME Init PROVE UartType
  OBVIOUS
<1> USE UartAssumption DEF Init
<1>1. InType /\ RxType
  BY DEF InType, RxType, Box, mbox_init
<1>2. OutType /\ TxType
  BY DEF OutType, TxType, Box, mbox_init, WellSignalled
<1>3. CoreType /\ RegisterType
  BY DEF CoreType, CoreAt, RegisterType
<1>4. FlagType /\ crashed \in BOOLEAN
  BY DEF FlagType
<1> QED
  BY <1>1, <1>2, <1>3, <1>4 DEF UartType

\* A step of the receive thread keeps the types.
LEMMA RxThreadType ==
    ASSUME UartType, RxThread
    PROVE  UartType'
<1> USE UartAssumption
<1>1. OutType' /\ TxType' /\ CoreType' /\ received' = received
  BY DEF UartType, RxThread, OutType, TxType, CoreType, txSide
<1>2. RegisterType' /\ FlagType' /\ crashed' \in BOOLEAN
  BY DEF UartType, RxThread, RegisterType, FlagType, registers, flags
<1>3. InType /\ RxType
  BY DEF UartType
<1>4. InType' /\ RxType'
  <2> USE <1>1, <1>3 DEF InType, RxType
  <2>1. CASE RxRead
    <3>1. arrived \in 0 .. RxChars /\ arrived < RxChars /\ arrived' = arrived + 1
      BY <2>1 DEF RxRead
    <3>2. arrived' \in 0 .. RxChars
      BY <3>1
    <3> QED
      BY <2>1, <3>1, <3>2 DEF RxRead
  <2>2. CASE RxReadInterrupted \/ RxReadFails \/ RxFinish
    BY <2>2 DEF RxReadInterrupted, RxReadFails, RxFinish
  <2>3. CASE RxUsed
    <3>1. mbox_len(in_box) \in Nat
      BY DEF mbox_len, Box
    <3> QED
      BY <2>3, <3>1 DEF RxUsed
  <2>4. CASE RxDecide
    <3>1. rx.c \in 0 .. RxChars
      OBVIOUS
    <3>2. CASE Room
      <4>1. Append(accepted, rx.c) \in Seq(0 .. RxChars)
        BY <3>1
      <4>2. accepted' = Append(accepted, rx.c) /\ rx' = [rx EXCEPT !.at = "post"]
        BY <2>4, <3>2 DEF RxDecide
      <4> QED
        BY <2>4, <4>1, <4>2 DEF RxDecide
    <3>3. CASE ~ Room
      BY <2>4, <3>3 DEF RxDecide
    <3> QED
      BY <3>2, <3>3
  <2>5. CASE RxPost
    <3>1. mbox_msg_post(in_box, rx.c) \in Box(0 .. RxChars)
      BY Post
    <3> QED
      BY <2>5, <3>1 DEF RxPost
  <2> QED
    BY <2>1, <2>2, <2>3, <2>4, <2>5 DEF RxThread
<1> QED
  BY <1>1, <1>2, <1>4 DEF UartType

\* Taking from a well formed transmit box, after leaving its waiters.
LEMMA TxTakeType ==
    ASSUME UartAssumption, NEW box \in Box(1 .. TxChars), WellSignalled(box), box.waiting = 0,
           TxType, TxTake(box), sent' = sent, crashed \in BOOLEAN
    PROVE  OutType' /\ TxType' /\ crashed' \in BOOLEAN
<1>1. CASE Unlinks(box)
  BY <1>1 DEF TxTake, OutType, TxType
<1>2. CASE ~ Unlinks(box)
  BY <1>2, Take DEF TxTake, OutType, TxType, WellSignalled
<1> QED
  BY <1>1, <1>2

\* A step of the transmit thread keeps the types.
LEMMA TxThreadType ==
    ASSUME UartType, TxThread
    PROVE  UartType'
<1> USE UartAssumption
<1>1. InType' /\ RxType' /\ CoreType'
  BY DEF UartType, TxThread, InType, RxType, CoreType, rxSide
<1>2. RegisterType' /\ FlagType'
  BY DEF UartType, TxThread, RegisterType, FlagType, registers, flags
<1>3. OutType' /\ TxType' /\ crashed' \in BOOLEAN
  <2>1. /\ ~ crashed /\ out_box \in Box(1 .. TxChars) /\ WellSignalled(out_box)
        /\ tx.at = "wait" <=> out_box.waiting = 1
        /\ out_box.waiting \in 0 .. 1
    BY DEF TxThread, UartType, OutType, Box
  <2>0. TxType /\ crashed \in BOOLEAN
    BY DEF UartType
  <2> USE <2>0
  <2>2. CASE TxGet
    BY <2>1, <2>2, TxTakeType DEF TxGet
  <2>3. CASE TxWait
    BY <2>1, <2>3, Waiting DEF TxWait, OutType, TxType
  <2>4. CASE TxSignalled
    BY <2>1, <2>4, Waiting, TxTakeType DEF TxSignalled
  <2>5. CASE TxTimeout
    <3>1. /\ out_box' \in Box(1 .. TxChars) /\ WellSignalled(out_box)' /\ out_box'.waiting = 0
      BY <2>1, <2>5, Waiting DEF TxTimeout
    <3>2. tx' = [tx EXCEPT !.at = "loop"] /\ UNCHANGED <<sent, crashed>>
      BY <2>5 DEF TxTimeout
    <3> QED
      BY <3>1, <3>2 DEF OutType, TxType
  <2>6. CASE TxSpurious
    BY <2>1, <2>6, Waiting, TxTakeType DEF TxSpurious
  <2>7. CASE TxWrite
    BY <2>1, <2>7 DEF TxWrite, OutType, TxType
  <2>8. CASE TxFinish
    BY <2>1, <2>8 DEF TxFinish, OutType, TxType
  <2> QED
    BY <2>2, <2>3, <2>4, <2>5, <2>6, <2>7, <2>8 DEF TxThread
<1> QED
  BY <1>1, <1>2, <1>3 DEF UartType

\* Draining the transmit box keeps the types.
LEMMA DrainType ==
    ASSUME UartAssumption, UartType, ~ crashed, NEW next \in CoreAt \ {"post"}, DrainOut(next),
           core.at # "post", UNCHANGED <<txSide, posted>>
    PROVE  OutType' /\ TxType' /\ CoreType' /\ crashed' \in BOOLEAN
<1>1. OutType /\ TxType /\ CoreType /\ crashed \in BOOLEAN
  BY DEF UartType
<1>2. TxType' /\ tx' = tx /\ posted' = posted
  BY <1>1 DEF TxType, txSide
<1>3. CASE core.n = 0
  <2>1. core' = [core EXCEPT !.at = next] /\ UNCHANGED <<out_box, crashed>>
    BY <1>3 DEF DrainOut, To
  <2> QED
    BY <1>1, <1>2, <2>1 DEF OutType, CoreType
<1>4. CASE core.n # 0
  <2>1. core' = [core EXCEPT !.n = core.n - 1] /\ core.n - 1 \in Nat
    BY <1>1, <1>4 DEF DrainOut, CoreType
  <2>2. CoreType'
    BY <1>1, <1>2, <2>1 DEF CoreType
  <2>3. CASE Unlinks(out_box)
    BY <1>1, <1>2, <1>4, <2>2, <2>3 DEF DrainOut, OutType
  <2>4. CASE ~ Unlinks(out_box)
    <3>1. out_box' = Taken(out_box) /\ crashed' = crashed
      BY <1>4, <2>4 DEF DrainOut
    <3>2. /\ out_box' \in Box(1 .. TxChars) /\ out_box'.waiting = out_box.waiting
          /\ out_box'.signals = out_box.signals
      BY <1>1, <2>4, <3>1, Take DEF OutType
    <3> QED
      BY <1>1, <1>2, <2>2, <3>1, <3>2 DEF OutType, WellSignalled
  <2> QED
    BY <2>3, <2>4
<1> QED
  BY <1>3, <1>4

\* Taking a message of the receive box for the program keeps the types.
LEMMA ReceiveType ==
    ASSUME UartAssumption, InType, crashed \in BOOLEAN,
           IF Unlinks(in_box)
           THEN crashed' = TRUE /\ UNCHANGED <<in_box, received>>
           ELSE /\ received' = Append(received, Head(in_box.msgs))
                /\ in_box' = Taken(in_box)
                /\ UNCHANGED crashed
    PROVE  InType' /\ crashed' \in BOOLEAN
<1>1. CASE Unlinks(in_box)
  BY <1>1 DEF InType
<1>2. CASE ~ Unlinks(in_box)
  <2>1. Taken(in_box) \in Box(0 .. RxChars) /\ Head(in_box.msgs) \in 0 .. RxChars
    BY <1>2, Take DEF InType
  <2>2. Append(received, Head(in_box.msgs)) \in Seq(0 .. RxChars)
    BY <2>1 DEF InType
  <2> QED
    BY <1>2, <2>1, <2>2 DEF InType
<1> QED
  BY <1>1, <1>2

\* A step of the simulator thread keeps the types.
LEMMA SimThreadType ==
    ASSUME UartType, SimThread
    PROVE  UartType'
<1> USE UartAssumption
<1>1. /\ InType /\ RxType /\ OutType /\ TxType /\ CoreType /\ RegisterType /\ FlagType
      /\ crashed \in BOOLEAN /\ ~ crashed
  BY DEF UartType, SimThread
<1>2. RxType' /\ TxType' /\ UNCHANGED <<run_threads, tx>>
  BY <1>1 DEF SimThread, RxType, TxType, rxSide, txSide
<1>3. ASSUME UNCHANGED <<in_box, received>> PROVE InType'
  BY <1>1, <1>3 DEF InType
<1>4. ASSUME UNCHANGED <<out_box, crashed>> PROVE OutType'
  BY <1>1, <1>2, <1>4 DEF OutType
<1>5. ASSUME UNCHANGED registers PROVE RegisterType'
  BY <1>1, <1>5 DEF RegisterType, registers
<1>6. ASSUME UNCHANGED flags PROVE FlagType'
  BY <1>1, <1>2, <1>6 DEF FlagType, flags
<1>7. ASSUME UNCHANGED crashed PROVE crashed' \in BOOLEAN
  BY <1>1, <1>7
<1>8. ASSUME NEW at \in CoreAt \ {"post"}, To(at), UNCHANGED posted PROVE CoreType'
  BY <1>1, <1>8 DEF To, CoreType
<1>9. CASE ExecNothing
  <2>1. CoreType'
    BY <1>1, <1>9 DEF ExecNothing, CoreType, CoreAt
  <2> QED
    BY <1>2, <1>3, <1>4, <1>5, <1>6, <1>7, <1>9, <2>1 DEF ExecNothing, UartType
<1>10. CASE ExecSend
  <2>1. CoreType'
    BY <1>1, <1>10 DEF ExecSend, To, CoreType, CoreAt
  <2> QED
    BY <1>2, <1>3, <1>4, <1>5, <1>6, <1>7, <1>10, <2>1 DEF ExecSend, UartType
<1>11. CASE SendPost
  <2>1. posted + 1 \in 1 .. TxChars
    BY <1>1, <1>11 DEF SendPost, CoreType
  <2>2. CoreType'
    BY <1>1, <1>11, <2>1 DEF SendPost, To, CoreType, CoreAt
  <2>3. /\ out_box' \in Box(1 .. TxChars) /\ out_box'.waiting = out_box.waiting
        /\ WellSignalled(out_box)'
    BY <1>1, <1>11, <2>1, Post DEF SendPost, OutType
  <2>4. OutType'
    BY <1>1, <1>2, <1>11, <2>3 DEF SendPost, OutType
  <2> QED
    BY <1>2, <1>3, <1>5, <1>6, <1>7, <1>11, <2>2, <2>4 DEF SendPost, UartType
<1>12. CASE ExecRecv
  <2>1. (IF mbox_len(in_box) > 0 THEN "get" ELSE "rxint") \in CoreAt \ {"post"}
    BY DEF CoreAt
  <2> QED
    BY <1>2, <1>3, <1>4, <1>5, <1>6, <1>7, <1>8, <1>12, <2>1 DEF ExecRecv, UartType
<1>13. CASE RecvGet
  <2>1. InType' /\ crashed' \in BOOLEAN
    BY <1>1, <1>13, ReceiveType DEF RecvGet
  <2>2. OutType'
    BY <1>1, <1>2, <1>13, <2>1 DEF RecvGet, OutType
  <2> QED
    BY <1>2, <1>5, <1>6, <1>8, <1>13, <2>1, <2>2 DEF RecvGet, UartType, CoreAt
<1>14. CASE ExecFlag
  <2>1. FlagType'
    BY <1>1, <1>2, <1>14 DEF ExecFlag, FlagType
  <2> QED
    BY <1>2, <1>3, <1>4, <1>5, <1>7, <1>8, <1>14, <2>1 DEF ExecFlag, UartType, CoreAt
<1>15. CASE ExecClear
  <2>1. mbox_len(in_box) \in Nat
    BY <1>1 DEF InType, Box, mbox_len
  <2>2. CoreType'
    BY <1>1, <1>15, <2>1 DEF ExecClear, CoreType, CoreAt
  <2> QED
    BY <1>2, <1>3, <1>4, <1>5, <1>6, <1>7, <1>15, <2>2 DEF ExecClear, UartType
<1>16. CASE ClearGet
  <2>1. OutType' /\ TxType' /\ CoreType' /\ crashed' \in BOOLEAN
    BY <1>1, <1>16, DrainType DEF ClearGet, CoreAt, SimThread
  <2> QED
    BY <1>2, <1>3, <1>5, <1>6, <1>16, <2>1 DEF ClearGet, UartType
<1>17. CASE DataRx
  <2>1. RegisterType'
    BY <1>1, <1>17 DEF DataRx, RxStatus, RegisterType, StatusBit
  <2>2. FlagType'
    BY <1>1, <1>2, <1>17 DEF DataRx, FlagType
  <2> QED
    BY <1>2, <1>3, <1>4, <1>7, <1>8, <1>17, <2>1, <2>2 DEF DataRx, UartType, CoreAt
<1>18. CASE DataTx
  <2>1. RegisterType'
    BY <1>1, <1>18 DEF DataTx, RegisterType, StatusBit
  <2>2. FlagType'
    BY <1>1, <1>2, <1>18 DEF DataTx, FlagType
  <2> QED
    BY <1>2, <1>3, <1>4, <1>7, <1>8, <1>18, <2>1, <2>2 DEF DataTx, UartType, CoreAt
<1>19. CASE Write
  <2>1. RegisterType'
    BY <1>1, <1>19 DEF Write, RegisterType
  <2>2. CoreType'
    BY <1>1, <1>19 DEF Write, CoreType, CoreAt
  <2> QED
    BY <1>2, <1>3, <1>4, <1>6, <1>7, <1>19, <2>1, <2>2 DEF Write, UartType
<1>20. CASE ResetBegins
  <2>1. mbox_len(in_box) \in Nat
    BY <1>1 DEF InType, Box, mbox_len
  <2>2. CoreType'
    BY <1>1, <1>20, <2>1 DEF ResetBegins, CoreType, CoreAt
  <2>3. RegisterType'
    BY <1>20 DEF ResetBegins, RegisterType
  <2> QED
    BY <1>2, <1>3, <1>4, <1>6, <1>7, <1>20, <2>2, <2>3 DEF ResetBegins, UartType
<1>21. CASE ResetIn
  <2>1. mbox_len(out_box) \in Nat
    BY <1>1 DEF OutType, Box, mbox_len
  <2>2. CASE core.n = 0
    <3>1. CoreType'
      BY <1>1, <1>21, <2>1, <2>2 DEF ResetIn, CoreType, CoreAt
    <3> QED
      BY <1>2, <1>3, <1>4, <1>5, <1>6, <1>7, <1>21, <2>2, <3>1 DEF ResetIn, UartType
  <2>3. CASE core.n # 0
    <3>1. core' = [core EXCEPT !.n = core.n - 1] /\ core.n - 1 \in Nat /\ posted' = posted
      BY <1>1, <1>21, <2>3 DEF ResetIn, CoreType
    <3>2. CoreType'
      BY <1>1, <3>1 DEF CoreType
    <3>3. InType' /\ crashed' \in BOOLEAN
      BY <1>1, <1>21, <2>3, ReceiveType DEF ResetIn
    <3>4. OutType'
      BY <1>1, <1>2, <1>21, <3>3 DEF ResetIn, OutType
    <3> QED
      BY <1>2, <1>5, <1>6, <1>21, <3>2, <3>3, <3>4 DEF ResetIn, UartType
  <2> QED
    BY <2>2, <2>3
<1>22. CASE ResetOut
  <2>1. OutType' /\ TxType' /\ CoreType' /\ crashed' \in BOOLEAN
    BY <1>1, <1>22, DrainType DEF ResetOut, CoreAt, SimThread
  <2> QED
    BY <1>2, <1>3, <1>5, <1>6, <1>22, <2>1 DEF ResetOut, UartType
<1>23. CASE ResetCore
  <2>1. FlagType'
    BY <1>1, <1>2, <1>23 DEF ResetCore, FlagType
  <2> QED
    BY <1>2, <1>3, <1>4, <1>5, <1>7, <1>8, <1>23, <2>1 DEF ResetCore, UartType, CoreAt
<1> QED
  BY <1>9, <1>10, <1>11, <1>12, <1>13, <1>14, <1>15, <1>16, <1>17, <1>18, <1>19, <1>20, <1>21,
     <1>22, <1>23 DEF SimThread

\* Quitting and joining keep the types.
LEMMA DeinitType ==
    ASSUME UartType, Quit \/ Join
    PROVE  UartType'
<1>1. /\ InType /\ RxType /\ OutType /\ TxType /\ CoreType /\ RegisterType /\ FlagType
      /\ crashed \in BOOLEAN
  BY DEF UartType
<1>2. UNCHANGED <<in_box, out_box, registers, flags, crashed, posted, received, rxSide, txSide>>
  BY DEF Quit, Join
<1>3. InType' /\ RxType' /\ OutType' /\ TxType'
  BY <1>1, <1>2 DEF InType, RxType, OutType, TxType, rxSide, txSide
<1>4. RegisterType' /\ crashed' \in BOOLEAN
  BY <1>1, <1>2 DEF RegisterType, registers
<1>5. FlagType'
  BY <1>1, <1>2 DEF FlagType, flags, Quit, Join
<1>6. CoreType'
  BY <1>1, <1>2 DEF CoreType, CoreAt, Quit, Join, To
<1> QED
  BY <1>3, <1>4, <1>5, <1>6 DEF UartType

LEMMA UartTypeStep ==
    ASSUME UartType, [Next]_vars
    PROVE  UartType'
<1>1. CASE UNCHANGED vars
  BY <1>1 DEF vars, UartType, InType, RxType, OutType, TxType, CoreType, RegisterType, FlagType,
              registers, flags
<1> QED
  BY <1>1, RxThreadType, TxThreadType, SimThreadType, DeinitType DEF Next

\* The specification without its fairness, for the programs that run on the UART.
Steps == Init /\ [][Next]_vars

LEMMA SpecSteps == Spec => Steps
  BY PTL DEF Spec, Steps

LEMMA UartTypeAlways == Steps => []UartType
  BY UartTypeInit, UartTypeStep, PTL DEF Steps

\* Every variable of the UART stays within its type (sim_cp_uart_state_t and the
\* locals of the two threads), in every run.
THEOREM UartTypeCorrect == Spec => []TypeOK
<1>1. UartType => TypeOK
  <2> SUFFICES ASSUME UartType PROVE TypeOK
    OBVIOUS
  <2>1. /\ in_box \in Box(0 .. RxChars) /\ out_box \in Box(1 .. TxChars)
        /\ CTL \subseteq CtlBit /\ STATUS \subseteq StatusBit
        /\ accepted \in Seq(0 .. RxChars) /\ received \in Seq(0 .. RxChars)
        /\ sent \in Seq(1 .. TxChars)
        /\ arrived \in 0 .. RxChars /\ posted \in 0 .. TxChars
    BY DEF UartType, InType, OutType, RegisterType, RxType, TxType, CoreType
  <2>2. /\ rx \in [at : {"poll", "used", "decide", "post", "done"}, c : 0 .. RxChars, used : Nat]
        /\ tx \in [at : {"loop", "wait", "write", "done"}, c : 0 .. TxChars]
    BY DEF UartType, RxType, TxType
  <2>3. core \in [at : CoreAt, n : Nat, op : {"NOOP", "WRITE"}]
    BY DEF UartType, CoreType
  <2>4. {fifo_en, rx_raised, tx_raised, run_threads, line, crashed} \subseteq BOOLEAN
    BY DEF UartType, FlagType
  <2> QED
    BY <2>1, <2>2, <2>3, <2>4 DEF TypeOK, CoreAt
<1> QED
  BY <1>1, UartTypeAlways, SpecSteps, PTL

(***************************************************************************)
(* Lengths: who makes a box longer, and who shorter.                       *)
(***************************************************************************)

LEMMA Lengths ==
    ASSUME UartType
    PROVE  mbox_len(in_box) \in Nat /\ mbox_len(out_box) \in Nat
  BY DEF UartType, InType, OutType, Box, mbox_len

\* The transmit thread never makes its box longer.
LEMMA TxThreadShrinks ==
    ASSUME UartType, TxThread
    PROVE  mbox_len(out_box)' <= mbox_len(out_box)
<1>1. /\ out_box \in Box(1 .. TxChars) /\ WellSignalled(out_box)
      /\ tx.at # "wait" => out_box.waiting = 0
      /\ mbox_len(out_box) \in Nat
  BY Lengths DEF UartType, OutType, TxThread, Box
<1>2. ASSUME NEW box \in Box(1 .. TxChars), box.msgs = out_box.msgs, TxTake(box)
      PROVE  mbox_len(out_box)' <= mbox_len(out_box)
  <2>1. Len(box.msgs) = mbox_len(out_box)
    BY <1>2 DEF mbox_len
  <2>2. CASE Unlinks(box)
    BY <1>1, <1>2, <2>1, <2>2 DEF TxTake, mbox_len
  <2>3. CASE ~ Unlinks(box)
    <3>1. out_box' = Taken(box) /\ Len(Taken(box).msgs) = Len(box.msgs) - 1
      BY <1>2, <2>3, Take DEF TxTake
    <3>2. mbox_len(out_box)' = mbox_len(out_box) - 1
      BY <2>1, <3>1 DEF mbox_len
    <3> QED
      BY <1>1, <3>2
  <2> QED
    BY <2>2, <2>3
<1>3. CASE TxGet
  BY <1>1, <1>2, <1>3 DEF TxGet
<1>4. CASE TxSignalled
  BY <1>1, <1>2, <1>4, Waiting DEF TxSignalled
<1>5. CASE TxSpurious
  BY <1>1, <1>2, <1>5, Waiting DEF TxSpurious
<1>6. CASE TxWait \/ TxTimeout \/ TxWrite \/ TxFinish
  <2>1. out_box'.msgs = out_box.msgs
    BY <1>1, <1>6, Waiting DEF TxWait, TxTimeout, TxWrite, TxFinish
  <2> QED
    BY <1>1, <2>1 DEF mbox_len
<1> QED
  BY <1>3, <1>4, <1>5, <1>6 DEF TxThread

\* The receive thread adds to its box at one place.
LEMMA RxPostGrows ==
    ASSUME UartType, RxPost
    PROVE  mbox_len(in_box)' = mbox_len(in_box) + 1
<1>1. in_box \in Box(0 .. RxChars) /\ rx.c \in 0 .. RxChars
  BY DEF UartType, InType, RxType
<1>2. Len(mbox_msg_post(in_box, rx.c).msgs) = Len(in_box.msgs) + 1
  BY <1>1, Post
<1> QED
  BY <1>2 DEF RxPost, mbox_len

\* The simulator thread takes from the receive box at two places only.
LEMMA SimThreadIn ==
    ASSUME UartType, SimThread
    PROVE  /\ mbox_len(in_box)' <= mbox_len(in_box)
           /\ core.at \notin {"get", "resetin"} => in_box' = in_box
<1>1. in_box \in Box(0 .. RxChars) /\ mbox_len(in_box) \in Nat
  BY Lengths DEF UartType, InType
<1>2. CASE RecvGet \/ ResetIn
  <2>1. CASE in_box' = in_box
    BY <1>1, <2>1
  <2>2. CASE in_box' = Taken(in_box) /\ ~ Unlinks(in_box)
    <3>1. mbox_len(in_box)' = mbox_len(in_box) - 1
      BY <1>1, <2>2, Take DEF mbox_len
    <3> QED
      BY <1>1, <1>2, <3>1 DEF RecvGet, ResetIn
  <2> QED
    BY <1>2, <2>1, <2>2 DEF RecvGet, ResetIn
<1>3. CASE ~ (RecvGet \/ ResetIn)
  <2>1. in_box' = in_box
    BY <1>3 DEF SimThread, ExecNothing, ExecSend, SendPost, ExecRecv, ExecFlag, ExecClear,
                ClearGet, DataRx, DataTx, Write, ResetBegins, ResetOut, ResetCore
  <2> QED
    BY <1>1, <2>1
<1> QED
  BY <1>2, <1>3

\* It adds to the transmit box at one place, which it comes to only when it has
\* seen room there.
LEMMA SimThreadOut ==
    ASSUME UartType, SimThread
    PROVE  /\ core.at # "post" => mbox_len(out_box)' <= mbox_len(out_box)
           /\ core.at = "post" => /\ mbox_len(out_box)' = mbox_len(out_box) + 1
                                  /\ core'.at = "rxint"
           /\ core'.at = "post" => out_box' = out_box /\ mbox_len(out_box) < FIFO_LEN
           /\ core.at \notin {"post", "clear", "resetout"} => out_box' = out_box
<1>1. /\ out_box \in Box(1 .. TxChars) /\ mbox_len(out_box) \in Nat
      /\ CoreType /\ core \in [at : CoreAt, n : Nat, op : {"NOOP", "WRITE"}]
  BY Lengths DEF UartType, OutType, CoreType
<1>2. CASE SendPost
  <2>1. posted + 1 \in 1 .. TxChars
    BY <1>1, <1>2, UartAssumption DEF SendPost, CoreType
  <2>2. mbox_len(out_box)' = mbox_len(out_box) + 1
    BY <1>1, <1>2, <2>1, Post DEF SendPost, mbox_len
  <2> QED
    BY <1>1, <1>2, <2>2 DEF SendPost, To
<1>3. CASE ClearGet \/ ResetOut
  <2>1. core.at \in {"clear", "resetout"} /\ core'.at # "post"
    BY <1>1, <1>3 DEF ClearGet, ResetOut, DrainOut, To
  <2>2. CASE out_box' = out_box
    BY <1>1, <2>1, <2>2
  <2>3. CASE out_box' = Taken(out_box) /\ ~ Unlinks(out_box)
    <3>1. mbox_len(out_box)' = mbox_len(out_box) - 1
      BY <1>1, <2>3, Take DEF mbox_len
    <3> QED
      BY <1>1, <2>1, <3>1
  <2> QED
    BY <1>3, <2>2, <2>3 DEF ClearGet, ResetOut, DrainOut
<1>4. CASE ExecSend
  BY <1>1, <1>4 DEF ExecSend, Issue, To
<1>5. CASE ~ (SendPost \/ ClearGet \/ ResetOut \/ ExecSend)
  <2>1. out_box' = out_box /\ core.at # "post"
    BY <1>5 DEF SimThread, ExecNothing, ExecRecv, RecvGet, ExecFlag, ExecClear, Issue, DataRx,
                DataTx, Write, ResetBegins, ResetIn, ResetCore
  <2>2. core'.at # "post"
    BY <1>1, <1>5 DEF SimThread, ExecNothing, ExecRecv, RecvGet, ExecFlag, ExecClear, DataRx,
                      DataTx, Write, ResetBegins, ResetIn, ResetCore, To
  <2> QED
    BY <1>1, <2>1, <2>2
<1> QED
  BY <1>2, <1>3, <1>4, <1>5

(***************************************************************************)
(* A box is as long as it was when its length was read, or shorter, until  *)
(* the one thread that adds to it has done so.                             *)
(***************************************************************************)

BoundInv ==
    /\ BoxesBounded
    /\ rx.at = "decide" => mbox_len(in_box) <= rx.used
    /\ rx.at = "post" => mbox_len(in_box) < FIFO_LEN
    /\ core.at = "post" => mbox_len(out_box) < FIFO_LEN

LEMMA BoundInvInit == Init => BoundInv
  BY UartAssumption DEF Init, BoundInv, BoxesBounded, mbox_len, mbox_init

LEMMA BoundInvStep ==
    ASSUME UartType, BoundInv, [Next]_vars
    PROVE  BoundInv'
<1> USE DEF BoundInv, BoxesBounded
<1>1. /\ FIFO_LEN \in Nat /\ FIFO_LEN > 0
      /\ mbox_len(in_box) \in Nat /\ mbox_len(out_box) \in Nat
      /\ mbox_len(in_box)' \in Nat /\ mbox_len(out_box)' \in Nat
  <2>1. UartType'
    BY UartTypeStep
  <2>2. mbox_len(in_box)' \in Nat /\ mbox_len(out_box)' \in Nat
    BY <2>1 DEF UartType, InType, OutType, Box, mbox_len
  <2> QED
    BY <2>2, Lengths, UartAssumption
<1>2. RxType /\ in_box \in Box(0 .. RxChars)
  BY DEF UartType, InType
<1>3. CASE RxThread
  <2>1. UNCHANGED <<out_box, core>>
    BY <1>3 DEF RxThread
  <2>2. mbox_len(out_box)' <= FIFO_LEN /\ (core'.at = "post" => mbox_len(out_box)' < FIFO_LEN)
    BY <2>1 DEF mbox_len
  <2>3. CASE RxRead \/ RxReadInterrupted \/ RxReadFails \/ RxFinish
    BY <1>2, <2>2, <2>3 DEF RxRead, RxReadInterrupted, RxReadFails, RxFinish, RxType, mbox_len
  <2>4. CASE RxUsed
    BY <1>1, <1>2, <2>2, <2>4 DEF RxUsed, RxType, mbox_len
  <2>5. CASE RxDecide
    <3>1. mbox_len(in_box)' = mbox_len(in_box) /\ rx.used \in Nat
      BY <1>2, <2>5 DEF RxDecide, RxType, mbox_len
    <3>2. CASE Room
      <4>1. mbox_len(in_box) < FIFO_LEN
        BY <1>1, <2>5, <3>1, <3>2 DEF RxDecide, Room
      <4> QED
        BY <1>2, <2>2, <2>5, <3>1, <3>2, <4>1 DEF RxDecide, RxType
    <3>3. CASE ~ Room
      BY <1>2, <2>2, <2>5, <3>1, <3>3 DEF RxDecide, RxType
    <3> QED
      BY <3>2, <3>3
  <2>6. CASE RxPost
    <3>1. mbox_len(in_box)' = mbox_len(in_box) + 1 /\ mbox_len(in_box) < FIFO_LEN
      BY <2>6, RxPostGrows DEF RxPost
    <3> QED
      BY <1>1, <1>2, <2>2, <2>6, <3>1 DEF RxPost, RxType
  <2> QED
    BY <1>3, <2>3, <2>4, <2>5, <2>6 DEF RxThread
<1>4. CASE TxThread
  <2>1. UNCHANGED <<in_box, rx, core>> /\ mbox_len(out_box)' <= mbox_len(out_box)
    BY <1>4, TxThreadShrinks DEF TxThread, rxSide
  <2> QED
    BY <1>1, <2>1 DEF mbox_len
<1>5. CASE SimThread
  <2>1. UNCHANGED rx /\ mbox_len(in_box)' <= mbox_len(in_box)
    BY <1>5, SimThreadIn DEF SimThread, rxSide
  <2>2. mbox_len(in_box)' <= FIFO_LEN /\ (rx'.at = "decide" => mbox_len(in_box)' <= rx'.used)
        /\ (rx'.at = "post" => mbox_len(in_box)' < FIFO_LEN)
    BY <1>1, <1>2, <2>1 DEF RxType
  <2>3. CASE core.at = "post"
    <3>1. mbox_len(out_box)' = mbox_len(out_box) + 1 /\ core'.at = "rxint"
      BY <1>5, <2>3, SimThreadOut
    <3> QED
      BY <1>1, <2>2, <2>3, <3>1
  <2>4. CASE core.at # "post"
    <3>1. mbox_len(out_box)' <= mbox_len(out_box)
      BY <1>5, <2>4, SimThreadOut
    <3>2. core'.at = "post" => mbox_len(out_box)' < FIFO_LEN
      BY <1>5, SimThreadOut DEF mbox_len
    <3> QED
      BY <1>1, <2>2, <3>1, <3>2
  <2> QED
    BY <2>3, <2>4
<1>6. CASE Quit \/ Join
  <2>1. UNCHANGED <<in_box, out_box, rx>> /\ core'.at # "post"
    <3>1. CoreType
      BY DEF UartType
    <3> QED
      BY <1>6, <3>1 DEF Quit, Join, rxSide, To, CoreType
  <2> QED
    BY <2>1 DEF mbox_len
<1>7. CASE UNCHANGED vars
  BY <1>7 DEF vars, mbox_len
<1> QED
  BY <1>3, <1>4, <1>5, <1>6, <1>7 DEF Next

\* Neither box ever holds more than FIFO_LEN characters, for every FIFO_LEN and
\* whatever the program and the user do, though the lengths are read without the
\* lock (rx_thr_fun, SEND).
THEOREM BoxesBoundedAlways == Spec => []BoxesBounded
<1>1. BoundInv => BoxesBounded
  BY DEF BoundInv
<1> QED
  BY <1>1, BoundInvInit, BoundInvStep, UartTypeAlways, PTL DEF Spec, Steps

(***************************************************************************)
(* The program's thread is the only one that takes from the receive box    *)
(* and the only one that adds to the transmit box, so what it reads in     *)
(* STATUS can only have become more true.                                  *)
(***************************************************************************)

StatusInv ==
    /\ core.at \in {"txint", "write", "exec"} /\ "RX_AVAIL" \in STATUS => mbox_len(in_box) > 0
    /\ core.at \in {"write", "exec"} /\ "TX_SPACE" \in STATUS => mbox_len(out_box) < FIFO_LEN
    /\ core.at \in {"resetin", "resetout", "resetcore"} => STATUS = {}

LEMMA StatusInvInit == Init => StatusInv
  BY DEF Init, StatusInv

LEMMA StatusInvStep ==
    ASSUME UartType, StatusInv, [Next]_vars
    PROVE  StatusInv'
<1> USE DEF StatusInv
<1>1. /\ FIFO_LEN \in Nat /\ FIFO_LEN > 0
      /\ mbox_len(in_box) \in Nat /\ mbox_len(out_box) \in Nat
      /\ mbox_len(in_box)' \in Nat /\ mbox_len(out_box)' \in Nat
  <2>1. UartType'
    BY UartTypeStep
  <2>2. mbox_len(in_box)' \in Nat /\ mbox_len(out_box)' \in Nat
    BY <2>1 DEF UartType, InType, OutType, Box, mbox_len
  <2> QED
    BY <2>2, Lengths, UartAssumption
<1>2. CoreType
  BY DEF UartType
<1>3. CASE RxThread
  <2>1. UNCHANGED <<out_box, core, STATUS>>
    BY <1>3 DEF RxThread, registers
  <2>2. mbox_len(in_box)' >= mbox_len(in_box)
    <3>1. CASE RxPost
      BY <1>1, <3>1, RxPostGrows
    <3>2. CASE ~ RxPost
      <4>1. in_box' = in_box
        BY <1>3, <3>2 DEF RxThread, RxRead, RxReadInterrupted, RxReadFails, RxUsed, RxDecide,
                          RxFinish
      <4> QED
        BY <1>1, <4>1 DEF mbox_len
    <3> QED
      BY <3>1, <3>2
  <2> QED
    BY <1>1, <2>1, <2>2 DEF mbox_len
<1>4. CASE TxThread
  <2>1. UNCHANGED <<in_box, core, STATUS>> /\ mbox_len(out_box)' <= mbox_len(out_box)
    BY <1>4, TxThreadShrinks DEF TxThread, registers
  <2> QED
    BY <1>1, <2>1 DEF mbox_len
<1>5. CASE SimThread
  <2>1. CASE DataRx
    BY <1>1, <1>2, <2>1 DEF DataRx, RxStatus, To, CoreType, mbox_len
  <2>2. CASE DataTx
    <3>1. /\ UNCHANGED <<in_box, out_box>> /\ core'.at = "write" /\ core.at = "txint"
          /\ STATUS' \in {STATUS \cup {"TX_SPACE"}, STATUS \ {"TX_SPACE"}}
          /\ "TX_SPACE" \in STATUS' => mbox_len(out_box) < FIFO_LEN
      BY <1>1, <1>2, <2>2 DEF DataTx, To, CoreType
    <3> QED
      BY <3>1 DEF mbox_len
  <2>3. CASE Write
    BY <1>2, <2>3 DEF Write, CoreType, mbox_len
  <2>4. CASE ResetBegins
    BY <1>2, <2>4 DEF ResetBegins, CoreType
  <2>5. CASE ResetIn \/ ResetOut \/ ResetCore
    BY <1>2, <2>5 DEF ResetIn, ResetOut, ResetCore, DrainOut, To, CoreType, registers
  <2>6. CASE ~ (DataRx \/ DataTx \/ Write \/ ResetBegins \/ ResetIn \/ ResetOut \/ ResetCore)
    <3>1. core'.at \in {"post", "get", "clear", "rxint"}
      BY <1>2, <1>5, <2>6 DEF SimThread, ExecNothing, ExecSend, SendPost, ExecRecv, RecvGet,
                              ExecFlag, ExecClear, ClearGet, DrainOut, To, CoreType
    <3> QED
      BY <3>1
  <2> QED
    BY <2>1, <2>2, <2>3, <2>4, <2>5, <2>6
<1>6. CASE Quit \/ Join
  <2>1. core'.at \in {"joinrx", "jointx", "done"}
    BY <1>2, <1>6 DEF Quit, Join, To, CoreType
  <2> QED
    BY <2>1
<1>7. CASE UNCHANGED vars
  BY <1>7 DEF vars, registers, mbox_len
<1> QED
  BY <1>3, <1>4, <1>5, <1>6, <1>7 DEF Next

\* What STATUS promises is true whenever the program acts on it, however the threads
\* run meanwhile (uart_state_data, exec of the next cycle), resets included.
THEOREM StatusHonestAlways == Spec => []StatusHonest
<1>1. StatusInv => StatusHonest
  BY DEF StatusInv, StatusHonest
<1> QED
  BY <1>1, StatusInvInit, StatusInvStep, UartTypeAlways, PTL DEF Spec, Steps

(***************************************************************************)
(* The order of the characters: none is lost, doubled or overtaken, and the*)
(* readers take from no empty box.                                         *)
(***************************************************************************)

(***************************************************************************)
(* Sequences.                                                              *)
(***************************************************************************)

\* Every element of s comes before n.
Below(s, n) == \A i \in DOMAIN s : s[i] < n

\* Every element of s comes before every element of t.
AllBelow(s, t) == \A i \in DOMAIN s, j \in DOMAIN t : s[i] < t[j]

LEMMA AppendElements ==
    ASSUME NEW S, NEW s \in Seq(S), NEW m \in S
    PROVE  /\ Append(s, m) \in Seq(S)
           /\ DOMAIN s = 1 .. Len(s) /\ Len(s) \in Nat
           /\ DOMAIN Append(s, m) = 1 .. Len(s) + 1
           /\ \A i \in 1 .. Len(s) : Append(s, m)[i] = s[i]
           /\ Append(s, m)[Len(s) + 1] = m
  BY AppendProperties, LenProperties

LEMMA TailElements ==
    ASSUME NEW S, NEW s \in Seq(S), s # <<>>
    PROVE  /\ Tail(s) \in Seq(S) /\ Head(s) \in S
           /\ Len(s) \in Nat /\ Len(s) > 0
           /\ DOMAIN s = 1 .. Len(s)
           /\ DOMAIN Tail(s) = 1 .. Len(s) - 1
           /\ \A i \in 1 .. Len(s) - 1 : Tail(s)[i] = s[i + 1]
           /\ Head(s) = s[1]
<1>1. /\ Head(s) \in S /\ Tail(s) \in Seq(S) /\ Len(Tail(s)) = Len(s) - 1
      /\ \A i \in 1 .. Len(Tail(s)) : Tail(s)[i] = s[i + 1]
  BY HeadTailProperties
<1>2. DOMAIN s = 1 .. Len(s) /\ DOMAIN Tail(s) = 1 .. Len(Tail(s)) /\ Len(s) \in Nat
  BY <1>1, LenProperties
<1>3. Len(s) > 0
  BY EmptySeq, <1>2
<1> QED
  BY <1>1, <1>2, <1>3

\* An increasing sequence stays so when a greater element is appended ...
LEMMA IncreasingAppend ==
    ASSUME NEW s \in Seq(Nat), NEW m \in Nat, Increasing(s), Below(s, m)
    PROVE  Increasing(Append(s, m))
<1> DEFINE t == Append(s, m)
<1>1. /\ DOMAIN t = 1 .. Len(s) + 1 /\ DOMAIN s = 1 .. Len(s) /\ Len(s) \in Nat
      /\ \A i \in 1 .. Len(s) : t[i] = s[i]
      /\ t[Len(s) + 1] = m
  BY AppendElements
<1> HIDE DEF t
<1> SUFFICES ASSUME NEW i \in DOMAIN t, NEW j \in DOMAIN t, i < j PROVE t[i] < t[j]
  BY DEF Increasing, t
<1>2. i \in 1 .. Len(s) /\ t[i] = s[i]
  BY <1>1
<1>3. CASE j = Len(s) + 1
  BY <1>1, <1>2, <1>3 DEF Below
<1>4. CASE j \in 1 .. Len(s)
  BY <1>1, <1>2, <1>4 DEF Increasing
<1> QED
  BY <1>1, <1>3, <1>4

\* ... and when its first is taken, which comes before the others.
LEMMA IncreasingTail ==
    ASSUME NEW s \in Seq(Nat), s # <<>>, Increasing(s)
    PROVE  /\ Increasing(Tail(s))
           /\ \A j \in DOMAIN Tail(s) : Head(s) < Tail(s)[j]
<1>1. /\ DOMAIN s = 1 .. Len(s) /\ Len(s) \in Nat /\ Len(s) > 0
      /\ DOMAIN Tail(s) = 1 .. Len(s) - 1
      /\ \A i \in 1 .. Len(s) - 1 : Tail(s)[i] = s[i + 1]
      /\ Head(s) = s[1]
  BY TailElements
<1>2. ASSUME NEW i \in DOMAIN Tail(s), NEW j \in DOMAIN Tail(s), i < j
      PROVE  Tail(s)[i] < Tail(s)[j]
  <2>1. i + 1 \in DOMAIN s /\ j + 1 \in DOMAIN s /\ i + 1 < j + 1
    BY <1>1, <1>2
  <2>2. s[i + 1] < s[j + 1]
    BY <2>1 DEF Increasing
  <2> QED
    BY <1>1, <2>2
<1>3. ASSUME NEW j \in DOMAIN Tail(s) PROVE Head(s) < Tail(s)[j]
  <2>1. 1 \in DOMAIN s /\ j + 1 \in DOMAIN s /\ 1 < j + 1
    BY <1>1
  <2>2. s[1] < s[j + 1]
    BY <2>1 DEF Increasing
  <2> QED
    BY <1>1, <2>2
<1> QED
  BY <1>2, <1>3 DEF Increasing

LEMMA BelowAppend ==
    ASSUME NEW s \in Seq(Nat), NEW m \in Nat, NEW n \in Nat, Below(s, n), m < n
    PROVE  Below(Append(s, m), n)
  BY AppendElements DEF Below

LEMMA BelowTail ==
    ASSUME NEW s \in Seq(Nat), s # <<>>, NEW n \in Nat, Below(s, n)
    PROVE  Below(Tail(s), n) /\ Head(s) < n
  BY TailElements DEF Below

LEMMA AllBelowAppend ==
    ASSUME NEW s \in Seq(Nat), NEW t \in Seq(Nat), NEW m \in Nat, AllBelow(s, t)
    PROVE  /\ Below(s, m) => AllBelow(s, Append(t, m))
           /\ (\A j \in DOMAIN t : m < t[j]) => AllBelow(Append(s, m), t)
<1>1. ASSUME Below(s, m) PROVE AllBelow(s, Append(t, m))
  BY <1>1, AppendElements DEF AllBelow, Below
<1>2. ASSUME \A j \in DOMAIN t : m < t[j] PROVE AllBelow(Append(s, m), t)
  BY <1>2, AppendElements DEF AllBelow
<1> QED
  BY <1>1, <1>2

LEMMA AllBelowTail ==
    ASSUME NEW s \in Seq(Nat), NEW t \in Seq(Nat), t # <<>>, AllBelow(s, t)
    PROVE  AllBelow(s, Tail(t)) /\ Below(s, Head(t))
<1>1. /\ DOMAIN t = 1 .. Len(t) /\ Len(t) \in Nat /\ Len(t) > 0
      /\ DOMAIN Tail(t) = 1 .. Len(t) - 1
      /\ \A i \in 1 .. Len(t) - 1 : Tail(t)[i] = t[i + 1]
      /\ Head(t) = t[1]
  BY TailElements
<1>2. ASSUME NEW i \in DOMAIN s, NEW j \in DOMAIN Tail(t) PROVE s[i] < Tail(t)[j]
  <2>1. j + 1 \in DOMAIN t /\ Tail(t)[j] = t[j + 1]
    BY <1>1
  <2> QED
    BY <2>1 DEF AllBelow
<1>3. ASSUME NEW i \in DOMAIN s PROVE s[i] < Head(t)
  <2>1. 1 \in DOMAIN t /\ Head(t) = t[1]
    BY <1>1
  <2> QED
    BY <2>1 DEF AllBelow
<1> QED
  BY <1>2, <1>3 DEF AllBelow, Below

(***************************************************************************)
(* What is written, what is about to be and what waits are in the order of *)
(* posting, whatever CLEAR or a reset takes out of the middle.             *)
(***************************************************************************)

Queue == out_box.msgs

SentInv ==
    /\ Increasing(sent) /\ Below(sent, posted + 1)
    /\ Increasing(Queue) /\ Below(Queue, posted + 1)
    /\ AllBelow(sent, Queue)
    /\ tx.at = "write" =>
         /\ Below(sent, tx.c) /\ tx.c < posted + 1
         /\ \A j \in DOMAIN Queue : tx.c < Queue[j]

SentTypes ==
    /\ sent \in Seq(Nat) /\ Queue \in Seq(Nat) /\ posted \in Nat
    /\ tx.at = "write" => tx.c \in Nat
    /\ out_box \in Box(1 .. TxChars) /\ Queue \in Seq(1 .. TxChars)
    /\ tx \in [at : {"loop", "wait", "write", "done"}, c : 0 .. TxChars]

LEMMA SentTypesHold == UartType => SentTypes
<1> SUFFICES ASSUME UartType PROVE SentTypes
  OBVIOUS
<1>1. /\ sent \in Seq(1 .. TxChars) /\ Queue \in Seq(1 .. TxChars) /\ posted \in 0 .. TxChars
      /\ tx.at = "write" => tx.c \in 1 .. TxChars
      /\ out_box \in Box(1 .. TxChars)
      /\ tx \in [at : {"loop", "wait", "write", "done"}, c : 0 .. TxChars]
  BY DEF UartType, OutType, TxType, CoreType, Box, Queue
<1>2. sent \in Seq(Nat) /\ Queue \in Seq(Nat)
  <2>1. 1 .. TxChars \subseteq Nat
    BY UartAssumption
  <2> QED
    BY <1>1, <2>1, SeqMonotonic
<1>3. posted \in Nat /\ (tx.at = "write" => tx.c \in Nat)
  BY <1>1, UartAssumption
<1> QED
  BY <1>1, <1>2, <1>3 DEF SentTypes

LEMMA SentInvInit == Init => SentInv
<1> SUFFICES ASSUME Init PROVE SentInv
  OBVIOUS
<1>1. sent = <<>> /\ Queue = <<>> /\ posted = 0 /\ tx.at # "write"
  BY DEF Init, Queue, mbox_init
<1>2. DOMAIN <<>> = {}
  OBVIOUS
<1> QED
  BY <1>1, <1>2, Zenon DEF SentInv, Increasing, Below, AllBelow

\* Handing the first message out, to be written or to be thrown away.
LEMMA QueueShrinks ==
    ASSUME SentTypes, SentInv, Queue # <<>>, Queue' = Tail(Queue), UNCHANGED <<sent, posted>>
    PROVE  /\ Increasing(Queue') /\ Below(Queue', posted + 1)
           /\ AllBelow(sent, Queue')
           /\ Below(sent, Head(Queue)) /\ Head(Queue) < posted + 1
           /\ \A j \in DOMAIN Queue' : Head(Queue) < Queue'[j]
           /\ \A n \in Nat : (\A j \in DOMAIN Queue : n < Queue[j])
                              => \A j \in DOMAIN Queue' : n < Queue'[j]
<1> USE DEF SentTypes, SentInv
<1>1. posted + 1 \in Nat
  OBVIOUS
<1>2. Increasing(Queue') /\ \A j \in DOMAIN Queue' : Head(Queue) < Queue'[j]
  BY IncreasingTail
<1>3. Below(Queue', posted + 1) /\ Head(Queue) < posted + 1
  BY <1>1, BelowTail
<1>4. AllBelow(sent, Queue') /\ Below(sent, Head(Queue))
  BY AllBelowTail
<1>5. ASSUME NEW n \in Nat, \A j \in DOMAIN Queue : n < Queue[j], NEW j \in DOMAIN Queue'
      PROVE  n < Queue'[j]
  <2>1. /\ DOMAIN Queue = 1 .. Len(Queue) /\ DOMAIN Queue' = 1 .. Len(Queue) - 1
        /\ Len(Queue) \in Nat
        /\ \A i \in 1 .. Len(Queue) - 1 : Queue'[i] = Queue[i + 1]
    BY TailElements
  <2>2. j + 1 \in DOMAIN Queue /\ Queue'[j] = Queue[j + 1]
    BY <2>1
  <2> QED
    BY <1>5, <2>2
<1> QED
  BY <1>2, <1>3, <1>4, <1>5

LEMMA SentInvTake ==
    ASSUME SentTypes, SentInv, NEW box \in Box(1 .. TxChars), box.msgs = Queue,
           tx.at # "write", TxTake(box), UNCHANGED <<sent, posted>>
    PROVE  SentInv'
<1>1. CASE Unlinks(box)
  <2>1. Queue' = Queue /\ tx' = tx
    BY <1>1 DEF TxTake, Queue
  <2> QED
    BY <2>1 DEF SentInv
<1>2. CASE ~ Unlinks(box)
  <2>1. /\ Queue # <<>> /\ Queue' = Tail(Queue)
        /\ tx' = [at |-> "write", c |-> Head(Queue)]
    BY <1>2, Take DEF TxTake, Queue, Unlinks
  <2>2. tx'.c = Head(Queue)
    BY <2>1
  <2>3. /\ Increasing(Queue') /\ Below(Queue', posted + 1) /\ AllBelow(sent, Queue')
        /\ Below(sent, tx'.c) /\ tx'.c < posted + 1
        /\ \A j \in DOMAIN Queue' : tx'.c < Queue'[j]
    BY <2>1, <2>2, QueueShrinks
  <2> QED
    BY <2>2, <2>3 DEF SentInv
<1> QED
  BY <1>1, <1>2

LEMMA SentInvTxThread ==
    ASSUME UartType, SentInv, TxThread
    PROVE  SentInv'
<1>1. SentTypes /\ WellSignalled(out_box)
  BY SentTypesHold DEF UartType, OutType
<1>2. out_box \in Box(1 .. TxChars) /\ posted' = posted
  BY <1>1 DEF SentTypes, TxThread
<1>3. CASE TxGet
  BY <1>1, <1>2, <1>3, SentInvTake DEF TxGet, Queue
<1>4. CASE TxSignalled
  <2>1. WaitSignalled(out_box) \in Box(1 .. TxChars) /\ WaitSignalled(out_box).msgs = Queue
    BY <1>1, <1>2, <1>4, Waiting DEF TxSignalled, Queue
  <2> QED
    BY <1>1, <1>2, <1>4, <2>1, SentInvTake DEF TxSignalled
<1>5. CASE TxSpurious
  <2>1. WaitExpires(out_box) \in Box(1 .. TxChars) /\ WaitExpires(out_box).msgs = Queue
    BY <1>1, <1>2, <1>5, Waiting DEF TxSpurious, Queue
  <2> QED
    BY <1>1, <1>2, <1>5, <2>1, SentInvTake DEF TxSpurious
<1>6. CASE TxWait \/ TxTimeout \/ TxFinish
  <2>1. Queue' = Queue
    BY <1>1, <1>2, <1>6, Waiting DEF TxWait, TxTimeout, TxFinish, Queue
  <2>2. tx'.at # "write" /\ sent' = sent
    BY <1>1, <1>6 DEF TxWait, TxTimeout, TxFinish, SentTypes
  <2> QED
    BY <1>2, <2>1, <2>2 DEF SentInv
<1>7. CASE TxWrite
  <2>1. /\ sent' = Append(sent, tx.c) /\ tx'.at # "write" /\ Queue' = Queue
        /\ tx.at = "write"
    BY <1>1, <1>7 DEF TxWrite, SentTypes, Queue
  <2>2. /\ Increasing(sent) /\ Below(sent, tx.c) /\ tx.c < posted + 1 /\ tx.c \in Nat
        /\ Below(sent, posted + 1) /\ posted + 1 \in Nat
        /\ \A j \in DOMAIN Queue : tx.c < Queue[j]
        /\ sent \in Seq(Nat) /\ Queue \in Seq(Nat) /\ AllBelow(sent, Queue)
    BY <1>1, <2>1 DEF SentInv, SentTypes
  <2>3. Increasing(sent')
    BY <2>1, <2>2, IncreasingAppend
  <2>4. Below(sent', posted + 1)
    BY <2>1, <2>2, BelowAppend
  <2>5. AllBelow(sent', Queue)
    BY <2>1, <2>2, AllBelowAppend
  <2> QED
    BY <1>2, <2>1, <2>3, <2>4, <2>5 DEF SentInv
<1> QED
  BY <1>3, <1>4, <1>5, <1>6, <1>7 DEF TxThread

\* A character of the program goes to the end of the queue.
LEMMA SendPostAppends ==
    ASSUME UartType, SendPost
    PROVE  /\ posted \in Nat /\ posted + 1 \in 1 .. TxChars /\ posted' = posted + 1
           /\ Queue' = Append(Queue, posted + 1)
<1>1. /\ out_box \in Box(1 .. TxChars)
      /\ posted \in Nat /\ posted + 1 \in 1 .. TxChars /\ posted' = posted + 1
  BY UartAssumption DEF UartType, OutType, CoreType, SendPost
<1>2. mbox_msg_post(out_box, posted + 1).msgs = Append(out_box.msgs, posted + 1)
  BY <1>1, Post
<1> QED
  BY <1>1, <1>2 DEF SendPost, Queue

LEMMA SentInvDrain ==
    ASSUME UartType, SentInv, NEW next, DrainOut(next), UNCHANGED <<tx, sent, posted>>
    PROVE  SentInv'
<1>1. SentTypes
  BY SentTypesHold
<1>2. CASE Queue' = Queue
  BY <1>2 DEF SentInv
<1>3. CASE Queue' # Queue
  <2>1. Queue # <<>> /\ Queue' = Tail(Queue)
    BY <1>1, <1>3, Take DEF DrainOut, Queue, Unlinks, SentTypes
  <2>2. /\ Increasing(Queue') /\ Below(Queue', posted + 1) /\ AllBelow(sent, Queue')
        /\ tx.at = "write" => \A j \in DOMAIN Queue' : tx.c < Queue'[j]
    BY <1>1, <2>1, QueueShrinks DEF SentInv, SentTypes
  <2> QED
    BY <2>2 DEF SentInv
<1> QED
  BY <1>2, <1>3

LEMMA SentInvSimThread ==
    ASSUME UartType, SentInv, SimThread
    PROVE  SentInv'
<1>1. SentTypes
  BY SentTypesHold
<1>2. UNCHANGED <<tx, sent>>
  BY DEF SimThread, txSide
<1>3. CASE SendPost
  <2>1. posted + 1 \in 1 .. TxChars /\ posted' = posted + 1
    BY <1>3, SendPostAppends
  <2>2. Queue' = Append(Queue, posted + 1)
    BY <1>3, SendPostAppends
  <2>3. ASSUME NEW s \in Seq(Nat), Below(s, posted + 1) PROVE Below(s, posted' + 1)
    <3>1. \A i \in DOMAIN s : s[i] \in Nat
      BY ElementOfSeq, LenProperties
    <3> QED
      BY <1>1, <2>1, <2>3, <3>1 DEF Below, SentTypes
  <2>4. /\ Increasing(Queue') /\ Below(Queue, posted' + 1) /\ Below(sent, posted' + 1)
        /\ AllBelow(sent, Queue')
    BY <1>1, <2>1, <2>2, <2>3, IncreasingAppend, AllBelowAppend DEF SentInv, SentTypes
  <2>5. Below(Queue', posted' + 1)
    <3>1. posted' + 1 \in Nat /\ posted + 1 \in Nat /\ posted + 1 < posted' + 1
      BY <1>1, <2>1 DEF SentTypes
    <3> QED
      BY <1>1, <2>2, <2>4, <3>1, BelowAppend DEF SentTypes
  <2>6. ASSUME tx.at = "write"
        PROVE  tx.c < posted' + 1 /\ \A j \in DOMAIN Queue' : tx.c < Queue'[j]
    <3>1. /\ tx.c \in Nat /\ tx.c < posted + 1 /\ posted \in Nat
          /\ \A j \in DOMAIN Queue : tx.c < Queue[j]
          /\ Queue \in Seq(Nat) /\ posted + 1 \in Nat
      BY <1>1, <2>6 DEF SentInv, SentTypes
    <3> QED
      BY <2>1, <2>2, <3>1, AppendElements
  <2> QED
    BY <1>2, <2>4, <2>5, <2>6 DEF SentInv
<1>4. CASE ClearGet \/ ResetOut
  BY <1>2, <1>4, SentInvDrain DEF ClearGet, ResetOut
<1>5. CASE ~ (SendPost \/ ClearGet \/ ResetOut)
  <2>1. UNCHANGED <<Queue, posted>>
    BY <1>5 DEF SimThread, ExecNothing, ExecSend, ExecRecv, RecvGet, ExecFlag, ExecClear, DataRx,
                DataTx, Write, ResetBegins, ResetIn, ResetCore, Queue
  <2> QED
    BY <1>2, <2>1 DEF SentInv
<1> QED
  BY <1>3, <1>4, <1>5

LEMMA SentInvAlways == Steps => []SentInv
<1>1. ASSUME UartType, SentInv, [Next]_vars PROVE SentInv'
  <2>1. CASE RxThread \/ Quit \/ Join \/ UNCHANGED vars
    <3>1. UNCHANGED <<Queue, tx, sent, posted>>
      BY <2>1 DEF RxThread, Quit, Join, vars, txSide, Queue
    <3> QED
      BY <1>1, <3>1 DEF SentInv
  <2> QED
    BY <1>1, <2>1, SentInvTxThread, SentInvSimThread DEF Next
<1> QED
  BY <1>1, SentInvInit, UartTypeAlways, PTL DEF Steps

\* No character is written twice or overtaken, whatever CLEAR and resets throw away,
\* and however they race with the transmit thread (uart_state_reset, tx_thr_fun).
THEOREM SentOnceAlways == Spec => []SentOnce
<1>1. SentInv => SentOnce
  BY DEF SentInv, SentOnce
<1> QED
  BY <1>1, SentInvAlways, SpecSteps, PTL

(***************************************************************************)
(* Nothing is lost by programs that do not CLEAR, while nobody resets.     *)
(***************************************************************************)

KeepsMessages == "CLEAR" \notin Operations /\ ~ Resets

\* The places of the simulator thread that throw messages away.
Discards == {"clear", "resetin", "resetout", "resetcore"}

LEMMA NeverDiscards == KeepsMessages /\ Steps => [](core.at \notin Discards)
<1> SUFFICES ASSUME KeepsMessages PROVE Steps => [](core.at \notin Discards)
  OBVIOUS
<1>1. Init => core.at \notin Discards
  BY DEF Init, Discards
<1>2. ASSUME UartType, core.at \notin Discards, [Next]_vars
      PROVE  (core.at \notin Discards)'
  <2>1. CoreType
    BY <1>2 DEF UartType
  <2>2. CASE RxThread \/ TxThread \/ UNCHANGED vars
    BY <1>2, <2>2 DEF RxThread, TxThread, vars
  <2>3. CASE Quit \/ Join
    BY <2>1, <2>3 DEF Quit, Join, To, CoreType, Discards
  <2>4. CASE SimThread
    BY <1>2, <2>1, <2>4
       DEF SimThread, KeepsMessages, ExecNothing, ExecSend, SendPost, ExecRecv, RecvGet, ExecFlag,
           ExecClear, ClearGet, DataRx, DataTx, Write, ResetBegins, ResetIn, ResetOut, ResetCore,
           Issue, To, CoreType, Discards
  <2> QED
    BY <1>2, <2>2, <2>3, <2>4 DEF Next
<1> QED
  BY <1>1, <1>2, UartTypeAlways, PTL DEF Spec, Steps

\* What the transmit thread is about to write.
Writing == IF tx.at = "write" THEN <<tx.c>> ELSE <<>>

\* The characters up to the next one.
LEMMA NextChar ==
    ASSUME NEW n \in Nat
    PROVE  /\ Chars(n) \in Seq(Nat)
           /\ Append(Chars(n), n + 1) = Chars(n + 1)
<1>1. Chars(n) \in Seq(Nat) /\ Len(Chars(n)) = n
  BY DEF Chars
<1>2. Chars(n + 1) \in Seq(Nat) /\ Len(Chars(n + 1)) = n + 1
  BY DEF Chars
<1> DEFINE s == Append(Chars(n), n + 1)
<1>3. /\ s \in Seq(Nat) /\ Len(s) = n + 1
      /\ \A i \in 1 .. n : s[i] = Chars(n)[i]
      /\ s[n + 1] = n + 1
  BY <1>1, AppendProperties
<1>4. \A i \in 1 .. n + 1 : s[i] = Chars(n + 1)[i]
  BY <1>3 DEF Chars
<1> HIDE DEF s
<1>5. s = Chars(n + 1)
  BY <1>2, <1>3, <1>4, SeqEqual
<1> QED
  BY <1>1, <1>5 DEF s

\* The first of the queue is the one to be written.
LEMMA TakeKeepsOrder ==
    ASSUME SentTypes, TxConserved, tx.at # "write", NEW box \in Box(1 .. TxChars),
           box.msgs = Queue, TxTake(box), UNCHANGED <<sent, posted>>
    PROVE  TxConserved'
<1>1. CASE Unlinks(box)
  BY <1>1 DEF TxTake, TxConserved, Queue
<1>2. CASE ~ Unlinks(box)
  <2>1. /\ Queue # <<>> /\ Queue' = Tail(Queue)
        /\ tx' = [at |-> "write", c |-> Head(Queue)]
    BY <1>2, Take DEF TxTake, Queue, Unlinks
  <2>2. Writing = <<>> /\ Writing' = <<Head(Queue)>>
    BY <2>1 DEF Writing
  <2>3. /\ sent \in Seq(Nat) /\ Queue \in Seq(Nat) /\ Tail(Queue) \in Seq(Nat)
        /\ Head(Queue) \in Nat /\ <<Head(Queue)>> \in Seq(Nat)
    BY <2>1, HeadTailProperties DEF SentTypes
  <2>4. <<Head(Queue)>> \o Tail(Queue) = Queue
    BY <2>1, <2>3
  <2>5. (sent \o <<Head(Queue)>>) \o Tail(Queue) = sent \o Queue
    BY <2>3, <2>4, ConcatAssociative
  <2>6. sent \o <<>> = sent
    BY <2>3, ConcatEmptySeq
  <2>7. (sent \o Writing) \o Queue = Chars(posted)
    BY DEF TxConserved, Writing, Queue
  <2>8. (sent' \o Writing') \o Queue' = Chars(posted')
    BY <2>1, <2>2, <2>5, <2>6, <2>7
  <2> QED
    BY <2>8 DEF TxConserved, Writing, Queue
<1> QED
  BY <1>1, <1>2

LEMMA TxConservedTxThread ==
    ASSUME UartType, TxConserved, TxThread
    PROVE  TxConserved'
<1>1. SentTypes /\ WellSignalled(out_box)
  BY SentTypesHold DEF UartType, OutType
<1>2. out_box \in Box(1 .. TxChars) /\ posted' = posted
  BY <1>1 DEF SentTypes, TxThread
<1>3. CASE TxGet
  BY <1>1, <1>2, <1>3, TakeKeepsOrder DEF TxGet, Queue
<1>4. CASE TxSignalled
  <2>1. WaitSignalled(out_box) \in Box(1 .. TxChars) /\ WaitSignalled(out_box).msgs = Queue
    BY <1>1, <1>2, <1>4, Waiting DEF TxSignalled, Queue
  <2> QED
    BY <1>1, <1>2, <1>4, <2>1, TakeKeepsOrder DEF TxSignalled
<1>5. CASE TxSpurious
  <2>1. WaitExpires(out_box) \in Box(1 .. TxChars) /\ WaitExpires(out_box).msgs = Queue
    BY <1>1, <1>2, <1>5, Waiting DEF TxSpurious, Queue
  <2> QED
    BY <1>1, <1>2, <1>5, <2>1, TakeKeepsOrder DEF TxSpurious
<1>6. CASE TxWait \/ TxTimeout \/ TxFinish
  <2>1. out_box'.msgs = out_box.msgs
    BY <1>1, <1>2, <1>6, Waiting DEF TxWait, TxTimeout, TxFinish
  <2>2. tx.at # "write" /\ tx'.at # "write" /\ sent' = sent
    BY <1>1, <1>6 DEF TxWait, TxTimeout, TxFinish, SentTypes
  <2> QED
    BY <1>2, <2>1, <2>2 DEF TxConserved
<1>7. CASE TxWrite
  <2>1. /\ sent' = Append(sent, tx.c) /\ tx'.at # "write" /\ out_box' = out_box
        /\ tx.at = "write" /\ sent \in Seq(Nat) /\ tx.c \in Nat
    BY <1>1, <1>7 DEF TxWrite, SentTypes
  <2>2. sent' \in Seq(Nat) /\ sent' = sent \o <<tx.c>>
    BY <2>1, AppendIsConcat, AppendProperties
  <2>3. sent' \o <<>> = sent \o <<tx.c>>
    BY <2>2, ConcatEmptySeq
  <2> QED
    BY <1>2, <2>1, <2>3 DEF TxConserved
<1> QED
  BY <1>3, <1>4, <1>5, <1>6, <1>7 DEF TxThread

LEMMA TxConservedSimThread ==
    ASSUME UartType, TxConserved, SimThread, core.at \notin Discards
    PROVE  TxConserved'
<1>1. SentTypes /\ UNCHANGED <<tx, sent>>
  BY SentTypesHold DEF SimThread, txSide
<1>2. CASE SendPost
  <2>1. posted + 1 \in 1 .. TxChars /\ posted' = posted + 1 /\ posted \in Nat
    BY <1>2, SendPostAppends
  <2>2. Queue' = Append(Queue, posted + 1)
    BY <1>2, SendPostAppends
  <2>3. Writing \in Seq(Nat) /\ sent \in Seq(Nat) /\ Queue \in Seq(Nat) /\ posted + 1 \in Nat
    BY <1>1, <2>1 DEF SentTypes, Writing
  <2>4. sent \o Writing \in Seq(Nat) /\ <<posted + 1>> \in Seq(Nat)
    BY <2>3, ConcatProperties
  <2>5. Queue' = Queue \o <<posted + 1>>
    BY <2>2, <2>3, AppendIsConcat
  <2>6. (sent \o Writing) \o Queue' = ((sent \o Writing) \o Queue) \o <<posted + 1>>
    BY <2>3, <2>4, <2>5, ConcatAssociative
  <2>7. (sent \o Writing) \o Queue = Chars(posted)
    BY DEF TxConserved, Writing, Queue
  <2>8. Chars(posted) \o <<posted + 1>> = Chars(posted')
    BY <2>1, <2>3, NextChar, AppendIsConcat
  <2>9. (sent' \o Writing') \o Queue' = Chars(posted')
    BY <1>1, <2>6, <2>7, <2>8 DEF Writing
  <2> QED
    BY <2>9 DEF TxConserved, Writing, Queue
<1>3. CASE ~ SendPost
  <2>1. UNCHANGED <<out_box, posted>>
    BY <1>3 DEF SimThread, ExecNothing, ExecSend, ExecRecv, RecvGet, ExecFlag, ExecClear, ClearGet,
                DataRx, DataTx, Write, ResetBegins, ResetIn, ResetOut, ResetCore, Discards
  <2> QED
    BY <1>1, <2>1 DEF TxConserved
<1> QED
  BY <1>2, <1>3

\* Without CLEAR and resets, what the program sends is written once and in order, or
\* still on its way (SEND, mbox_msg_get_wait, tx_thr_fun).
THEOREM TxConservedAlways == KeepsMessages /\ Spec => []TxConserved
<1>1. Init => TxConserved
  <2> SUFFICES ASSUME Init PROVE TxConserved
    OBVIOUS
  <2>1. sent = <<>> /\ out_box.msgs = <<>> /\ posted = 0 /\ tx.at # "write"
    BY DEF Init, mbox_init
  <2>2. Chars(0) = <<>>
    BY DEF Chars
  <2> QED
    BY <2>1, <2>2 DEF TxConserved
<1>2. ASSUME UartType, TxConserved, core.at \notin Discards, [Next]_vars PROVE TxConserved'
  <2>1. CASE RxThread \/ Quit \/ Join \/ UNCHANGED vars
    <3>1. UNCHANGED <<out_box, tx, sent, posted>>
      BY <2>1 DEF RxThread, Quit, Join, vars, txSide
    <3> QED
      BY <1>2, <3>1 DEF TxConserved
  <2> QED
    BY <1>2, <2>1, TxConservedTxThread, TxConservedSimThread DEF Next
<1> QED
  BY <1>1, <1>2, UartTypeAlways, NeverDiscards, PTL DEF Spec, Steps

(***************************************************************************)
(* A reader finds the message it has counted.                              *)
(***************************************************************************)

\* Besides, no wakeup without a reason: the getter does not look again.
Orderly == KeepsMessages /\ ~ SpuriousWakeups

GetInv ==
    /\ ~ crashed
    /\ core.at = "get" => ~ Unlinks(in_box)
    /\ Signalled(out_box) => ~ Unlinks(out_box)

LEMMA GetInvTxThread ==
    ASSUME Orderly, UartType, GetInv, TxThread
    PROVE  GetInv'
<1>1. /\ out_box \in Box(1 .. TxChars) /\ WellSignalled(out_box)
      /\ tx.at # "wait" => out_box.waiting = 0
      /\ out_box.signals \in 0 .. 1
  BY DEF UartType, OutType, TxThread, Box
<1>2. /\ UNCHANGED <<in_box, core>>
      /\ ~ crashed
      /\ core.at = "get" => ~ Unlinks(in_box)
      /\ Signalled(out_box) => ~ Unlinks(out_box)
  BY DEF TxThread, GetInv
<1>3. ASSUME NEW box \in Box(1 .. TxChars), TxTake(box), ~ Unlinks(box), box.signals = 0
      PROVE  GetInv'
  <2>1. UNCHANGED crashed /\ out_box' = Taken(box) /\ Taken(box).signals = 0
    BY <1>3, Take DEF TxTake
  <2> QED
    BY <1>2, <2>1 DEF GetInv, Signalled
<1>4. CASE TxGet
  <2>1. out_box.signals = 0
    BY <1>1, <1>4 DEF TxGet, WellSignalled
  <2>2. ~ Unlinks(out_box)
    <3>1. Len(out_box.msgs) > 0
      BY <1>4 DEF TxGet, mbox_len
    <3> QED
      BY <3>1 DEF Unlinks
  <2> QED
    BY <1>1, <1>3, <1>4, <2>1, <2>2 DEF TxGet
<1>5. CASE TxSignalled
  <2>1. /\ Signalled(out_box)
        /\ WaitSignalled(out_box) \in Box(1 .. TxChars)
        /\ WaitSignalled(out_box).signals = 0
        /\ WaitSignalled(out_box).msgs = out_box.msgs
    BY <1>1, <1>5, Waiting DEF TxSignalled
  <2>2. ~ Unlinks(WaitSignalled(out_box))
    BY <1>2, <2>1 DEF Unlinks
  <2> QED
    BY <1>3, <1>5, <2>1, <2>2 DEF TxSignalled
<1>6. CASE TxWait \/ TxTimeout
  <2>1. ~ Signalled(out_box')
    BY <1>1, <1>6, Waiting DEF TxWait, TxTimeout, Signalled, WellSignalled
  <2>2. crashed' = crashed
    BY <1>6 DEF TxWait, TxTimeout
  <2> QED
    BY <1>2, <2>1, <2>2 DEF GetInv
<1>7. CASE TxWrite \/ TxFinish
  <2>1. UNCHANGED <<out_box, crashed>>
    BY <1>7 DEF TxWrite, TxFinish
  <2> QED
    BY <1>2, <2>1 DEF GetInv
<1>8. CASE TxSpurious
  BY <1>8 DEF TxSpurious, Orderly
<1> QED
  BY <1>4, <1>5, <1>6, <1>7, <1>8 DEF TxThread

LEMMA GetInvSimThread ==
    ASSUME UartType, GetInv, SimThread, core.at \notin Discards
    PROVE  GetInv'
<1>1. CoreType /\ SentTypes /\ in_box \in Box(0 .. RxChars)
  BY SentTypesHold DEF UartType, InType
<1>2. /\ ~ crashed
      /\ core.at = "get" => ~ Unlinks(in_box)
      /\ Signalled(out_box) => ~ Unlinks(out_box)
  BY DEF GetInv
<1>3. CASE SendPost
  <2>1. Queue' # <<>>
    BY <1>1, <1>3, SendPostAppends, AppendProperties DEF SentTypes
  <2>2. core'.at # "get" /\ crashed' = crashed
    BY <1>1, <1>3 DEF SendPost, To, CoreType
  <2> QED
    BY <1>2, <2>1, <2>2 DEF GetInv, Queue, Unlinks
<1>4. CASE RecvGet
  <2>1. UNCHANGED <<out_box, crashed>>
    BY <1>2, <1>4 DEF RecvGet
  <2>2. core'.at # "get"
    BY <1>1, <1>4 DEF RecvGet, To, CoreType
  <2> QED
    BY <1>2, <2>1, <2>2 DEF GetInv
<1>5. CASE ExecRecv
  <2>1. UNCHANGED <<in_box, out_box, crashed>>
    BY <1>5 DEF ExecRecv
  <2>2. core'.at = "get" => mbox_len(in_box) > 0
    BY <1>1, <1>5 DEF ExecRecv, To, CoreType
  <2>3. mbox_len(in_box) > 0 => ~ Unlinks(in_box)
    BY DEF mbox_len, Unlinks
  <2> QED
    BY <1>2, <2>1, <2>2, <2>3 DEF GetInv
<1>6. CASE ~ (SendPost \/ RecvGet \/ ExecRecv)
  <2>1. UNCHANGED <<in_box, out_box, crashed>>
    BY <1>6 DEF SimThread, ExecNothing, ExecSend, ExecFlag, ExecClear, ClearGet, DataRx, DataTx,
                Write, ResetBegins, ResetIn, ResetOut, ResetCore, Discards
  <2>2. core'.at # "get"
    BY <1>1, <1>6 DEF SimThread, ExecNothing, ExecSend, ExecFlag, ExecClear, ClearGet, DataRx,
                      DataTx, Write, ResetBegins, ResetIn, ResetOut, ResetCore, Discards, To,
                      CoreType
  <2> QED
    BY <1>2, <2>1, <2>2 DEF GetInv
<1> QED
  BY <1>3, <1>4, <1>5, <1>6

\* In a program without CLEAR, with no resets and no wakeups without a reason, no
\* reader is handed the header of an empty list (mbox.c:48, mbox.c:82).
THEOREM NoEmptyGetAlways == Orderly /\ Spec => []NoEmptyGet
<1> SUFFICES ASSUME Orderly PROVE Spec => []NoEmptyGet
  OBVIOUS
<1>1. Init => GetInv
  BY DEF Init, GetInv, mbox_init, Signalled
<1>2. ASSUME UartType, GetInv, core.at \notin Discards, [Next]_vars PROVE GetInv'
  <2>1. CASE RxThread
    <3>1. UNCHANGED <<out_box, core, crashed>>
      BY <2>1 DEF RxThread
    <3>2. ~ Unlinks(in_box) => ~ Unlinks(in_box')
      <4>1. CASE RxPost
        <5>1. in_box \in Box(0 .. RxChars) /\ rx.c \in 0 .. RxChars
          BY <1>2 DEF UartType, InType, RxType
        <5>2. mbox_msg_post(in_box, rx.c).msgs = Append(in_box.msgs, rx.c)
          BY <5>1, Post
        <5>3. Append(in_box.msgs, rx.c) # <<>>
          BY <5>1, AppendProperties DEF Box
        <5> QED
          BY <4>1, <5>2, <5>3 DEF RxPost, Unlinks
      <4>2. CASE ~ RxPost
        BY <2>1, <4>2 DEF RxThread, RxRead, RxReadInterrupted, RxReadFails, RxUsed, RxDecide,
                          RxFinish
      <4> QED
        BY <4>1, <4>2
    <3> QED
      BY <1>2, <3>1, <3>2 DEF GetInv
  <2>2. CASE Quit \/ Join
    <3>1. CoreType /\ UNCHANGED <<in_box, out_box, crashed>>
      BY <1>2, <2>2 DEF UartType, Quit, Join
    <3>2. core'.at # "get"
      BY <2>2, <3>1 DEF Quit, Join, To, CoreType
    <3> QED
      BY <1>2, <3>1, <3>2 DEF GetInv
  <2>3. CASE UNCHANGED vars
    BY <1>2, <2>3 DEF vars, GetInv
  <2> QED
    BY <1>2, <2>1, <2>2, <2>3, GetInvTxThread, GetInvSimThread DEF Next
<1>3. GetInv => NoEmptyGet
  BY DEF GetInv, NoEmptyGet
<1>4. KeepsMessages
  BY DEF Orderly
<1> QED
  BY <1>1, <1>2, <1>3, <1>4, UartTypeAlways, NeverDiscards, PTL DEF Spec, Steps

(***************************************************************************)
(* The receive side.                                                       *)
(***************************************************************************)

\* What the receive thread has accepted and not posted yet.
Posting == IF rx.at = "post" THEN <<rx.c>> ELSE <<>>

Passed == (received \o in_box.msgs) \o Posting = accepted

\* The character at hand is newer than those accepted.
FreshInv ==
    /\ Increasing(accepted) /\ Below(accepted, arrived + 1)
    /\ rx.at \in {"used", "decide"} => rx.c = arrived /\ Below(accepted, rx.c)

ReceiveTypes ==
    /\ received \in Seq(Nat) /\ in_box.msgs \in Seq(Nat) /\ accepted \in Seq(Nat)
    /\ in_box \in Box(0 .. RxChars)
    /\ rx.c \in 0 .. RxChars /\ rx.c \in Nat /\ arrived \in Nat
    /\ rx \in [at : {"poll", "used", "decide", "post", "done"}, c : 0 .. RxChars, used : Nat]

LEMMA ReceiveTypesHold == UartType => ReceiveTypes
<1> SUFFICES ASSUME UartType PROVE ReceiveTypes
  OBVIOUS
<1>1. 0 .. RxChars \subseteq Nat
  BY UartAssumption
<1>2. /\ received \in Seq(0 .. RxChars) /\ in_box.msgs \in Seq(0 .. RxChars)
      /\ accepted \in Seq(0 .. RxChars)
      /\ in_box \in Box(0 .. RxChars)
      /\ rx.c \in 0 .. RxChars /\ arrived \in 0 .. RxChars
      /\ rx \in [at : {"poll", "used", "decide", "post", "done"}, c : 0 .. RxChars, used : Nat]
  BY DEF UartType, InType, RxType, Box
<1> QED
  BY <1>1, <1>2, SeqMonotonic DEF ReceiveTypes

LEMMA PassedRxThread ==
    ASSUME ReceiveTypes, Passed, RxThread
    PROVE  Passed'
<1>1. received' = received
  BY DEF RxThread
<1>2. CASE RxDecide /\ Room
  <2>1. /\ Posting = <<>> /\ Posting' = <<rx.c>> /\ in_box' = in_box
        /\ accepted' = Append(accepted, rx.c)
    BY <1>2 DEF RxDecide, Posting, ReceiveTypes
  <2>2. received \o in_box.msgs \in Seq(Nat)
    BY ConcatProperties DEF ReceiveTypes
  <2>3. received \o in_box.msgs = accepted
    BY <2>1, <2>2, ConcatEmptySeq DEF Passed
  <2>4. accepted' = accepted \o <<rx.c>>
    BY <2>1, AppendIsConcat DEF ReceiveTypes
  <2> QED
    BY <1>1, <2>1, <2>3, <2>4 DEF Passed
<1>3. CASE RxPost
  <2>1. /\ Posting = <<rx.c>> /\ Posting' = <<>> /\ accepted' = accepted
        /\ in_box' = mbox_msg_post(in_box, rx.c)
    BY <1>3 DEF RxPost, Posting, ReceiveTypes
  <2>2. in_box'.msgs = Append(in_box.msgs, rx.c)
    <3>1. in_box \in Box(0 .. RxChars) /\ rx.c \in 0 .. RxChars
      BY DEF ReceiveTypes
    <3>2. mbox_msg_post(in_box, rx.c).msgs = Append(in_box.msgs, rx.c)
      BY <3>1, Post
    <3> QED
      BY <2>1, <3>2
  <2>3. in_box'.msgs = in_box.msgs \o <<rx.c>> /\ in_box'.msgs \in Seq(Nat)
    BY <2>2, AppendIsConcat, AppendProperties DEF ReceiveTypes
  <2>4. received \o in_box'.msgs = (received \o in_box.msgs) \o <<rx.c>>
    <3>1. rx.c \in Nat /\ received \in Seq(Nat) /\ in_box.msgs \in Seq(Nat)
      BY DEF ReceiveTypes
    <3>2. <<rx.c>> \in Seq(Nat)
      BY <3>1
    <3>3. (received \o in_box.msgs) \o <<rx.c>> = received \o (in_box.msgs \o <<rx.c>>)
      <4>1. \A s, t, u \in Seq(Nat) : (s \o t) \o u = s \o (t \o u)
        BY ConcatAssociative
      <4> QED
        BY <3>1, <3>2, <4>1, Zenon
    <3> QED
      BY <2>3, <3>3
  <2>5. (received \o in_box'.msgs) \o <<>> = received \o in_box'.msgs
    <3>1. received \o in_box'.msgs \in Seq(Nat)
      BY <2>3, ConcatProperties DEF ReceiveTypes
    <3> QED
      BY <3>1, ConcatEmptySeq
  <2> QED
    BY <1>1, <2>1, <2>4, <2>5 DEF Passed
<1>4. CASE ~ RxPost /\ ~ (RxDecide /\ Room)
  <2>1. UNCHANGED <<in_box, accepted>>
    BY <1>4 DEF RxThread, RxRead, RxReadInterrupted, RxReadFails, RxUsed, RxDecide, RxFinish
  <2>2. Posting = <<>> /\ Posting' = <<>>
    BY <1>4 DEF RxThread, RxRead, RxReadInterrupted, RxReadFails, RxUsed, RxDecide, RxFinish,
                Posting, ReceiveTypes
  <2> QED
    BY <1>1, <2>1, <2>2 DEF Passed
<1> QED
  BY <1>2, <1>3, <1>4

LEMMA PassedSimThread ==
    ASSUME ReceiveTypes, Passed, SimThread
    PROVE  Passed'
<1>1. UNCHANGED <<accepted, Posting>>
  BY DEF SimThread, rxSide, Posting
<1>2. CASE UNCHANGED <<in_box, received>>
  BY <1>1, <1>2 DEF Passed
<1>3. CASE /\ ~ Unlinks(in_box) /\ in_box' = Taken(in_box)
           /\ received' = Append(received, Head(in_box.msgs))
  <2> DEFINE h == Head(in_box.msgs)
             t == Tail(in_box.msgs)
  <2>1. in_box.msgs # <<>> /\ in_box'.msgs = t
    BY <1>3 DEF Unlinks, Taken, ReceiveTypes, Box
  <2>2. h \in Nat /\ t \in Seq(Nat) /\ <<h>> \in Seq(Nat) /\ in_box.msgs = <<h>> \o t
    <3>1. h \in Nat /\ t \in Seq(Nat)
      BY <2>1, HeadTailProperties DEF ReceiveTypes
    <3> QED
      BY <2>1, <3>1 DEF ReceiveTypes
  <2> HIDE DEF h, t
  <2>3. received' = received \o <<h>>
    BY <1>3, <2>2, AppendIsConcat DEF ReceiveTypes, h
  <2>4. (received \o <<h>>) \o t = received \o in_box.msgs
    BY <2>2, ConcatAssociative DEF ReceiveTypes
  <2> QED
    BY <1>1, <2>1, <2>3, <2>4 DEF Passed
<1>4. CASE RecvGet \/ ResetIn
  BY <1>2, <1>3, <1>4 DEF RecvGet, ResetIn
<1>5. CASE ~ (RecvGet \/ ResetIn)
  BY <1>2, <1>5 DEF SimThread, ExecNothing, ExecSend, SendPost, ExecRecv, ExecFlag, ExecClear,
                    ClearGet, DataRx, DataTx, Write, ResetBegins, ResetOut, ResetCore
<1> QED
  BY <1>4, <1>5

\* Nothing is lost between the receive thread and the program, whatever else happens.
LEMMA PassedAlways == Steps => []Passed
<1>1. Init => Passed
  <2> SUFFICES ASSUME Init PROVE Passed
    OBVIOUS
  <2>1. received = <<>> /\ in_box.msgs = <<>> /\ accepted = <<>> /\ rx.at # "post"
    BY DEF Init, mbox_init
  <2> QED
    BY <2>1 DEF Passed, Posting
<1>2. ASSUME UartType, Passed, [Next]_vars PROVE Passed'
  <2>1. CASE TxThread \/ Quit \/ Join \/ UNCHANGED vars
    <3>1. UNCHANGED <<in_box, received, accepted, rx>>
      BY <2>1 DEF TxThread, Quit, Join, vars, rxSide
    <3> QED
      BY <1>2, <3>1 DEF Passed, Posting
  <2> QED
    BY <1>2, <2>1, ReceiveTypesHold, PassedRxThread, PassedSimThread DEF Next
<1> QED
  BY <1>1, <1>2, UartTypeAlways, PTL DEF Spec, Steps

LEMMA FreshRxThread ==
    ASSUME ~ ReadErrors, ReceiveTypes, FreshInv, RxThread
    PROVE  FreshInv'
<1>1. \A i \in DOMAIN accepted : accepted[i] \in Nat
  BY ElementOfSeq, LenProperties DEF ReceiveTypes
<1>2. CASE RxRead
  <2>1. /\ accepted' = accepted /\ arrived' = arrived + 1 /\ rx'.c = arrived + 1
        /\ arrived \in Nat
    BY <1>2 DEF RxRead, ReceiveTypes
  <2>2. Below(accepted, arrived' + 1)
    BY <1>1, <2>1 DEF FreshInv, Below
  <2> QED
    BY <2>1, <2>2 DEF FreshInv
<1>3. CASE RxUsed
  BY <1>3 DEF RxUsed, FreshInv, ReceiveTypes
<1>4. CASE RxDecide
  <2>1. CASE Room
    <3>1. /\ accepted' = Append(accepted, rx.c) /\ arrived' = arrived
          /\ rx'.at = "post" /\ rx.c = arrived /\ Below(accepted, rx.c)
      BY <1>4, <2>1 DEF RxDecide, FreshInv, ReceiveTypes
    <3>2. Increasing(accepted')
      BY <3>1, IncreasingAppend DEF FreshInv, ReceiveTypes
    <3>3. Below(accepted', arrived + 1)
      <4>1. rx.c < arrived + 1 /\ arrived + 1 \in Nat
        BY <3>1 DEF ReceiveTypes
      <4> QED
        BY <3>1, <4>1, BelowAppend DEF FreshInv, ReceiveTypes
    <3> QED
      BY <3>1, <3>2, <3>3 DEF FreshInv
  <2>2. CASE ~ Room
    BY <1>4, <2>2 DEF RxDecide, FreshInv, ReceiveTypes
  <2> QED
    BY <2>1, <2>2
<1>5. CASE RxPost \/ RxFinish
  BY <1>5 DEF RxPost, RxFinish, FreshInv, ReceiveTypes
<1>6. CASE RxReadInterrupted \/ RxReadFails
  BY <1>6 DEF RxReadInterrupted, RxReadFails
<1> QED
  BY <1>2, <1>3, <1>4, <1>5, <1>6 DEF RxThread

LEMMA FreshAlways == ~ ReadErrors /\ Steps => []FreshInv
<1> SUFFICES ASSUME ~ ReadErrors PROVE Steps => []FreshInv
  OBVIOUS
<1>1. Init => FreshInv
  <2> SUFFICES ASSUME Init PROVE FreshInv
    OBVIOUS
  <2>1. accepted = <<>> /\ rx.at = "poll"
    BY DEF Init
  <2>2. DOMAIN <<>> = {}
    OBVIOUS
  <2> QED
    BY <2>1, <2>2 DEF FreshInv, Increasing, Below
<1>2. ASSUME UartType, FreshInv, [Next]_vars PROVE FreshInv'
  <2>1. CASE TxThread \/ SimThread \/ Quit \/ Join \/ UNCHANGED vars
    <3>1. UNCHANGED <<accepted, arrived, rx>>
      BY <2>1 DEF TxThread, SimThread, Quit, Join, vars, rxSide
    <3> QED
      BY <1>2, <3>1 DEF FreshInv
  <2> QED
    BY <1>2, <2>1, ReceiveTypesHold, FreshRxThread DEF Next
<1> QED
  BY <1>1, <1>2, UartTypeAlways, PTL DEF Steps

\* As long as read() does not fail, what the receive thread accepts reaches the
\* program once and in order, or is still on its way: with CLEAR and resets too, which
\* take from the program's end (rx_thr_fun, mbox_msg_post, RECV, uart_state_reset).
THEOREM RxConservedAlways == ~ ReadErrors /\ Spec => []RxConserved
<1>1. Passed /\ FreshInv => RxConserved
  BY DEF Passed, FreshInv, Posting, RxConserved
<1> QED
  BY <1>1, PassedAlways, FreshAlways, SpecSteps, PTL
==============================================================================
