------------------------------ MODULE AsmProofs ------------------------------
(***************************************************************************)
(* The assembler writes outside its buffer under a negative .org only, its *)
(* passes agree on every label, its images mean what the source says and   *)
(* come back from the disassembler, for every source.                      *)
(***************************************************************************)
EXTENDS Toolchain, CodecProofs, WellFoundedInduction

---------------------------------------------------------------------------
(* What an int keeps of a number.                                          *)

Ints == -IntEnd .. IntEnd - 1

LEMMA IntTyped == \A n \in Int : AsInt(n) \in Ints
<1> SUFFICES ASSUME NEW n \in Int PROVE AsInt(n) \in Ints
  OBVIOUS
<1>1. PICK a \in Int, b \in Int : a = n + IntEnd /\ b = 2 * IntEnd /\ b > 0
  BY AsmAssumption
<1>2. a % b \in 0 .. b - 1
  BY <1>1
<1> QED
  BY <1>1, <1>2, AsmAssumption DEF AsInt, Ints

LEMMA IntKept == \A n \in Ints : AsInt(n) = n
<1> SUFFICES ASSUME NEW n \in Ints PROVE AsInt(n) = n
  OBVIOUS
<1>1. PICK a \in Int, b \in Int : a = n + IntEnd /\ b = 2 * IntEnd /\ 0 <= a /\ a < b
  BY AsmAssumption DEF Ints
<1>2. a % b = a
  BY <1>1
<1> QED
  BY <1>1, <1>2, AsmAssumption DEF AsInt, Ints

\* A difference that is below every int becomes one of the largest.
LEMMA IntWraps == \A n \in Int : -2 * IntEnd <= n /\ n < -IntEnd => AsInt(n) = n + 2 * IntEnd
<1> SUFFICES ASSUME NEW n \in Int, -2 * IntEnd <= n, n < -IntEnd PROVE AsInt(n) = n + 2 * IntEnd
  OBVIOUS
<1>1. PICK a \in Int, b \in Int : a = n + IntEnd /\ b = 2 * IntEnd /\ -b <= a /\ a < 0 /\ b > 0
  BY AsmAssumption
<1>2. a % b = a + b
  BY <1>1
<1> QED
  BY <1>1, <1>2, AsmAssumption DEF AsInt

---------------------------------------------------------------------------
(* The walk both passes take: f[n] is the location counter on line n.      *)

After(line, o) ==
    IF line.op = ".org" THEN AsInt(line.args[1].num)
    ELSE IF line.op = Null THEN o ELSE AsInt(o + 1)

Walk(lines, f, n) ==
    /\ f \in [1 .. n -> Ints]
    /\ f[1] = 0
    /\ \A m \in 1 .. n - 1 : f[m + 1] = After(lines[m], f[m])

\* The list of labels is the defining lines before n, in order: g gives the line of each.
Marks(list, lines, g, f, n) ==
    /\ g \in [1 .. Len(list) -> 1 .. n - 1]
    /\ \A j \in 1 .. Len(list), k \in 1 .. Len(list) : j < k => g[j] < g[k]
    /\ \A k \in 1 .. Len(list) :
          /\ list[k].name = lines[g[k]].label
          /\ list[k].offset = f[g[k]]
          /\ lines[g[k]].op # ".org"
    /\ \A m \in 1 .. n - 1 :
          lines[m].label # Null /\ lines[m].op # ".org" =>
              \E k \in 1 .. Len(list) : g[k] = m

Names == STRING \cup {Null}

SourceOK ==
    /\ Len(source) \in Nat
    /\ \A n \in 1 .. Len(source) :
          /\ source[n].label \in Names
          /\ OperandsOK(source[n])

Types ==
    /\ SourceOK
    /\ pass \in {"labels", "opcodes", "done", "failed", "wild"}
    /\ cursor \in 1 .. Len(source) + 1
    /\ offset \in Ints
    /\ offset_max \in Nat
    /\ labels \in Seq([name : Names, offset : Ints])
    /\ where \in Seq(Ints)
    /\ Len(where) <= Len(source)
    /\ pass = "labels" => where = <<>>
    /\ pass = "opcodes" => Len(where) = cursor - 1
    /\ pass = "opcodes" => offset <= offset_max /\ offset_max < MAX_WORDS

FirstPass ==
    pass = "labels" =>
        \E f, g : Walk(source, f, cursor) /\ f[cursor] = offset /\ Marks(labels, source, g, f, cursor)

SecondPass ==
    pass # "labels" =>
        \E f, g :
            /\ Walk(source, f, Len(source) + 1)
            /\ Marks(labels, source, g, f, Len(source) + 1)
            /\ \A n \in 1 .. Len(where) : where[n] = f[n]
            /\ pass = "opcodes" => offset = f[cursor]

\* The last .org the second pass went by is line n, and its address is negative.
Below(n) ==
    /\ source[n].op = ".org" /\ AsInt(source[n].args[1].num) < 0
    /\ \A m \in n + 1 .. cursor - 1 : source[m].op # ".org"

\* Nothing else takes the location counter below the buffer, and it is never written past
\* the end.
Strays ==
    pass \in {"opcodes", "wild"} =>
        /\ offset < 0 => \E n \in 1 .. cursor - 1 : Below(n)
        /\ pass = "wild" => offset < 0

IInv == Types /\ FirstPass /\ SecondPass /\ Strays

---------------------------------------------------------------------------
\* What an emitted word and a moved location counter leave of the types.
LEMMA EmitTypes ==
    ASSUME Types, AtLine("opcodes"), NEW word, Emit(word)
    PROVE  Types'
<1>1. cursor \in 1 .. Len(source) /\ offset \in 0 .. MAX_WORDS - 1
  BY DEF Types, SourceOK, AtLine, Emit, Inside
<1>2. offset + 1 \in Ints
  BY <1>1, AsmAssumption DEF Ints
<1>3. where' \in Seq(Ints) /\ Len(where') = Len(where) + 1
  BY DEF Emit, Left, Types
<1>4. QED
  BY <1>1, <1>2, <1>3, AsmAssumption DEF Emit, Advance, Left, NextLine, Types, SourceOK, AtLine

\* An assembler that starts on a source of the right form has walked nothing yet.
Fresh ==
    /\ SourceOK
    /\ pass = "labels" /\ cursor = 1 /\ offset = 0 /\ offset_max = 0
    /\ labels = <<>> /\ outbuf = <<>> /\ where = <<>>

LEMMA FreshInvariant == Fresh => IInv
<1> SUFFICES ASSUME Fresh PROVE IInv
  OBVIOUS
<1>0. 0 \in Ints
  BY AsmAssumption DEF Ints
<1>1. Types
  BY <1>0 DEF Fresh, Types, SourceOK
<1>2. Walk(source, [m \in 1 .. 1 |-> 0], 1)
  BY <1>0 DEF Walk
<1>3. Marks(labels, source, <<>>, [m \in 1 .. 1 |-> 0], 1)
  BY DEF Marks, Fresh
<1>4. FirstPass
  BY <1>2, <1>3 DEF FirstPass, Fresh
<1>5. SecondPass
  BY DEF SecondPass, Fresh
<1>6. Strays
  BY DEF Strays, Fresh
<1>7. QED
  BY <1>1, <1>4, <1>5, <1>6 DEF IInv

LEMMA InitIsFresh == AsmInit => Fresh
<1> SUFFICES ASSUME AsmInit PROVE Fresh
  OBVIOUS
<1>1. SourceOK
  BY SourcesAssumption DEF AsmInit, Started, SourceOK, OperandsOK, Names
<1>2. QED
  BY <1>1 DEF AsmInit, Started, Fresh

---------------------------------------------------------------------------
(* The first pass                                                          *)

\* One more line of the walk.
Extend(f, n, o) == [m \in 1 .. n + 1 |-> IF m = n + 1 THEN o ELSE f[m]]

LEMMA WalkExtends ==
    ASSUME NEW lines, NEW n \in Nat \ {0}, NEW f, Walk(lines, f, n),
           NEW o \in Ints, o = After(lines[n], f[n])
    PROVE  Walk(lines, Extend(f, n, o), n + 1)
<1> DEFINE h == Extend(f, n, o)
<1>1. h \in [1 .. n + 1 -> Ints] /\ h[1] = 0
  BY DEF Walk, Extend
<1>2. ASSUME NEW m \in 1 .. (n + 1) - 1 PROVE h[m + 1] = After(lines[m], h[m])
  <2>1. h[m] = f[m]
    BY <1>2 DEF Extend
  <2>2. CASE m = n
    BY <2>1, <2>2 DEF Extend
  <2>3. CASE m < n
    <3>1. h[m + 1] = f[m + 1]
      BY <1>2, <2>3 DEF Extend
    <3>2. QED
      BY <2>1, <2>3, <3>1 DEF Walk
  <2>4. QED
    BY <1>2, <2>2, <2>3
<1>3. QED
  BY <1>1, <1>2 DEF Walk

\* A line without a label of its own leaves the marks.
LEMMA MarksKept ==
    ASSUME NEW list, NEW lines, NEW n \in Nat \ {0}, NEW f, NEW g, NEW o,
           Marks(list, lines, g, f, n),
           lines[n].label = Null \/ lines[n].op = ".org"
    PROVE  Marks(list, lines, g, Extend(f, n, o), n + 1)
<1>1. g \in [1 .. Len(list) -> 1 .. (n + 1) - 1]
  BY DEF Marks
<1>2. \A k \in 1 .. Len(list) : Extend(f, n, o)[g[k]] = f[g[k]]
  BY DEF Marks, Extend
<1>3. ASSUME NEW m \in 1 .. (n + 1) - 1, lines[m].label # Null, lines[m].op # ".org"
      PROVE  \E k \in 1 .. Len(list) : g[k] = m
  <2>1. m \in 1 .. n - 1
    BY <1>3
  <2>2. QED
    BY <1>3, <2>1 DEF Marks
<1>4. QED
  BY <1>1, <1>2, <1>3 DEF Marks

\* A line that defines a label adds its mark: `more` is `list` and one entry.
LEMMA MarksGrow ==
    ASSUME NEW list, NEW more, NEW lines, NEW n \in Nat \ {0}, NEW f, NEW g, NEW o,
           NEW L \in Nat, Len(list) = L, Len(more) = L + 1,
           Marks(list, lines, g, f, n),
           lines[n].op # ".org",
           more[L + 1].name = lines[n].label, more[L + 1].offset = f[n],
           \A k \in 1 .. L : more[k] = list[k]
    PROVE  \E gg : Marks(more, lines, gg, Extend(f, n, o), n + 1)
<1> DEFINE gg == [k \in 1 .. L + 1 |-> IF k = L + 1 THEN n ELSE g[k]]
           h == Extend(f, n, o)
<1>1. g \in [1 .. L -> 1 .. n - 1]
  BY DEF Marks
<1>2. gg \in [1 .. L + 1 -> 1 .. (n + 1) - 1]
  BY <1>1
<1>3. \A j \in 1 .. L + 1, k \in 1 .. L + 1 : j < k => gg[j] < gg[k]
  <2> SUFFICES ASSUME NEW j \in 1 .. L + 1, NEW k \in 1 .. L + 1, j < k PROVE gg[j] < gg[k]
    OBVIOUS
  <2>1. j \in 1 .. L /\ gg[j] = g[j]
    OBVIOUS
  <2>2. CASE k = L + 1
    BY <1>1, <2>1, <2>2
  <2>3. CASE k \in 1 .. L
    BY <2>1, <2>3 DEF Marks
  <2>4. QED
    BY <2>2, <2>3
<1>4. ASSUME NEW k \in 1 .. L + 1
      PROVE  /\ more[k].name = lines[gg[k]].label
             /\ more[k].offset = h[gg[k]]
             /\ lines[gg[k]].op # ".org"
  <2>1. CASE k = L + 1
    BY <2>1 DEF Extend
  <2>2. CASE k \in 1 .. L
    <3>1. gg[k] = g[k] /\ g[k] \in 1 .. n - 1
      BY <1>1, <2>2
    <3>2. h[gg[k]] = f[g[k]]
      BY <3>1 DEF Extend
    <3>3. QED
      BY <2>2, <3>1, <3>2 DEF Marks
  <2>3. QED
    BY <2>1, <2>2
<1>5. ASSUME NEW m \in 1 .. (n + 1) - 1, lines[m].label # Null, lines[m].op # ".org"
      PROVE  \E k \in 1 .. L + 1 : gg[k] = m
  <2>1. CASE m = n
    BY <2>1
  <2>2. CASE m \in 1 .. n - 1
    <3>1. PICK k \in 1 .. L : g[k] = m
      BY <1>5, <2>2 DEF Marks
    <3>2. gg[k] = m /\ k \in 1 .. L + 1
      BY <3>1
    <3>3. QED
      BY <3>2
  <2>3. QED
    BY <1>5, <2>1, <2>2
<1>6. Marks(more, lines, gg, h, n + 1)
  <2> HIDE DEF gg, h
  <2>1. QED
    BY <1>2, <1>3, <1>4, <1>5 DEF Marks
<1>7. QED
  BY <1>6

LEMMA Appended ==
    ASSUME NEW S, NEW list \in Seq(S), NEW e \in S
    PROVE  /\ Append(list, e) \in Seq(S)
           /\ Len(list) \in Nat /\ Len(Append(list, e)) = Len(list) + 1
           /\ Append(list, e)[Len(list) + 1] = e
           /\ \A k \in 1 .. Len(list) : Append(list, e)[k] = list[k]
OBVIOUS

\* The first pass moves on by one line, and its location counter as the walk does.
LEMMA FirstPassStep ==
    ASSUME IInv, LabelsOrg \/ LabelsPlain \/ LabelsAppend
    PROVE  IInv'
<1> DEFINE o == offset'
<1>1. /\ pass = "labels" /\ pass' = "labels"
      /\ cursor \in 1 .. Len(source) /\ cursor' = cursor + 1
      /\ source' = source /\ offset_max' = offset_max /\ outbuf' = outbuf /\ where' = where
  BY DEF IInv, Types, SourceOK, LabelsOrg, LabelsPlain, LabelsAppend, AtLine, NextLine
<1>2. PICK f, g : Walk(source, f, cursor) /\ f[cursor] = offset
                    /\ Marks(labels, source, g, f, cursor)
  BY <1>1 DEF IInv, FirstPass
<1>3. o \in Ints /\ o = After(source[cursor], f[cursor])
  <2>0. /\ offset \in Ints /\ AsInt(offset + 1) \in Ints
        /\ source[cursor].op = ".org" => AsInt(source[cursor].args[1].num) \in Ints
    <3>1. offset \in Ints /\ OperandsOK(source[cursor])
      BY <1>1 DEF IInv, Types, SourceOK
    <3>2. offset + 1 \in Int
      BY <3>1 DEF Ints
    <3> QED
      BY <3>1, <3>2, IntTyped DEF OperandsOK
  <2>1. CASE LabelsOrg
    BY <1>2, <2>0, <2>1 DEF LabelsOrg, At, After
  <2>2. CASE LabelsPlain
    BY <1>2, <2>0, <2>2 DEF LabelsPlain, At, After
  <2>3. CASE LabelsAppend
    BY <1>2, <2>0, <2>3 DEF LabelsAppend, At, After
  <2>4. QED
    BY <2>1, <2>2, <2>3
<1>4. Walk(source, Extend(f, cursor, o), cursor + 1)
  <2> HIDE DEF o
  <2>1. QED
    BY <1>1, <1>2, <1>3, WalkExtends
<1>5. labels' \in Seq([name : Names, offset : Ints])
      /\ \E gg : Marks(labels', source, gg, Extend(f, cursor, o), cursor + 1)
  <2>1. CASE LabelsOrg \/ LabelsPlain
    <3>1. labels' = labels /\ (source[cursor].label = Null \/ source[cursor].op = ".org")
      BY <2>1 DEF LabelsOrg, LabelsPlain, At
    <3>2. Marks(labels, source, g, Extend(f, cursor, o), cursor + 1)
      <4> HIDE DEF o
      <4>1. cursor \in Nat \ {0}
        BY <1>1
      <4>2. QED
        BY <1>2, <3>1, <4>1, MarksKept
    <3>3. QED
      BY <3>1, <3>2 DEF IInv, Types
  <2>2. CASE LabelsAppend
    <3> DEFINE e == [name |-> source[cursor].label, offset |-> f[cursor]]
               S == [name : Names, offset : Ints]
    <3>1. labels' = Append(labels, e) /\ source[cursor].op # ".org"
      BY <1>2, <2>2 DEF LabelsAppend, At
    <3>2. e \in S /\ labels \in Seq(S)
      BY <1>1, <1>2 DEF IInv, Types, SourceOK
    <3>3. e.name = source[cursor].label /\ e.offset = f[cursor]
      OBVIOUS
    <3> HIDE DEF e, S, o
    <3>4. /\ labels' \in Seq(S)
          /\ Len(labels) \in Nat /\ Len(labels') = Len(labels) + 1
          /\ labels'[Len(labels) + 1] = e
          /\ \A k \in 1 .. Len(labels) : labels'[k] = labels[k]
      BY <3>1, <3>2, Appended
    <3>5. \E gg : Marks(labels', source, gg, Extend(f, cursor, o), cursor + 1)
      <4>1. cursor \in Nat \ {0}
        BY <1>1
      <4>2. /\ labels'[Len(labels) + 1].name = source[cursor].label
            /\ labels'[Len(labels) + 1].offset = f[cursor]
        BY <3>3, <3>4
      <4>3. QED
        BY <1>2, <3>1, <3>4, <4>1, <4>2, MarksGrow
    <3>6. QED
      BY <3>4, <3>5 DEF S
  <2>3. QED
    BY <2>1, <2>2
<1>6. Extend(f, cursor, o)[cursor + 1] = o
  BY <1>1 DEF Extend
<1>7. FirstPass'
  <2> HIDE DEF o
  <2>1. o = offset'
    BY DEF o
  <2>2. QED
    BY <1>1, <1>4, <1>5, <1>6, <2>1 DEF FirstPass
<1>8. SecondPass'
  BY <1>1 DEF SecondPass
<1>9. Types'
  BY <1>1, <1>3, <1>5 DEF IInv, Types, SourceOK
<1>10. Strays'
  BY <1>1 DEF Strays
<1>11. QED
  BY <1>7, <1>8, <1>9, <1>10 DEF IInv

---------------------------------------------------------------------------
(* Between the passes, and the second pass                                 *)

LEMMA TurnStep == ASSUME IInv, LabelsEnd PROVE IInv'
<1>1. /\ pass = "labels" /\ pass' = "opcodes" /\ cursor = Len(source) + 1 /\ cursor' = 1
      /\ offset' = 0 /\ offset_max' = 0
      /\ UNCHANGED <<source, labels, outbuf, where>>
  BY DEF IInv, Types, SourceOK, LabelsEnd
<1>2. PICK f, g : Walk(source, f, cursor) /\ Marks(labels, source, g, f, cursor)
  BY <1>1 DEF IInv, FirstPass
<1>3. where = <<>>
  BY <1>1 DEF IInv, Types
<1>4. SecondPass'
  BY <1>1, <1>2, <1>3 DEF SecondPass, Walk
<1>5. Types'
  BY <1>1, <1>3, AsmAssumption DEF IInv, Types, SourceOK, Ints
<1>6. Strays'
  BY <1>1 DEF Strays
<1>7. QED
  BY <1>1, <1>4, <1>5, <1>6 DEF IInv, FirstPass

\* The second pass leaves a line, and its location counter moves as the walk does.
LEMMA SecondPassLine ==
    ASSUME IInv, pass = "opcodes", cursor \in 1 .. Len(source),
           source' = source, labels' = labels, Left,
           pass' \in {"opcodes", "failed"},
           offset' = After(source[cursor], offset)
    PROVE  SecondPass'
<1>1. PICK f, g : /\ Walk(source, f, Len(source) + 1)
                  /\ Marks(labels, source, g, f, Len(source) + 1)
                  /\ \A n \in 1 .. Len(where) : where[n] = f[n]
                  /\ offset = f[cursor]
  BY DEF IInv, SecondPass
<1>2. offset' = f[cursor + 1] /\ cursor' = cursor + 1
  BY <1>1 DEF Walk, Left, NextLine, IInv, Types, SourceOK
<1>3. \A n \in 1 .. Len(where') : where'[n] = f[n]
  BY <1>1 DEF Left, IInv, Types
<1>4. QED
  BY <1>1, <1>2, <1>3 DEF SecondPass

\* Only an .org takes the location counter below the buffer: a word is written inside it.
LEMMA StraysStep == ASSUME IInv, generate_opcodes PROVE Strays'
<1>1. /\ pass = "opcodes" /\ source' = source
      /\ Len(source) \in Nat /\ cursor \in 1 .. Len(source) + 1
      /\ offset \in Ints /\ offset_max \in Nat /\ offset <= offset_max /\ offset_max < MAX_WORDS
      /\ offset < 0 => \E n \in 1 .. cursor - 1 : Below(n)
  <2>1. pass = "opcodes" /\ source' = source
    BY DEF generate_opcodes, OpcodesLabelOnly, OpcodesOrg, OpcodesData, OpcodesDataFails, OpcodesWild,
       OpcodesInstruction, OpcodesInstructionFails, OpcodesEnd, Emit, Fail, AtLine
  <2> QED
    BY <2>1 DEF IInv, Types, SourceOK, Strays
<1>2. CASE OpcodesLabelOnly
  <2>1. /\ cursor' = cursor + 1 /\ offset' = offset /\ pass' = pass
        /\ source[cursor].op # ".org"
    BY <1>2 DEF OpcodesLabelOnly, Left, NextLine, At, Null
  <2>2. \A n \in 1 .. cursor - 1 : Below(n) => Below(n)'
    BY <1>1, <2>1 DEF Below
  <2> QED
    BY <1>1, <2>1, <2>2 DEF Strays
<1>3. CASE OpcodesOrg
  <2>1. /\ cursor' = cursor + 1 /\ source[cursor].op = ".org" /\ pass' # "wild"
        /\ offset' = AsInt(source[cursor].args[1].num)
    BY <1>1, <1>3 DEF OpcodesOrg, Left, NextLine, Advance, At
  <2>2. PICK n \in 1 .. cursor' - 1 : n = cursor
    BY <1>1, <2>1
  <2>3. offset' < 0 => Below(n)'
    BY <1>1, <2>1, <2>2 DEF Below
  <2> QED
    BY <2>1, <2>3 DEF Strays
<1>4. ASSUME NEW word, Emit(word) PROVE Strays'
  <2>1. offset \in 0 .. MAX_WORDS - 1 /\ offset' = offset + 1 /\ pass' # "wild"
    BY <1>1, <1>4 DEF Emit, Inside, Advance
  <2> QED
    BY <2>1 DEF Strays
<1>5. CASE OpcodesDataFails \/ OpcodesInstructionFails \/ OpcodesEnd
  BY <1>5 DEF OpcodesDataFails, OpcodesInstructionFails, OpcodesEnd, Fail, Strays
<1>6. CASE OpcodesWild
  <2>1. cursor' = cursor /\ offset' = offset /\ offset < 0
    BY <1>1, <1>6, AsmAssumption DEF OpcodesWild, Inside, Ints
  <2> QED
    BY <1>1, <2>1 DEF Strays, Below
<1> QED
  BY <1>2, <1>3, <1>4, <1>5, <1>6 DEF generate_opcodes, OpcodesData, OpcodesInstruction

LEMMA SecondPassStep == ASSUME IInv, generate_opcodes PROVE IInv'
<1>1. /\ pass = "opcodes" /\ pass' # "labels"
      /\ source' = source /\ labels' = labels
  BY DEF generate_opcodes, OpcodesLabelOnly, OpcodesOrg, OpcodesData, OpcodesDataFails, OpcodesWild,
         OpcodesInstruction, OpcodesInstructionFails, OpcodesEnd, Emit, Fail, AtLine, Advance
<1>2. FirstPass' /\ Strays'
  BY <1>1, StraysStep DEF FirstPass
<1>3. ASSUME AtLine("opcodes") PROVE cursor \in 1 .. Len(source)
  BY <1>3 DEF AtLine, IInv, Types, SourceOK
<1>4. CASE OpcodesLabelOnly
  <2>1. offset' = After(source[cursor], offset)
    BY <1>4 DEF OpcodesLabelOnly, At, After, Null
  <2>2. SecondPass'
    BY <1>1, <1>3, <1>4, <2>1, SecondPassLine DEF OpcodesLabelOnly
  <2>3. Types'
    BY <1>1, <1>3, <1>4 DEF OpcodesLabelOnly, Left, NextLine, IInv, Types, SourceOK
  <2>4. QED
    BY <1>2, <2>2, <2>3 DEF IInv
<1>5. CASE OpcodesOrg
  <2>1. offset' = After(source[cursor], offset) /\ offset' \in Ints
    BY <1>3, <1>5, IntTyped DEF OpcodesOrg, Advance, At, After, IInv, Types, SourceOK, OperandsOK
  <2>2. pass' \in {"opcodes", "failed"}
    BY <1>1, <1>5 DEF OpcodesOrg, Advance
  <2>3. SecondPass'
    BY <1>1, <1>3, <1>5, <2>1, <2>2, SecondPassLine DEF OpcodesOrg
  <2>4. outbuf' = outbuf /\ cursor' = cursor + 1 /\ where' = Append(where, offset)
    BY <1>5 DEF OpcodesOrg, Left, NextLine
  <2>5. /\ offset_max' \in Nat
        /\ pass' = "opcodes" => offset' <= offset_max' /\ offset_max' < MAX_WORDS
    BY <1>1, <1>5, <2>1, AsmAssumption DEF OpcodesOrg, Advance, IInv, Types, Ints
  <2>6. Types'
    BY <1>1, <1>3, <1>5, <2>1, <2>2, <2>4, <2>5 DEF OpcodesOrg, IInv, Types, SourceOK
  <2>7. QED
    BY <1>2, <2>3, <2>6 DEF IInv
<1>6. ASSUME NEW word, Emit(word), AtLine("opcodes"), At.op \notin {Null, ".org"}
      PROVE  IInv'
  <2>1. offset' = After(source[cursor], offset)
    <3>1. AsInt(offset + 1) = offset + 1
      BY <1>6, AsmAssumption, IntKept DEF Emit, Inside, Ints
    <3> QED
      BY <1>6, <3>1 DEF Emit, Advance, At, After
  <2>2. pass' \in {"opcodes", "failed"}
    BY <1>1, <1>6 DEF Emit, Advance
  <2>3. SecondPass'
    BY <1>1, <1>3, <1>6, <2>1, <2>2, SecondPassLine DEF Emit
  <2>4. Types'
    BY <1>6, EmitTypes DEF IInv
  <2>5. QED
    BY <1>2, <2>3, <2>4 DEF IInv
<1>7. CASE OpcodesData
  BY <1>6, <1>7 DEF OpcodesData, DataAccepted, Null
<1>8. CASE OpcodesInstruction
  BY <1>6, <1>8 DEF OpcodesInstruction
<1>9. CASE OpcodesDataFails \/ OpcodesInstructionFails \/ OpcodesWild \/ OpcodesEnd
  <2>1. /\ pass' \in {"failed", "done", "wild"}
        /\ UNCHANGED <<source, cursor, offset, offset_max, labels, outbuf, where>>
    BY <1>9 DEF OpcodesDataFails, OpcodesInstructionFails, OpcodesWild, OpcodesEnd, Fail
  <2>2. SecondPass'
    BY <1>1, <2>1 DEF IInv, SecondPass
  <2>3. Types'
    BY <1>1, <2>1 DEF IInv, Types, SourceOK
  <2>4. QED
    BY <1>2, <2>2, <2>3 DEF IInv
<1>10. QED
  BY <1>4, <1>5, <1>7, <1>8, <1>9 DEF generate_opcodes

---------------------------------------------------------------------------
(* What the invariant means for a label                                    *)

\* A set of numbers has a least one.
LEMMA LeastNumber ==
    ASSUME NEW I \in SUBSET Nat, I # {}
    PROVE  Min(I) \in I /\ \A j \in I : Min(I) <= j
<1> DEFINE R == OpToRel(<, Nat)
           S == Nat
<1>1. IsWellFoundedOn(R, S)
  BY NatLessThanWellFounded
<1>2. \A i \in Nat, j \in Nat : <<i, j>> \in R <=> i < j
  BY DEF OpToRel
<1>3. I \subseteq S /\ I # {}
  OBVIOUS
<1> HIDE DEF R, S
<1>4. \E i \in I : \A j \in I : ~ (<<j, i>> \in R)
  BY <1>1, <1>3, WFMin
<1>5. PICK i \in I : \A j \in I : ~ (<<j, i>> \in R)
  BY <1>4
<1>6. ASSUME NEW j \in I PROVE i <= j
  <2>1. i \in Nat /\ j \in Nat
    BY <1>3, <1>6 DEF S
  <2>2. ~ (j < i)
    BY <1>2, <1>5, <1>6, <2>1
  <2> QED
    BY <2>1, <2>2
<1> QED
  BY <1>6 DEF Min

\* FirstLabel, on any list.
FirstIn(list, name) == SelectInSeq(list, LAMBDA l : l.name = name)

\* It is the first entry with the name, or zero.
LEMMA FirstIsIn ==
    ASSUME NEW list, Len(list) \in Nat, NEW name
    PROVE  \/ FirstIn(list, name) = 0 /\ \A i \in 1 .. Len(list) : list[i].name # name
           \/ /\ FirstIn(list, name) \in 1 .. Len(list)
              /\ list[FirstIn(list, name)].name = name
              /\ \A i \in 1 .. Len(list) : list[i].name = name => FirstIn(list, name) <= i
<1> DEFINE I == {i \in 1 .. Len(list) : list[i].name = name}
<1>1. FirstIn(list, name) = IF I # {} THEN Min(I) ELSE 0
  BY DEF FirstIn, SelectInSeq
<1>2. I \in SUBSET Nat /\ I \subseteq 1 .. Len(list)
  OBVIOUS
<1>3. \A i : i \in I <=> i \in 1 .. Len(list) /\ list[i].name = name
  OBVIOUS
<1> HIDE DEF I
<1>4. CASE I = {}
  BY <1>1, <1>3, <1>4
<1>5. CASE I # {}
  <2>1. Min(I) \in I /\ \A j \in I : Min(I) <= j
    BY <1>2, <1>5, LeastNumber
  <2>2. FirstIn(list, name) \in I /\ \A j \in I : FirstIn(list, name) <= j
    BY <1>1, <1>5, <2>1
  <2> QED
    BY <1>3, <2>2
<1> QED
  BY <1>4, <1>5

LEMMA Members ==
    ASSUME NEW S, NEW list \in Seq(S)
    PROVE  Len(list) \in Nat /\ \A i \in 1 .. Len(list) : list[i] \in S
OBVIOUS

\* The entry of a label is the one of the first line that defines it ...
LEMMA LabelFound ==
    ASSUME IInv, pass # "labels",
           NEW n \in 1 .. Len(where), NEW name, name # Null, FirstDefinition(n, name)
    PROVE  FirstIn(labels, name) \in 1 .. Len(labels)
           /\ labels[FirstIn(labels, name)].offset = where[n]
<1>1. Len(where) \in Nat /\ Len(where) <= Len(source) /\ Len(source) \in Nat /\ Len(labels) \in Nat
  BY DEF IInv, Types, SourceOK
<1>2. PICK f, g : /\ Marks(labels, source, g, f, Len(source) + 1)
                  /\ \A m \in 1 .. Len(where) : where[m] = f[m]
  BY DEF IInv, SecondPass
<1>3. n \in 1 .. (Len(source) + 1) - 1 /\ source[n].op # ".org" /\ source[n].label = name
  BY <1>1 DEF FirstDefinition, Defines
<1>4. PICK k \in 1 .. Len(labels) : g[k] = n
  BY <1>2, <1>3 DEF Marks
<1>5. labels[k].name = name /\ labels[k].offset = f[n]
  BY <1>2, <1>3, <1>4 DEF Marks
<1>6. PICK i : i = FirstIn(labels, name)
  OBVIOUS
<1>7. i \in 1 .. Len(labels) /\ labels[i].name = name /\ i <= k
  BY <1>1, <1>5, <1>6, FirstIsIn
<1>8. Defines(g[i], name) /\ g[i] \in Nat \ {0}
  BY <1>1, <1>2, <1>7 DEF Marks, Defines
<1>9. g[i] >= n
  BY <1>8 DEF FirstDefinition
<1>10. i < k => g[i] < n
  BY <1>2, <1>4, <1>7 DEF Marks
<1>11. i = k
  BY <1>7, <1>8, <1>9, <1>10
<1> QED
  BY <1>2, <1>5, <1>6, <1>7, <1>11

\* ... and every entry comes from such a line.
LEMMA LineOfLabel ==
    ASSUME IInv, pass # "labels", Len(where) = Len(source),
           NEW name, name # Null, FirstIn(labels, name) # 0
    PROVE  \E m \in 1 .. Len(where) :
              FirstDefinition(m, name) /\ where[m] = labels[FirstIn(labels, name)].offset
<1>1. Len(source) \in Nat /\ Len(labels) \in Nat
  BY DEF IInv, Types, SourceOK
<1>2. PICK f, g : /\ Marks(labels, source, g, f, Len(source) + 1)
                  /\ \A m \in 1 .. Len(where) : where[m] = f[m]
  BY DEF IInv, SecondPass
<1>3. PICK i : i = FirstIn(labels, name)
  OBVIOUS
<1>4. /\ i \in 1 .. Len(labels) /\ labels[i].name = name
      /\ \A j \in 1 .. Len(labels) : labels[j].name = name => i <= j
  BY <1>1, <1>3, FirstIsIn
<1>5. PICK m \in 1 .. Len(source) : m = g[i]
  BY <1>1, <1>2, <1>4 DEF Marks
<1>6. Defines(m, name) /\ labels[i].offset = f[m]
  BY <1>2, <1>4, <1>5 DEF Marks, Defines
<1>7. ASSUME NEW l \in 1 .. m - 1, Defines(l, name) PROVE FALSE
  <2>1. l \in 1 .. (Len(source) + 1) - 1 /\ source[l].label # Null /\ source[l].op # ".org"
    BY <1>1, <1>7 DEF Defines
  <2>2. PICK j \in 1 .. Len(labels) : g[j] = l
    BY <1>2, <2>1 DEF Marks
  <2>3. labels[j].name = name
    BY <1>2, <1>7, <2>2 DEF Marks, Defines
  <2>4. i <= j
    BY <1>4, <2>3
  <2>5. i < j => m < l
    BY <1>2, <1>4, <1>5, <2>2 DEF Marks
  <2> QED
    BY <1>1, <1>4, <1>5, <1>7, <2>2, <2>4, <2>5
<1>8. FirstDefinition(m, name)
  BY <1>6, <1>7 DEF FirstDefinition
<1> QED
  BY <1>2, <1>3, <1>5, <1>6, <1>8

\* So find_offset finds where the line is.
LEMMA InvariantAgrees == IInv => LabelsAgree
<1> SUFFICES ASSUME IInv, NEW n \in 1 .. Len(where), NEW name,
                    name = source[n].label, name # Null, FirstDefinition(n, name)
             PROVE  find_offset(LabelRef("@", name, Null)) = where[n]
  BY DEF LabelsAgree
<1>1. pass # "labels"
  BY DEF IInv, Types
<1>2. FirstIn(labels, name) \in 1 .. Len(labels) /\ labels[FirstIn(labels, name)].offset = where[n]
  BY <1>1, LabelFound
<1>3. FirstLabel(name) = FirstIn(labels, name)
  BY DEF FirstLabel, FirstIn
<1> QED
  BY <1>2, <1>3 DEF find_offset, LabelRef, Null

---------------------------------------------------------------------------
\* The inductive invariant: both passes take the same walk through the source, and the
\* labels are its marks.
THEOREM AsmInvariant == AsmSpec => []IInv
<1>1. ASSUME IInv, [AsmNext]_asmVars PROVE IInv'
  <2>1. CASE generate_labels
    BY <1>1, <2>1, FirstPassStep, TurnStep DEF generate_labels
  <2>2. CASE generate_opcodes
    BY <1>1, <2>2, SecondPassStep
  <2>3. CASE UNCHANGED asmVars
    BY <1>1, <2>3 DEF asmVars, IInv, Types, SourceOK, FirstPass, SecondPass, Strays, Below
  <2>4. QED
    BY <1>1, <2>1, <2>2, <2>3 DEF AsmNext
<1>2. QED
  BY InitIsFresh, FreshInvariant, <1>1, PTL DEF AsmSpec

\* No source makes generate_opcodes write at or past the end of its array, however .org
\* lines move the location counter back and forth, nor before its start unless the last
\* .org before the word has an address that is negative as an int.
THEOREM AsmOutbufBounded == AsmSpec => []OutbufBounded
<1>1. IInv => OutbufBounded
  BY DEF IInv, Strays, Below, OutbufBounded
<1>2. QED
  BY <1>1, AsmInvariant, PTL

\* For every source, generate_opcodes comes to the first line that defines a label with
\* the offset generate_labels recorded for the label.
THEOREM AsmLabelsAgree == AsmSpec => []LabelsAgree
BY InvariantAgrees, AsmInvariant, PTL
---------------------------------------------------------------------------
(* The image: what the words are of the lines that nothing was put on top  *)
(* of.                                                                     *)

\* find_offset and Value, on a list of labels and at an offset.
OffsetIn(list, ref) ==
    LET n == FirstIn(list, ref.label)
        ret == IF n = 0 THEN -1 ELSE list[n].offset
    IN  CASE ref.part = "h" -> ret \div 256
          [] ref.part = "l" -> ret % 256
          [] OTHER -> ret

ValueIn(list, o, arg) ==
    CASE arg.kind = "%" ->
            IF OffsetIn(list, arg) = -1 THEN MAX_WORDS + 1 ELSE AsInt(OffsetIn(list, arg) - o)
      [] arg.kind = "@" -> OffsetIn(list, arg)
      [] OTHER -> AsInt(arg.num)

LEMMA ValueIsIn == \A arg : Value(arg) = ValueIn(labels, offset, arg)
BY DEF Value, ValueIn, OffsetIn, FirstIn, find_reloff, find_offset, FirstLabel

\* The operands of a line were accepted at offset o, and the word they make is there.
EmittedIn(list, buf, o, op, args) ==
    /\ \A k \in DOMAIN RowOf(op).syntax :
          /\ args[k].kind \in Starts(RowOf(op).syntax[k])
          /\ InRange(RowOf(op).syntax[k], ValueIn(list, o, args[k]))
    /\ o \in DOMAIN buf
    /\ buf[o] = assemble_instruction(op, [k \in DOMAIN args |-> ValueIn(list, o, args[k])])

Emitted(n) == EmittedIn(labels, outbuf, where[n], source[n].op, source[n].args)

Image == \A n \in 1 .. Len(where) : Survives(n) => Emitted(n)

Buffer == \A o \in DOMAIN outbuf : o \in 0 .. MAX_WORDS - 1 /\ outbuf[o] \in Word

\* A pass that ends has been at every line, and never at the end of the buffer.
Complete ==
    pass = "done" => Len(where) = Len(source) /\ cursor = Len(source) + 1 /\ offset_max < MAX_WORDS

ImageInv == IInv /\ Image /\ Buffer /\ Complete

\* The directives are no instructions.
LEMMA Directives == Null \notin Nmemonics /\ ".org" \notin Nmemonics /\ ".data" \notin Nmemonics
<1>1. ASSUME NEW op \in Nmemonics PROVE \E i \in 1 .. 44 : op = InOrder[i]
  BY <1>1, RowOfNmemonic, PlaceOfRow
<1>2. \A i \in 1 .. 44 : InOrder[i] # "null" /\ InOrder[i] # ".org" /\ InOrder[i] # ".data"
  BY DEF InOrder
<1> QED
  BY <1>1, <1>2 DEF Null

\* What the lookup needs of a list of labels.
Offsets(list) == Len(list) \in Nat /\ \A i \in 1 .. Len(list) : list[i].offset \in Ints

LEMMA OffsetsOfLabels == ASSUME Types PROVE Offsets(labels)
<1> DEFINE S == [name : Names, offset : Ints]
<1>1. labels \in Seq(S)
  BY DEF Types
<1>2. \A e \in S : e.offset \in Ints
  OBVIOUS
<1> HIDE DEF S
<1>3. Len(labels) \in Nat /\ \A i \in 1 .. Len(labels) : labels[i] \in S
  BY <1>1, Members
<1> QED
  BY <1>2, <1>3 DEF Offsets

LEMMA OffsetTyped ==
    ASSUME NEW list, Offsets(list), NEW ref
    PROVE  OffsetIn(list, ref) \in Int
<1>0. PICK name : name = ref.label
  OBVIOUS
<1>1. PICK n : n = FirstIn(list, name)
  OBVIOUS
<1>3. n = 0 \/ n \in 1 .. Len(list)
  BY <1>1, FirstIsIn DEF Offsets
<1>4. n \in 1 .. Len(list) => list[n].offset \in Int
  BY DEF Offsets, Ints
<1>5. PICK ret : ret = IF n = 0 THEN -1 ELSE list[n].offset
  OBVIOUS
<1>6. ret \in Int
  BY <1>3, <1>4, <1>5
<1>7. ret \div 256 \in Int /\ ret % 256 \in Int
  BY <1>6
<1>8. OffsetIn(list, ref) = CASE ref.part = "h" -> ret \div 256
                              [] ref.part = "l" -> ret % 256
                              [] OTHER -> ret
  BY <1>0, <1>1, <1>5 DEF OffsetIn
<1> QED
  BY <1>6, <1>7, <1>8

LEMMA ValueTyped ==
    ASSUME NEW list, Offsets(list), NEW o \in Int, NEW arg, OperandOK(arg)
    PROVE  ValueIn(list, o, arg) \in Int
<1>1. PICK x \in Int : x = OffsetIn(list, arg)
  BY OffsetTyped
<1>2. AsInt(x - o) \in Int
  BY <1>1, IntTyped DEF Ints
<1>3. arg.num \in Int => AsInt(arg.num) \in Int
  BY IntTyped DEF Ints
<1> QED
  BY <1>1, <1>2, <1>3, AsmAssumption DEF ValueIn, OperandOK

\* What is put in the buffer at one line leaves the words of the others that survive it.
LEMMA EmitImage ==
    ASSUME Types, Image, AtLine("opcodes"), NEW word, Emit(word),
           At.op \notin {Null, ".org"},
           At.op \in Nmemonics =>
              /\ Accepted(At.op, At.args)
              /\ word = assemble_instruction(At.op, [n \in DOMAIN At.args |-> Value(At.args[n])])
    PROVE  Image'
<1>1. /\ where \in Seq(Ints) /\ offset \in Ints /\ where' = Append(where, offset)
      /\ cursor = Len(where) + 1 /\ source' = source /\ labels' = labels
      /\ outbuf' = [o \in DOMAIN outbuf \cup {offset} |-> IF o = offset THEN word ELSE outbuf[o]]
  BY DEF Types, Emit, Left, AtLine
<1>2. /\ Len(where') = Len(where) + 1 /\ where'[cursor] = offset /\ Len(where) \in Nat
      /\ \A n \in 1 .. Len(where) : where'[n] = where[n]
  BY <1>1
<1> SUFFICES ASSUME NEW n \in 1 .. Len(where'), Survives(n)' PROVE Emitted(n)'
  BY DEF Image
<1>3. PICK list, buf, o, op, args :
        /\ list = labels' /\ buf = outbuf' /\ o = where'[n] /\ op = source[n].op /\ args = source[n].args
  OBVIOUS
<1>4. op \in Nmemonics
  BY <1>1, <1>3 DEF Survives
<1>5. CASE n = cursor
  <2>1. Accepted(op, args) /\ word = assemble_instruction(op, [k \in DOMAIN args |-> Value(args[k])])
    BY <1>3, <1>4, <1>5 DEF At
  <2>2. \A arg : Value(arg) = ValueIn(list, o, arg)
    BY <1>1, <1>2, <1>3, <1>5, ValueIsIn
  <2>3. o \in DOMAIN buf /\ buf[o] = word
    BY <1>1, <1>2, <1>3, <1>5
  <2>4. EmittedIn(list, buf, o, op, args)
    BY <2>1, <2>2, <2>3 DEF EmittedIn, Accepted
  <2> QED
    BY <1>1, <1>3, <2>4 DEF Emitted
<1>6. CASE n \in 1 .. Len(where)
  <2>1. Survives(n)
    BY <1>1, <1>2, <1>6 DEF Survives
  <2>2. EmittedIn(list, outbuf, o, op, args)
    BY <1>1, <1>2, <1>3, <1>6, <2>1 DEF Image, Emitted
  <2>3. o # offset
    <3>1. cursor \in n + 1 .. Len(where')
      BY <1>1, <1>2, <1>6
    <3>2. source[cursor].op \notin {Null, ".org"}
      BY DEF At
    <3> QED
      BY <1>1, <1>2, <1>3, <3>1, <3>2 DEF Survives
  <2>4. o \in DOMAIN buf /\ buf[o] = outbuf[o]
    BY <1>1, <1>3, <2>2, <2>3 DEF EmittedIn
  <2>5. EmittedIn(list, buf, o, op, args)
    BY <2>2, <2>4 DEF EmittedIn
  <2> QED
    BY <1>1, <1>3, <2>5 DEF Emitted
<1> QED
  BY <1>1, <1>2, <1>5, <1>6

\* A line without a word leaves the image.
LEMMA QuietImage ==
    ASSUME Types, Image, pass = "opcodes", source' = source, labels' = labels, outbuf' = outbuf, Left,
           cursor \in 1 .. Len(source), At.op \in {Null, ".org"}
    PROVE  Image'
<1>1. where \in Seq(Ints) /\ offset \in Ints /\ where' = Append(where, offset) /\ cursor = Len(where) + 1
  BY DEF Types, Left
<1>2. /\ Len(where') = Len(where) + 1 /\ Len(where) \in Nat
      /\ \A n \in 1 .. Len(where) : where'[n] = where[n]
  BY <1>1
<1> SUFFICES ASSUME NEW n \in 1 .. Len(where'), Survives(n)' PROVE Emitted(n)'
  BY DEF Image
<1>3. n # cursor
  BY Directives DEF Survives, At
<1>4. n \in 1 .. Len(where) /\ Survives(n)
  BY <1>1, <1>2, <1>3 DEF Survives
<1> QED
  BY <1>2, <1>4 DEF Image, Emitted

\* Every word that is emitted is one.
LEMMA DataIsWord ==
    ASSUME Types, AtLine("opcodes"), OpcodesData
    PROVE  (IF At.args[1].kind = "@" THEN find_offset(At.args[1]) ELSE At.args[1].num) % 2^16 \in Word
<1>1. OperandOK(At.args[1]) /\ At.args[1].kind \in {"@", "#"}
  BY DEF Types, SourceOK, AtLine, OpcodesData, DataAccepted, At, OperandsOK
<1>2. PICK v \in Int : v = IF At.args[1].kind = "@" THEN find_offset(At.args[1]) ELSE At.args[1].num
  <2>1. find_offset(At.args[1]) = OffsetIn(labels, At.args[1])
    BY DEF find_offset, OffsetIn, FirstLabel, FirstIn
  <2>2. find_offset(At.args[1]) \in Int
    BY <2>1, OffsetTyped, OffsetsOfLabels
  <2>3. At.args[1].kind # "@" => At.args[1].num \in Int
    BY <1>1 DEF OperandOK
  <2> QED
    BY <2>2, <2>3
<1>3. v % 65536 \in Int /\ 0 <= v % 65536 /\ v % 65536 < 65536
  BY <1>2
<1> QED
  BY <1>2, <1>3, IsWord, Powers

LEMMA InstructionIsWord ==
    ASSUME Types, AtLine("opcodes"), OpcodesInstruction
    PROVE  assemble_instruction(At.op, [n \in DOMAIN At.args |-> Value(At.args[n])]) \in Word
<1>1. PICK op, args : op = At.op /\ args = At.args
  OBVIOUS
<1>2. op \in Nmemonics
  BY <1>1 DEF OpcodesInstruction, Accepted
<1>3. OperandsOK(source[cursor])
  BY DEF Types, SourceOK, AtLine
<1>4. \A k \in DOMAIN RowOf(op).syntax : k \in DOMAIN args /\ OperandOK(args[k])
  BY <1>1, <1>2, <1>3 DEF OperandsOK, At
<1>5. PICK values : values = [n \in DOMAIN args |-> Value(args[n])]
  OBVIOUS
<1>6. \A k \in DOMAIN RowOf(op).syntax : values[k] \in Int
  BY <1>4, <1>5, ValueTyped, ValueIsIn, OffsetsOfLabels DEF Types, Ints
<1>7. PICK word : word = assemble_instruction(op, values)
  OBVIOUS
<1>8. word \in Word
  BY <1>2, <1>6, <1>7, Assembled
<1> QED
  BY <1>1, <1>5, <1>7, <1>8

LEMMA ImageStep ==
    ASSUME ImageInv, generate_labels \/ generate_opcodes
    PROVE  Image' /\ Buffer' /\ Complete'
<1>1. Types
  BY DEF ImageInv, IInv
<1>2. CASE generate_labels
  <2>1. where = <<>> /\ where' = where /\ outbuf' = outbuf /\ pass' # "done"
    BY <1>1, <1>2 DEF Types, generate_labels, LabelsOrg, LabelsPlain, LabelsAppend, LabelsEnd, AtLine
  <2> QED
    BY <2>1 DEF ImageInv, Image, Buffer, Complete
<1>3. ASSUME AtLine("opcodes") PROVE cursor \in 1 .. Len(source) /\ pass = "opcodes"
  BY <1>1, <1>3 DEF AtLine, Types, SourceOK
<1>4. CASE OpcodesLabelOnly \/ OpcodesOrg
  <2>1. /\ AtLine("opcodes") /\ source' = source /\ labels' = labels /\ outbuf' = outbuf /\ Left
        /\ At.op \in {Null, ".org"} /\ pass' # "done"
    BY <1>4 DEF OpcodesLabelOnly, OpcodesOrg, Advance, AtLine
  <2>2. Image'
    BY <1>1, <1>3, <2>1, QuietImage DEF ImageInv
  <2> QED
    BY <2>1, <2>2 DEF ImageInv, Buffer, Complete
<1>5. ASSUME NEW word \in Word, Emit(word), AtLine("opcodes")
      PROVE  Buffer' /\ Complete'
  <2>1. pass' # "done"
    BY <1>5 DEF Emit, Advance, AtLine
  <2>2. /\ outbuf' = [o \in DOMAIN outbuf \cup {offset} |-> IF o = offset THEN word ELSE outbuf[o]]
        /\ offset \in 0 .. MAX_WORDS - 1
    BY <1>5 DEF Emit, Inside
  <2> QED
    BY <2>1, <2>2 DEF ImageInv, Buffer, Complete
<1>6. CASE OpcodesData
  <2>1. AtLine("opcodes") /\ At.op = ".data"
    BY <1>6 DEF OpcodesData, DataAccepted
  <2>2. PICK word : word = (IF At.args[1].kind = "@" THEN find_offset(At.args[1])
                                                   ELSE At.args[1].num) % 2^16
    OBVIOUS
  <2>3. Emit(word) /\ word \in Word
    BY <1>1, <1>6, <2>1, <2>2, DataIsWord DEF OpcodesData
  <2>4. Image'
    BY <1>1, <2>1, <2>3, EmitImage, Directives DEF ImageInv, Null
  <2> QED
    BY <1>5, <2>1, <2>3, <2>4
<1>7. CASE OpcodesInstruction
  <2>1. AtLine("opcodes") /\ At.op \notin {Null, ".org"} /\ Accepted(At.op, At.args)
    BY <1>7 DEF OpcodesInstruction
  <2>2. PICK word : word = assemble_instruction(At.op, [n \in DOMAIN At.args |-> Value(At.args[n])])
    OBVIOUS
  <2>3. Emit(word)
    BY <1>7, <2>2 DEF OpcodesInstruction
  <2>4. word \in Word
    BY <1>1, <1>7, <2>1, <2>2, InstructionIsWord
  <2>5. Image'
    BY <1>1, <2>1, <2>2, <2>3, EmitImage DEF ImageInv
  <2> QED
    BY <1>5, <2>1, <2>3, <2>4, <2>5
<1>8. CASE OpcodesDataFails \/ OpcodesInstructionFails \/ OpcodesWild \/ OpcodesEnd
  <2>1. UNCHANGED <<source, cursor, offset, offset_max, labels, outbuf, where>>
    BY <1>8 DEF OpcodesDataFails, OpcodesInstructionFails, OpcodesWild, OpcodesEnd, Fail
  <2>2. Image' /\ Buffer'
    BY <2>1 DEF ImageInv, Image, Emitted, Survives, Buffer
  <2>3. Complete'
    <3>1. CASE OpcodesDataFails \/ OpcodesInstructionFails \/ OpcodesWild
      BY <3>1 DEF OpcodesDataFails, OpcodesInstructionFails, OpcodesWild, Fail, Complete
    <3>2. CASE OpcodesEnd
      <4>1. pass = "opcodes" /\ cursor > Len(source) /\ cursor' = cursor
        BY <2>1, <3>2 DEF OpcodesEnd
      <4>2. /\ Len(where) = cursor - 1 /\ cursor = Len(source) + 1 /\ offset_max < MAX_WORDS
        BY <1>1, <4>1 DEF Types, SourceOK
      <4>3. Len(where) = Len(source)
        BY <1>1, <4>2 DEF Types, SourceOK
      <4> QED
        BY <2>1, <4>2, <4>3 DEF Complete
    <3> QED
      BY <1>8, <3>1, <3>2
  <2> QED
    BY <2>2, <2>3
<1> QED
  BY <1>2, <1>4, <1>6, <1>7, <1>8 DEF generate_opcodes

---------------------------------------------------------------------------
(* What the decoder finds in the image.                                    *)

\* The kinds of operand, as Starts tells them apart.
LEMMA KindOfOperand ==
    ASSUME NEW syn \in Syntaxes, NEW kind, kind \in Starts(syn)
    PROVE  /\ kind = "%" => syn.kind = "s"
           /\ kind = "@" => syn.kind = "u"
<1>1. syn.kind = "s" => Starts(syn) = {"%", "#"}
  BY DEF Starts
<1>2. syn.kind = "u" => Starts(syn) = {"@", "#"}
  BY DEF Starts
<1>3. syn.kind \notin {"s", "u"} => Starts(syn) = {syn.kind}
  BY DEF Starts
<1>4. syn.kind \in {"s", "r", "c", "q", "x", "u"}
  BY SyntaxKinds
<1> QED
  BY <1>1, <1>2, <1>3, <1>4

\* A value in range is what is read back, and one below the range of an unsigned operand
\* is read back modulo its width.
LEMMA RangeKept ==
    ASSUME NEW syn \in Syntaxes, NEW v \in Int, InRange(syn, v)
    PROVE  /\ syn.kind = "s" => Operated(syn, v % 2^syn.bits) = v
           /\ syn.kind # "s" => Operated(syn, v % 2^syn.bits) = v % 2^syn.bits
           /\ syn.kind # "s" /\ 0 <= v => Operated(syn, v % 2^syn.bits) = v
<1>1. CASE syn.kind = "s"
  <2>1. syn.bits \in {5, 8, 11}
    BY <1>1, SyntaxKinds
  <2>2. 2^(syn.bits - 1) \in Int
    BY <2>1, HalfPowers
  <2>3. Fits(syn, v)
    BY <1>1, <2>2 DEF InRange, Fits
  <2> QED
    BY <1>1, <2>3, OperandKept
<1>2. CASE syn.kind # "s"
  <2>1. 0 <= v => Fits(syn, v)
    BY <1>2 DEF InRange, Fits
  <2>2. Operated(syn, v % 2^syn.bits) = v % 2^syn.bits
    BY <1>2 DEF Operated
  <2> QED
    BY <1>2, <2>1, <2>2, OperandKept
<1> QED
  BY <1>1, <1>2

\* No relative operand reaches as far as the offset of a label that is not found, or as
\* a difference that has wrapped.
LEMMA ReachOfBranch ==
    ASSUME NEW syn \in Syntaxes, syn.kind = "s", NEW v \in Int, InRange(syn, v)
    PROVE  v < 1024
<1>1. CASE syn.bits = 5
  BY <1>1, HalfPowers DEF InRange
<1>2. CASE syn.bits = 8
  BY <1>2, HalfPowers DEF InRange
<1>3. CASE syn.bits = 11
  BY <1>3, HalfPowers DEF InRange
<1> QED
  BY <1>1, <1>2, <1>3, SyntaxKinds

\* The words of the lines that survive: the decoder has the operation, and of each operand
\* what its width leaves of its value.
DecodedIn(list, o, word, op, args) ==
    LET d == decode_instruction(word)
        syntax == RowOf(op).syntax
    IN  /\ resolve_nmemonic(d.opcode, d.subcode) = op
        /\ \A k \in DOMAIN syntax :
              /\ syntax[k] \in Syntaxes
              /\ args[k].kind \in Starts(syntax[k])
              /\ OperandOK(args[k])
              /\ ValueIn(list, o, args[k]) \in Int
              /\ InRange(syntax[k], ValueIn(list, o, args[k]))
              /\ d.fields[k] = Operated(syntax[k], ValueIn(list, o, args[k]) % 2^syntax[k].bits)

LEMMA EmittedDecodes ==
    ASSUME NEW list, Offsets(list), NEW buf, NEW o \in Int, NEW op \in Nmemonics, NEW args,
           \A k \in DOMAIN RowOf(op).syntax : k \in DOMAIN args /\ OperandOK(args[k]),
           EmittedIn(list, buf, o, op, args)
    PROVE  DecodedIn(list, o, buf[o], op, args)
<1>1. PICK values : values = [k \in DOMAIN args |-> ValueIn(list, o, args[k])]
  OBVIOUS
<1>2. \A k \in DOMAIN RowOf(op).syntax : values[k] = ValueIn(list, o, args[k]) /\ values[k] \in Int
  BY <1>1, ValueTyped
<1>3. PICK word : word = assemble_instruction(op, values)
  OBVIOUS
<1>4. buf[o] = word
  BY <1>1, <1>3 DEF EmittedIn
<1>5. PICK d : d = decode_instruction(word)
  OBVIOUS
<1>6. /\ resolve_nmemonic(d.opcode, d.subcode) = op
      /\ \A k \in DOMAIN RowOf(op).syntax :
            d.fields[k] = Operated(RowOf(op).syntax[k], values[k] % 2^RowOf(op).syntax[k].bits)
  BY <1>2, <1>3, <1>5, Assembled
<1>7. \A k \in DOMAIN RowOf(op).syntax : RowOf(op).syntax[k] \in Syntaxes
  BY RowOfNmemonic, SyntaxOfRow
<1> HIDE DEF EmittedIn
<1>8. \A k \in DOMAIN RowOf(op).syntax :
         /\ args[k].kind \in Starts(RowOf(op).syntax[k])
         /\ InRange(RowOf(op).syntax[k], ValueIn(list, o, args[k]))
  BY DEF EmittedIn
<1> QED
  BY <1>2, <1>4, <1>5, <1>6, <1>7, <1>8 DEF DecodedIn

LEMMA SurvivorDecodes ==
    ASSUME ImageInv, pass = "done", NEW n \in 1 .. Len(where), Survives(n)
    PROVE  DecodedIn(labels, where[n], WordAt(where[n]), source[n].op, source[n].args)
           /\ where[n] \in 0 .. MAX_WORDS - 1
<1>1. IInv /\ Types
  BY DEF ImageInv, IInv
<1>2. PICK list, buf, o, op, args :
        /\ list = labels /\ buf = outbuf /\ o = where[n] /\ op = source[n].op /\ args = source[n].args
  OBVIOUS
<1>3. o \in Int /\ n \in 1 .. Len(source)
  <2>1. o \in Ints /\ n \in 1 .. Len(source)
    BY <1>1, <1>2, Members DEF Types, SourceOK
  <2> QED
    BY <2>1 DEF Ints
<1>4. op \in Nmemonics /\ EmittedIn(list, buf, o, op, args)
  BY <1>2 DEF Survives, ImageInv, Image, Emitted
<1>5. OperandsOK(source[n])
  BY <1>1, <1>3 DEF Types, SourceOK
<1>6. \A k \in DOMAIN RowOf(op).syntax : k \in DOMAIN args /\ OperandOK(args[k])
  BY <1>2, <1>4, <1>5 DEF OperandsOK
<1>7. Offsets(list)
  BY <1>1, <1>2, OffsetsOfLabels
<1>8. DecodedIn(list, o, buf[o], op, args)
  BY <1>3, <1>4, <1>6, <1>7, EmittedDecodes, Zenon
<1>9. WordAt(where[n]) = buf[o] /\ o \in 0 .. MAX_WORDS - 1
  BY <1>2, <1>4 DEF WordAt, EmittedIn, ImageInv, Buffer
<1> QED
  BY <1>2, <1>3, <1>8, <1>9

\* The image means what the source says.
LEMMA InvariantDecodes == ImageInv => ImageDecodes
<1> SUFFICES ASSUME ImageInv, pass = "done", NEW n \in 1 .. Len(where), Survives(n)
             PROVE  LET decoded == decode_instruction(WordAt(where[n]))
                        syntax == RowOf(source[n].op).syntax
                    IN  /\ resolve_nmemonic(decoded.opcode, decoded.subcode) = source[n].op
                        /\ \A k \in DOMAIN syntax :
                              Means(source[n].args[k], syntax[k], decoded.fields[k])
  BY DEF ImageDecodes
<1>1. PICK list, o, word, op, args :
        list = labels /\ o = where[n] /\ word = WordAt(where[n]) /\ op = source[n].op /\ args = source[n].args
  OBVIOUS
<1>2. DecodedIn(list, o, word, op, args)
  BY <1>1, SurvivorDecodes
<1>3. ASSUME NEW k \in DOMAIN RowOf(op).syntax
      PROVE  Means(args[k], RowOf(op).syntax[k], decode_instruction(word).fields[k])
  <2>1. PICK arg, syn, field :
          arg = args[k] /\ syn = RowOf(op).syntax[k] /\ field = decode_instruction(word).fields[k]
    OBVIOUS
  <2>2. PICK v \in Int : v = ValueIn(list, o, arg)
    BY <1>2, <1>3, <2>1 DEF DecodedIn
  <2>3. /\ syn \in Syntaxes /\ arg.kind \in Starts(syn) /\ OperandOK(arg)
        /\ InRange(syn, v) /\ field = Operated(syn, v % 2^syn.bits)
    BY <1>2, <1>3, <2>1, <2>2 DEF DecodedIn
  <2>4. CASE arg.kind = "%"
    BY <2>1, <2>4 DEF Means
  <2>5. CASE arg.kind = "@"
    <3>1. syn.kind = "u" /\ arg.label # Null
      BY <2>3, <2>5, KindOfOperand DEF OperandOK
    <3>2. ASSUME NEW m \in 1 .. Len(where), FirstDefinition(m, arg.label)
          PROVE  field = (CASE arg.part = "h" -> where[m] \div 256
                            [] arg.part = "l" -> where[m] % 256
                            [] OTHER -> where[m]) % 2^syn.bits
      <4>1. PICK name : name = arg.label
        OBVIOUS
      <4>2. PICK i : i = FirstIn(list, name)
        OBVIOUS
      <4>3. i \in 1 .. Len(list) /\ list[i].offset = where[m]
        BY <1>1, <3>1, <3>2, <4>1, <4>2, LabelFound DEF ImageInv
      <4>4. PICK p : p = where[m]
        OBVIOUS
      <4>5. v = CASE arg.part = "h" -> p \div 256 [] arg.part = "l" -> p % 256 [] OTHER -> p
        BY <2>2, <2>5, <4>1, <4>2, <4>3, <4>4 DEF ValueIn, OffsetIn
      <4>6. field = v % 2^syn.bits
        BY <2>2, <2>3, <3>1, RangeKept
      <4> QED
        BY <4>4, <4>5, <4>6
    <3> QED
      BY <2>1, <2>5, <3>2 DEF Means
  <2>6. CASE arg.kind \notin {"%", "@"}
    <3>1. v = AsInt(arg.num)
      BY <2>2, <2>6 DEF ValueIn
    <3>2. field = IF syn.kind = "s" THEN AsInt(arg.num) ELSE AsInt(arg.num) % 2^syn.bits
      BY <2>2, <2>3, <3>1, RangeKept
    <3> QED
      BY <2>1, <2>6, <3>2 DEF Means
  <2> QED
    BY <2>4, <2>5, <2>6
<1>4. resolve_nmemonic(decode_instruction(word).opcode, decode_instruction(word).subcode) = op
  BY <1>2 DEF DecodedIn
<1> QED
  BY <1>1, <1>3, <1>4

\* Branches land: the offset of a label that is not found is out of every branch's reach.
LEMMA InvariantLands ==
    ASSUME MAX_WORDS >= 1023, ImageInv
    PROVE  BranchesLand
<1> SUFFICES ASSUME pass = "done", NEW n \in 1 .. Len(where), Survives(n),
                    NEW k \in DOMAIN RowOf(source[n].op).syntax,
                    source[n].args[k].kind = "%", source[n].args[k].part = Null
             PROVE  \E m \in 1 .. Len(where) :
                       /\ FirstDefinition(m, source[n].args[k].label)
                       /\ where[m] = where[n] + decode_instruction(WordAt(where[n])).fields[k]
  BY DEF BranchesLand
<1>1. PICK list, o, word, op, args :
        list = labels /\ o = where[n] /\ word = WordAt(where[n]) /\ op = source[n].op /\ args = source[n].args
  OBVIOUS
<1>2. DecodedIn(list, o, word, op, args) /\ o \in 0 .. MAX_WORDS - 1
  BY <1>1, SurvivorDecodes
<1>3. PICK arg, syn, field :
        arg = args[k] /\ syn = RowOf(op).syntax[k] /\ field = decode_instruction(word).fields[k]
  OBVIOUS
<1>4. PICK v \in Int : v = ValueIn(list, o, arg)
  BY <1>1, <1>2, <1>3 DEF DecodedIn
<1>5. /\ syn \in Syntaxes /\ arg.kind \in Starts(syn) /\ OperandOK(arg)
      /\ InRange(syn, v) /\ field = Operated(syn, v % 2^syn.bits)
  BY <1>1, <1>2, <1>3, <1>4 DEF DecodedIn
<1>6. arg.kind = "%" /\ arg.part = Null
  BY <1>1, <1>3
<1>7. syn.kind = "s" /\ arg.label # Null
  BY <1>5, <1>6, KindOfOperand DEF OperandOK
<1>8. field = v /\ v < 1024
  BY <1>4, <1>5, <1>7, RangeKept, ReachOfBranch
<1>9. PICK name, i : name = arg.label /\ i = FirstIn(list, name)
  OBVIOUS
<1>10. Offsets(list)
  BY <1>1, OffsetsOfLabels DEF ImageInv, IInv
<1>11. OffsetIn(list, arg) = IF i = 0 THEN -1 ELSE list[i].offset
  BY <1>6, <1>9 DEF OffsetIn, Null
<1>12. i # 0
  <2> SUFFICES ASSUME i = 0 PROVE FALSE
    OBVIOUS
  <2>1. v = MAX_WORDS + 1
    BY <1>4, <1>6, <1>11 DEF ValueIn
  <2> QED
    BY <1>8, <2>1, AsmAssumption
<1>13. i \in 1 .. Len(list)
  BY <1>9, <1>10, <1>12, FirstIsIn DEF Offsets
<1>14. PICK x \in Ints : x = list[i].offset
  BY <1>10, <1>13 DEF Offsets
<1>15. v = x - o
  <2>1. v = AsInt(x - o)
    <3>1. x = -1 => v = MAX_WORDS + 1
      BY <1>4, <1>6, <1>11, <1>12, <1>14 DEF ValueIn
    <3>2. x # -1
      BY <1>8, <3>1, AsmAssumption
    <3> QED
      BY <1>4, <1>6, <1>11, <1>12, <1>14, <3>2 DEF ValueIn
  <2>2. CASE x - o \in Ints
    BY <2>1, <2>2, IntKept
  <2>3. CASE x - o < -IntEnd
    <3>1. x - o \in Int /\ -2 * IntEnd <= x - o
      BY <1>2, <1>14, AsmAssumption DEF Ints
    <3>2. v = x - o + 2 * IntEnd
      BY <2>1, <2>3, <3>1, IntWraps
    <3> QED
      BY <1>2, <1>8, <1>14, <3>2, AsmAssumption DEF Ints
  <2> QED
    BY <1>2, <1>14, <2>2, <2>3, AsmAssumption DEF Ints
<1>16. PICK m \in 1 .. Len(where) : FirstDefinition(m, name) /\ where[m] = list[i].offset
  BY <1>1, <1>7, <1>9, <1>12, LineOfLabel DEF ImageInv, Complete
<1>17. where[m] = o + field
  BY <1>2, <1>8, <1>14, <1>15, <1>16 DEF Ints
<1> QED
  BY <1>1, <1>3, <1>9, <1>16, <1>17

---------------------------------------------------------------------------
(* The disassembler, and its output assembled again.                       *)

\* A line that is printed for a word has an instruction, and operands the assembler takes.
PrintedFor(line, word) ==
    LET d == decode_instruction(word)
        op == resolve_nmemonic(d.opcode, d.subcode)
        syntax == RowOf(op).syntax
    IN  /\ op \in Nmemonics
        /\ line.label = Null /\ line.op = op /\ DOMAIN line.args = DOMAIN syntax
        /\ \A k \in DOMAIN syntax :
              /\ syntax[k] \in Syntaxes
              /\ line.args[k].num = d.fields[k] /\ d.fields[k] \in Int /\ Fits(syntax[k], d.fields[k])
              /\ line.args[k].kind \notin {"%", "@"}
              /\ line.args[k].kind \in Starts(syntax[k])

LEMMA FitsIsInRange ==
    ASSUME NEW syn \in Syntaxes, NEW v \in Int, Fits(syn, v)
    PROVE  InRange(syn, v)
<1>1. CASE syn.kind = "s" /\ syn.bits = 5
  BY <1>1, HalfPowers DEF InRange, Fits
<1>2. CASE syn.kind = "s" /\ syn.bits = 8
  BY <1>2, HalfPowers DEF InRange, Fits
<1>3. CASE syn.kind = "s" /\ syn.bits = 11
  BY <1>3, HalfPowers DEF InRange, Fits
<1>4. CASE syn.kind # "s"
  BY <1>4 DEF InRange, Fits
<1> QED
  BY <1>1, <1>2, <1>3, <1>4, SyntaxKinds

\* What fits an operand is a number an int holds.
LEMMA FitsInInt ==
    ASSUME NEW syn \in Syntaxes, NEW v \in Int, Fits(syn, v)
    PROVE  AsInt(v) = v
<1>1. -65536 <= v /\ v < 65536
  <2>1. CASE syn.bits = 3
    BY <2>1, SyntaxKinds, Powers DEF Fits
  <2>2. CASE syn.bits = 4
    BY <2>2, SyntaxKinds, Powers DEF Fits
  <2>3. CASE syn.bits = 5
    BY <2>3, Powers, HalfPowers DEF Fits
  <2>4. CASE syn.bits = 8
    BY <2>4, Powers, HalfPowers DEF Fits
  <2>5. CASE syn.bits = 11
    BY <2>5, Powers, HalfPowers DEF Fits
  <2> QED
    BY <2>1, <2>2, <2>3, <2>4, <2>5, SyntaxKinds
<1>2. v \in Ints
  BY <1>1, AsmAssumption DEF Ints
<1> QED
  BY <1>2, IntKept

LEMMA Printed ==
    ASSUME NEW w \in Int
    PROVE  PrintedFor(disassemble(w), w)
<1>1. PICK d : d = decode_instruction(w)
  OBVIOUS
<1>2. PICK op : op = resolve_nmemonic(d.opcode, d.subcode)
  OBVIOUS
<1>3. PICK values : values = d.fields
  OBVIOUS
<1>4. PICK word : word = assemble_instruction(op, values)
  OBVIOUS
<1>5. PICK syntax : syntax = RowOf(op).syntax
  OBVIOUS
<1>6. /\ op \in Nmemonics
      /\ \A k \in DOMAIN syntax :
            values[k] \in Int /\ syntax[k] \in Syntaxes /\ Fits(syntax[k], values[k])
  <2>1. op = resolve_nmemonic(decode_instruction(w).opcode, decode_instruction(w).subcode)
    BY <1>1, <1>2
  <2>2. \A k \in DOMAIN RowOf(op).syntax : values[k] = decode_instruction(w).fields[k]
    BY <1>1, <1>3
  <2>3. /\ op \in Nmemonics
        /\ \A k \in DOMAIN RowOf(op).syntax :
              values[k] \in Int /\ RowOf(op).syntax[k] \in Syntaxes /\ Fits(RowOf(op).syntax[k], values[k])
    BY <1>4, <2>1, <2>2, Reassembled
  <2> QED
    BY <1>5, <2>3
<1>7. PICK args : args = [n \in DOMAIN syntax |->
                            Number(IF syntax[n].kind \in {"s", "u"} THEN "#" ELSE syntax[n].kind, values[n])]
  OBVIOUS
<1>8. disassemble(w) = Line(Null, op, args)
  BY <1>1, <1>2, <1>3, <1>5, <1>7 DEF disassemble
<1>9. ASSUME NEW k \in DOMAIN syntax
      PROVE  /\ args[k].num = values[k]
             /\ args[k].kind \notin {"%", "@"}
             /\ args[k].kind \in Starts(syntax[k])
  <2>1. PICK kind : kind = syntax[k].kind
    OBVIOUS
  <2>2. args[k] = Number(IF kind \in {"s", "u"} THEN "#" ELSE kind, values[k])
    BY <1>7, <1>9, <2>1
  <2>3. args[k].num = values[k] /\ args[k].kind = IF kind \in {"s", "u"} THEN "#" ELSE kind
    BY <2>2 DEF Number
  <2>4. kind \in {"s", "r", "c", "q", "x", "u"}
    BY <1>6, <1>9, <2>1, SyntaxKinds
  <2>5. Starts(syntax[k]) = CASE kind = "s" -> {"%", "#"} [] kind = "u" -> {"@", "#"} [] OTHER -> {kind}
    BY <2>1 DEF Starts
  <2>6. CASE kind = "s"
    BY <2>3, <2>5, <2>6
  <2>7. CASE kind = "u"
    BY <2>3, <2>5, <2>7
  <2>8. CASE kind \in {"r", "c", "q", "x"}
    BY <2>3, <2>5, <2>8
  <2> QED
    BY <2>3, <2>4, <2>6, <2>7, <2>8
<1>10. DOMAIN args = DOMAIN syntax
  BY <1>7
<1>11. PICK line : line = disassemble(w)
  OBVIOUS
<1>12. line.label = Null /\ line.op = op /\ line.args = args
  BY <1>8, <1>11 DEF Line
<1>13. PrintedFor(line, w)
  BY <1>1, <1>2, <1>3, <1>5, <1>6, <1>9, <1>10, <1>12 DEF PrintedFor
<1> QED
  BY <1>11, <1>13

\* Words the decoder takes for the same print the same.
LEMMA PrintedAlike ==
    ASSUME NEW v, NEW w, NEW op,
           op = resolve_nmemonic(decode_instruction(v).opcode, decode_instruction(v).subcode),
           op = resolve_nmemonic(decode_instruction(w).opcode, decode_instruction(w).subcode),
           \A k \in DOMAIN RowOf(op).syntax :
              decode_instruction(v).fields[k] = decode_instruction(w).fields[k]
    PROVE  disassemble(v) = disassemble(w)
<1>1. PICK syntax, a, b :
        syntax = RowOf(op).syntax /\ a = decode_instruction(v).fields /\ b = decode_instruction(w).fields
  OBVIOUS
<1>2. \A k \in DOMAIN syntax : a[k] = b[k]
  BY <1>1
<1> DEFINE Args(values) ==
              [n \in DOMAIN syntax |->
                 Number(IF syntax[n].kind \in {"s", "u"} THEN "#" ELSE syntax[n].kind, values[n])]
<1>3. disassemble(v) = Line(Null, op, Args(a))
  BY <1>1 DEF disassemble
<1>4. disassemble(w) = Line(Null, op, Args(b))
  BY <1>1 DEF disassemble
<1>5. Args(a) = Args(b)
  BY <1>2
<1> QED
  BY <1>3, <1>4, <1>5

LEMMA PrintedIsOK ==
    ASSUME NEW line, NEW w, PrintedFor(line, w)
    PROVE  /\ line.label \in Names /\ OperandsOK(line)
           /\ line.op \in Nmemonics /\ line.op \notin {Null, ".org", ".data"}
<1>1. line.op \in Nmemonics /\ line.label = Null
  BY DEF PrintedFor
<1>2. line.op # Null /\ line.op # ".org" /\ line.op # ".data"
  BY <1>1, Directives
<1>3. \A k \in DOMAIN RowOf(line.op).syntax : k \in DOMAIN line.args /\ OperandOK(line.args[k])
  BY DEF PrintedFor, OperandOK
<1>4. OperandsOK(line)
  BY <1>2, <1>3 DEF OperandsOK
<1>5. line.label \in Names
  BY <1>1 DEF Names
<1> QED
  BY <1>1, <1>2, <1>4, <1>5

\* Once the disassembler has run, the source is what it printed, a line for each word, and
\* the assembler is on its way through it and has not failed.
Printout ==
    /\ Len(dump) \in 1 .. MAX_WORDS - 1
    /\ \A n \in 1 .. Len(dump) : dump[n] \in Word
    /\ Len(source) = Len(dump)
    /\ \A n \in 1 .. Len(dump) : source[n] = disassemble(dump[n])
    /\ pass \notin {"failed", "wild"}
    /\ \A n \in 1 .. Len(where) : where[n] = n - 1
    /\ pass = "opcodes" => offset = cursor - 1 /\ offset_max = offset
    /\ pass = "done" => offset_max = Len(dump)

DumpInv == dump # <<>> => Printout

ToolInv == ImageInv /\ DumpInv

LEMMA PrintoutLine ==
    ASSUME Printout, NEW n \in 1 .. Len(source)
    PROVE  PrintedFor(source[n], dump[n])
<1>1. PICK w \in Int : w = dump[n]
  BY DEF Printout, Word
<1>2. PrintedFor(disassemble(w), w)
  BY Printed
<1> QED
  BY <1>1, <1>2 DEF Printout

\* No printed line is refused.
LEMMA PrintoutAccepted ==
    ASSUME Printout, Types, cursor \in 1 .. Len(source)
    PROVE  /\ Accepted(At.op, At.args)
           /\ At.op \notin {Null, ".org", ".data"}
<1>1. PICK line, w : line = source[cursor] /\ w = dump[cursor]
  OBVIOUS
<1>2. PrintedFor(line, w)
  BY <1>1, PrintoutLine
<1>3. \A k \in DOMAIN RowOf(line.op).syntax : Value(line.args[k]) = line.args[k].num
  BY <1>2, FitsInInt DEF PrintedFor, Value
<1>4. \A k \in DOMAIN RowOf(line.op).syntax :
         /\ line.args[k].kind \in Starts(RowOf(line.op).syntax[k])
         /\ InRange(RowOf(line.op).syntax[k], Value(line.args[k]))
  BY <1>2, <1>3, FitsIsInRange DEF PrintedFor
<1>5. line.op \in Nmemonics /\ line.op \notin {Null, ".org", ".data"}
  BY <1>2, PrintedIsOK
<1>6. Accepted(line.op, line.args)
  BY <1>4, <1>5 DEF Accepted
<1> QED
  BY <1>1, <1>5, <1>6 DEF At

LEMMA PrintoutStep ==
    ASSUME ImageInv, Printout, AsmNext, dump' = dump
    PROVE  Printout'
<1>1. /\ Types /\ Len(source) \in Nat /\ cursor \in 1 .. Len(source) + 1
      /\ where \in Seq(Ints) /\ offset \in Ints /\ offset_max \in Nat
  BY DEF ImageInv, IInv, Types, SourceOK
<1>2. CASE generate_labels
  <2>1. where = <<>> /\ where' = <<>> /\ source' = source
    BY <1>1, <1>2 DEF Types, generate_labels, LabelsOrg, LabelsPlain, LabelsAppend, LabelsEnd, AtLine
  <2>2. /\ pass' \in {"labels", "opcodes"}
        /\ pass' = "opcodes" => cursor' = 1 /\ offset' = 0 /\ offset_max' = 0
    BY <1>2 DEF generate_labels, LabelsOrg, LabelsPlain, LabelsAppend, LabelsEnd, AtLine
  <2> QED
    BY <2>1, <2>2 DEF Printout
<1>3. CASE AtLine("opcodes") /\ generate_opcodes
  <2>1. cursor \in 1 .. Len(source) /\ Len(where) = cursor - 1
    BY <1>1, <1>3 DEF AtLine, Types
  <2>2. Accepted(At.op, At.args) /\ At.op \notin {Null, ".org", ".data"}
    BY <1>1, <2>1, PrintoutAccepted
  <2>3. OpcodesInstruction
    <3>1. Inside
      BY <1>1, <1>3, <2>1, AsmAssumption DEF Printout, AtLine, Inside
    <3> QED
      BY <1>3, <2>1, <2>2, <3>1 DEF generate_opcodes, OpcodesLabelOnly, OpcodesOrg, OpcodesData,
         OpcodesDataFails, OpcodesInstructionFails, OpcodesWild, OpcodesEnd, AtLine, DataAccepted
  <2>4. PICK word : Emit(word)
    BY <2>3 DEF OpcodesInstruction
  <2>5. /\ source' = source /\ cursor' = cursor + 1 /\ where' = Append(where, offset)
        /\ offset' = offset + 1
        /\ offset_max' = IF offset + 1 > offset_max THEN offset + 1 ELSE offset_max
        /\ pass' = IF offset + 1 > offset_max /\ offset + 1 >= MAX_WORDS THEN "failed" ELSE pass
    BY <2>4 DEF Emit, Advance, Left, NextLine
  <2>6. offset = cursor - 1 /\ offset_max = offset
    BY <1>3 DEF Printout, AtLine
  <2>7. offset + 1 < MAX_WORDS
    BY <2>1, <2>6, AsmAssumption DEF Printout
  <2>8. pass' = "opcodes" /\ offset_max' = offset + 1
    BY <1>1, <1>3, <2>5, <2>6, <2>7, AsmAssumption DEF AtLine
  <2>9. \A n \in 1 .. Len(where') : where'[n] = n - 1
    BY <1>1, <2>1, <2>5, <2>6 DEF Printout
  <2> QED
    BY <1>1, <2>5, <2>6, <2>8, <2>9 DEF Printout
<1>4. CASE OpcodesEnd
  <2>1. /\ pass = "opcodes" /\ pass' = "done" /\ cursor = Len(source) + 1
        /\ source' = source /\ where' = where /\ offset_max' = offset_max
    BY <1>1, <1>4 DEF OpcodesEnd
  <2>2. offset_max = Len(dump)
    BY <1>1, <2>1 DEF Printout
  <2> QED
    BY <2>1, <2>2 DEF Printout
<1> QED
  BY <1>2, <1>3, <1>4 DEF AsmNext, generate_opcodes, OpcodesLabelOnly, OpcodesOrg, OpcodesData,
     OpcodesDataFails, OpcodesInstruction, OpcodesInstructionFails, OpcodesWild

LEMMA FunctionLength ==
    ASSUME NEW n \in Nat, NEW f, f = [k \in 1 .. n |-> f[k]]
    PROVE  Len(f) = n
OBVIOUS

LEMMA WordAtIsWord == ASSUME Buffer, NEW o PROVE WordAt(o) \in Word
<1>1. 0 \in Word
  BY IsWord
<1> QED
  BY <1>1 DEF Buffer, WordAt

\* A run of the disassembler leaves the assembler at the start of what it printed.
LEMMA DisassembleStep ==
    ASSUME ToolInv, Disassemble
    PROVE  Fresh' /\ Printout'
<1>1. PICK N : N = offset_max
  OBVIOUS
<1>2. N \in 1 .. MAX_WORDS - 1
  BY <1>1, ToolchainAssumption, AsmAssumption DEF Disassemble, ToolInv, ImageInv, IInv, Types, Complete
<1>3. PICK words, lines : /\ words = [n \in 1 .. N |-> WordAt(n - 1)]
                          /\ lines = [n \in 1 .. N |-> disassemble(WordAt(n - 1))]
  OBVIOUS
<1>4. Len(words) = N /\ Len(lines) = N
  <2>1. words = [n \in 1 .. N |-> words[n]] /\ lines = [n \in 1 .. N |-> lines[n]]
    BY <1>3
  <2>2. N \in Nat
    BY <1>2
  <2> QED
    BY <2>1, <2>2, FunctionLength
<1>5. \A n \in 1 .. N : words[n] \in Word /\ lines[n] = disassemble(words[n])
  BY <1>3, WordAtIsWord DEF ToolInv, ImageInv
<1>6. ASSUME NEW n \in 1 .. N
      PROVE  lines[n].label \in Names /\ OperandsOK(lines[n])
  <2>1. PICK w \in Int : w = words[n]
    BY <1>5, <1>6 DEF Word
  <2>2. PrintedFor(lines[n], w)
    BY <1>5, <1>6, <2>1, Printed
  <2> QED
    BY <2>2, PrintedIsOK
<1>7. /\ dump' = words /\ source' = lines /\ pass' = "labels" /\ cursor' = 1 /\ offset' = 0
      /\ offset_max' = 0 /\ labels' = <<>> /\ outbuf' = <<>> /\ where' = <<>>
  BY <1>1, <1>3 DEF Disassemble
<1>8. SourceOK'
  BY <1>2, <1>4, <1>6, <1>7 DEF SourceOK, OperandsOK, OperandOK
<1>9. Fresh'
  BY <1>7, <1>8 DEF Fresh
<1>10. Printout'
  BY <1>2, <1>4, <1>5, <1>7 DEF Printout
<1> QED
  BY <1>9, <1>10

\* An image that is not begun meets every clause.
LEMMA FreshImage == Fresh => ImageInv
<1> SUFFICES ASSUME Fresh PROVE ImageInv
  OBVIOUS
<1>1. IInv
  BY FreshInvariant
<1>2. Image /\ Buffer /\ Complete
  BY DEF Fresh, Image, Buffer, Complete
<1> QED
  BY <1>1, <1>2 DEF ImageInv

\* What the printout means at the end: words that print the same.
LEMMA InvariantRoundTrip == ToolInv => RoundTrip
<1> SUFFICES ASSUME ToolInv, dump # <<>>, pass = "done", NEW n \in DOMAIN dump
             PROVE  disassemble(WordAt(n - 1)) = disassemble(dump[n])
  BY DEF RoundTrip, ToolInv, DumpInv, Printout
<1>1. Printout /\ ImageInv /\ Types
  BY DEF ToolInv, DumpInv, ImageInv, IInv
<1>2. n \in 1 .. Len(dump) /\ n \in 1 .. Len(source) /\ n \in 1 .. Len(where)
  BY <1>1 DEF ToolInv, DumpInv, Printout, ImageInv, Complete
<1>3. PICK w \in Int : w = dump[n]
  BY <1>1, <1>2 DEF Printout, Word
<1>4. PICK line : line = source[n]
  OBVIOUS
<1>5. PrintedFor(line, w)
  BY <1>1, <1>2, <1>3, <1>4, PrintoutLine
<1>6. PICK op : op = line.op
  OBVIOUS
<1>7. op \in Nmemonics /\ op = resolve_nmemonic(decode_instruction(w).opcode, decode_instruction(w).subcode)
  BY <1>5, <1>6 DEF PrintedFor
<1>8. \A m \in 1 .. Len(where) : where[m] = m - 1
  BY <1>1 DEF Printout
<1>9. Survives(n)
  <2>1. n \in Nat \ {0} /\ Len(where) \in Nat
    BY <1>1, <1>2 DEF Types
  <2>2. \A m \in n + 1 .. Len(where) : where[m] = m - 1 /\ where[n] = n - 1
    BY <1>2, <1>8, <2>1
  <2>3. \A m \in n + 1 .. Len(where) : where[m] # where[n]
    BY <2>1, <2>2
  <2> QED
    BY <1>4, <1>6, <1>7, <2>3 DEF Survives
<1>10. PICK list, word : list = labels /\ word = WordAt(n - 1)
  OBVIOUS
<1>11. DecodedIn(list, n - 1, word, op, line.args)
  BY <1>1, <1>2, <1>4, <1>6, <1>8, <1>9, <1>10, SurvivorDecodes
<1>12. ASSUME NEW k \in DOMAIN RowOf(op).syntax
       PROVE  decode_instruction(word).fields[k] = decode_instruction(w).fields[k]
  <2>1. PICK syn, arg : syn = RowOf(op).syntax[k] /\ arg = line.args[k]
    OBVIOUS
  <2>2. PICK v \in Int : v = decode_instruction(w).fields[k]
    BY <1>5, <1>7, <1>12 DEF PrintedFor
  <2>3. syn \in Syntaxes /\ Fits(syn, v) /\ arg.num = v /\ arg.kind \notin {"%", "@"}
    BY <1>5, <1>7, <1>12, <2>1, <2>2 DEF PrintedFor
  <2>4. ValueIn(list, n - 1, arg) = v
    BY <2>3, FitsInInt DEF ValueIn
  <2>5. decode_instruction(word).fields[k] = Operated(syn, v % 2^syn.bits)
    BY <1>11, <1>12, <2>1, <2>4 DEF DecodedIn
  <2> QED
    BY <2>2, <2>3, <2>5, OperandKept
<1>13. op = resolve_nmemonic(decode_instruction(word).opcode, decode_instruction(word).subcode)
  BY <1>11 DEF DecodedIn
<1>14. disassemble(word) = disassemble(w)
  BY <1>7, <1>12, <1>13, PrintedAlike
<1> QED
  BY <1>3, <1>10, <1>14

---------------------------------------------------------------------------
(* The toolchain                                                           *)

LEMMA AsmStep == ASSUME ImageInv, AsmNext PROVE ImageInv'
<1>1. IInv'
  BY FirstPassStep, TurnStep, SecondPassStep DEF ImageInv, AsmNext, generate_labels
<1>2. Image' /\ Buffer' /\ Complete'
  BY ImageStep DEF AsmNext
<1> QED
  BY <1>1, <1>2 DEF ImageInv

\* The inductive invariant of the assembler, the disassembler and the assembler again: the
\* words are those of the lines that survive, and a printout is taken line by line.
THEOREM ToolchainInvariant == Spec => []ToolInv
<1>1. Init => ToolInv
  <2>1. AsmInit => ImageInv
    BY InitIsFresh, FreshImage
  <2> QED
    BY <2>1 DEF Init, ToolInv, DumpInv
<1>2. ASSUME ToolInv, Assemble PROVE ToolInv'
  <2>1. ImageInv'
    BY <1>2, AsmStep DEF ToolInv, Assemble
  <2>2. DumpInv'
    BY <1>2, PrintoutStep DEF ToolInv, DumpInv, Assemble
  <2> QED
    BY <2>1, <2>2 DEF ToolInv
<1>3. ASSUME ToolInv, Disassemble PROVE ToolInv'
  <2>1. Fresh' /\ Printout'
    BY <1>3, DisassembleStep
  <2>2. ImageInv'
    BY <2>1, FreshImage, PTL
  <2> QED
    BY <2>1, <2>2 DEF ToolInv, DumpInv
<1>4. ASSUME ToolInv, UNCHANGED vars PROVE ToolInv'
  BY <1>4 DEF vars, asmVars, ToolInv, ImageInv, DumpInv, Printout, IInv, Types, SourceOK, FirstPass,
     SecondPass, Strays, Below, Image, Emitted, Survives, Buffer, Complete
<1> QED
  BY <1>1, <1>2, <1>3, <1>4, PTL DEF Spec, Next

\* What the two directions of the codec and the two passes of the assembler make together:
\* in every finished image each word that nothing was put on top of is decoded to the
\* operation of its line, each number to the int it is cut to or its remainder and each
\* label to the place of the line that defines it first.
THEOREM ImageDecodesAlways == Spec => []ImageDecodes
<1>1. ToolInv => ImageDecodes
  BY InvariantDecodes DEF ToolInv
<1> QED
  BY <1>1, ToolchainInvariant, PTL

\* Every relative operand of a finished image leads from its word to the line of its label,
\* for a buffer that is longer than any branch: a label nobody defined is out of range then.
THEOREM BranchesLandAlways ==
    ASSUME MAX_WORDS >= 1023
    PROVE  Spec => []BranchesLand
<1>1. ToolInv => BranchesLand
  BY InvariantLands DEF ToolInv
<1> QED
  BY <1>1, ToolchainInvariant, PTL

\* What the disassembler prints for any image is accepted and comes back word for word, but
\* for the bits that belong to no field.
THEOREM RoundTripAlways == Spec => []RoundTrip
BY InvariantRoundTrip, ToolchainInvariant, PTL

\* The bounds of the buffer and the agreement of the passes hold on the second assembly too.
THEOREM ToolchainPassesAgree == Spec => [](OutbufBounded /\ LabelsAgree)
<1>1. ToolInv => OutbufBounded /\ LabelsAgree
  BY InvariantAgrees DEF ToolInv, ImageInv, IInv, Strays, Below, OutbufBounded
<1> QED
  BY <1>1, ToolchainInvariant, PTL
==============================================================================
