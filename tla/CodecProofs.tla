------------------------------ MODULE CodecProofs ------------------------------
(***************************************************************************)
(* The two directions of the codec agree, for every row of the instruction *)
(* table and every value of the operands.                                  *)
(***************************************************************************)
EXTENDS Instructions, TLAPS

LEMMA Powers ==
    /\ 2^0 = 1 /\ 2^2 = 4 /\ 2^3 = 8 /\ 2^4 = 16 /\ 2^5 = 32 /\ 2^7 = 128 /\ 2^8 = 256
    /\ 2^10 = 1024 /\ 2^11 = 2048 /\ 2^16 = 65536
OBVIOUS

LEMMA IsWord == \A w \in Int : 0 <= w /\ w < 65536 => w \in Word
BY Powers DEF Word

---------------------------------------------------------------------------
(* A fold over the fields of a format, of which there are at most three.   *)

\* What the fold has after the fields whose places are in s.
After1(s, base, format, values) ==
    IF 1 \in s THEN ShiftIn(base, format[1], values) ELSE base

After2(s, base, format, values) ==
    IF 2 \in s THEN ShiftIn(After1(s, base, format, values), format[2], values)
               ELSE After1(s, base, format, values)

After3(s, base, format, values) ==
    IF 3 \in s THEN ShiftIn(After2(s, base, format, values), format[3], values)
               ELSE After2(s, base, format, values)

LEMMA MaxUpTo3 ==
    ASSUME NEW s \in SUBSET {1, 2, 3}, s # {}
    PROVE  /\ Max(s) \in s
           /\ Max(s) = IF 3 \in s THEN 3 ELSE IF 2 \in s THEN 2 ELSE 1
<1>1. \A y \in s : y \in Int /\ y \in {1, 2, 3}
  OBVIOUS
<1>2. ASSUME NEW m \in s, \A y \in s : y <= m PROVE Max(s) = m
  <2>1. Max(s) \in s /\ Max(s) >= m
    BY <1>1, <1>2 DEF Max
  <2>2. Max(s) \in Int /\ m \in Int /\ Max(s) <= m
    BY <1>1, <1>2, <2>1
  <2> QED
    BY <2>1, <2>2
<1>3. CASE 3 \in s
  <2>1. \A y \in s : y <= 3
    BY <1>1
  <2> QED
    BY <1>2, <1>3, <2>1
<1>4. CASE 3 \notin s /\ 2 \in s
  <2>1. \A y \in s : y <= 2
    BY <1>1, <1>4
  <2> QED
    BY <1>2, <1>4, <2>1
<1>5. CASE 3 \notin s /\ 2 \notin s
  <2>1. \A y \in s : y <= 1
    BY <1>1, <1>5
  <2>2. 1 \in s
    BY <1>1, <1>5
  <2> QED
    BY <1>2, <1>5, <2>1, <2>2
<1> QED
  BY <1>3, <1>4, <1>5

\* FoldLeft unfolds to one ShiftIn for each field.
LEMMA FoldFields ==
    ASSUME NEW base, NEW values, NEW format, DOMAIN format \in SUBSET {1, 2, 3}
    PROVE  FoldLeft(LAMBDA acc, field : ShiftIn(acc, field, values), base, format)
             = After3(DOMAIN format, base, format, values)
<1> DEFINE D == DOMAIN format
           A(s) == After3(s, base, format, values)
           step(h) == [s \in SUBSET D |->
                         IF s = {} THEN base
                         ELSE ShiftIn(h[s \ {Max(s)}], format[Max(s)], values)]
           H == [s \in SUBSET D |-> A(s)]
<1>1. FoldLeft(LAMBDA acc, field : ShiftIn(acc, field, values), base, format)
        = (CHOOSE h : h = step(h))[D]
  BY DEF FoldLeft, MapThenFoldSet
<1>2. ASSUME NEW s \in SUBSET D, s # {}
      PROVE  A(s) = ShiftIn(A(s \ {Max(s)}), format[Max(s)], values)
  <2>1. Max(s) = IF 3 \in s THEN 3 ELSE IF 2 \in s THEN 2 ELSE 1
    BY <1>2, MaxUpTo3
  <2>2. s \in SUBSET {1, 2, 3}
    OBVIOUS
  <2>3. CASE 3 \in s
    BY <2>1, <2>3 DEF After1, After2, After3
  <2>4. CASE 3 \notin s /\ 2 \in s
    BY <2>1, <2>4 DEF After1, After2, After3
  <2>5. CASE 3 \notin s /\ 2 \notin s
    <3>1. s = {1}
      BY <1>2, <2>2, <2>5
    <3> QED
      BY <2>1, <3>1 DEF After1, After2, After3
  <2> QED
    BY <2>3, <2>4, <2>5
<1>3. A({}) = base
  BY DEF After1, After2, After3
<1>4. H = step(H)
  <2>1. \A s \in SUBSET D : s # {} => s \ {Max(s)} \in SUBSET D
    OBVIOUS
  <2> QED
    BY <1>2, <1>3, <2>1
<1>5. ASSUME NEW h, h = step(h) PROVE h[D] = A(D)
  <2>1. \A s \in SUBSET D :
           h[s] = IF s = {} THEN base ELSE ShiftIn(h[s \ {Max(s)}], format[Max(s)], values)
    BY <1>5
  <2> HIDE DEF A, D
  <2>2. \A s \in SUBSET D, t \in SUBSET D :
           s # {} /\ t = s \ {Max(s)} /\ h[t] = A(t) => h[s] = A(s)
    BY <1>2, <2>1
  <2>3. h[{}] = A({})
    BY <1>3, <2>1
  <2>4. ASSUME NEW s \in SUBSET D, s \subseteq {1} PROVE h[s] = A(s)
    <3>1. s # {} => s \ {Max(s)} = {}
      BY <2>4, MaxUpTo3
    <3> QED
      BY <2>2, <2>3, <3>1
  <2>5. ASSUME NEW s \in SUBSET D, s \subseteq {1, 2} PROVE h[s] = A(s)
    <3>1. ASSUME s # {} PROVE s \ {Max(s)} \subseteq {1}
      <4>1. s \in SUBSET {1, 2, 3}
        BY <2>5
      <4>2. Max(s) = IF 3 \in s THEN 3 ELSE IF 2 \in s THEN 2 ELSE 1
        BY <3>1, <4>1, MaxUpTo3
      <4> QED
        BY <2>5, <4>2
    <3>2. s \ {Max(s)} \in SUBSET D
      OBVIOUS
    <3> QED
      BY <2>2, <2>3, <2>4, <3>1, <3>2
  <2>6. D \subseteq {1, 2, 3}
    BY DEF D
  <2>7. D # {} => D \ {Max(D)} \subseteq {1, 2} /\ D \ {Max(D)} \in SUBSET D
    BY <2>6, MaxUpTo3
  <2> QED
    BY <2>2, <2>3, <2>5, <2>7
<1> HIDE DEF step, A, H, D
<1>6. (CHOOSE h : h = step(h))[D] = A(D)
  <2>1. PICK h : h = step(h) /\ h = (CHOOSE hh : hh = step(hh))
    BY <1>4
  <2> QED
    BY <1>5, <2>1
<1> QED
  BY <1>1, <1>6 DEF A, D

---------------------------------------------------------------------------
(* What a switch over the opcode makes of a word.                          *)

LEMMA DecodeCases ==
    ASSUME NEW w
    PROVE  LET o == Bits(w, 11, 5)
               d == decode_instruction(w)
           IN  /\ o \in 0 .. 2 => d = [opcode |-> o, subcode |-> Bits(w, 0, 2), fields |-> <<Bits(w, 8, 3), Bits(w, 5, 3), Bits(w, 2, 3)>>]
               /\ o = 3 => d = [opcode |-> o, subcode |-> Bits(w, 0, 2), fields |-> <<Bits(w, 8, 3), Bits(w, 2, 4), 0>>]
               /\ o \in 4 .. 13 => d = [opcode |-> o, subcode |-> 0, fields |-> <<Bits(w, 8, 3), Bits(w, 0, 8), 0>>]
               /\ o \in {14, 29} => d = [opcode |-> o, subcode |-> 0, fields |-> <<0, 0, 0>>]
               /\ o \in {15, 16} => d = [opcode |-> o, subcode |-> 0, fields |-> <<SgnExtend(Bits(w, 0, 11), 11), 0, 0>>]
               /\ o \in 17 .. 20 => d = [opcode |-> o, subcode |-> 0, fields |-> <<Bits(w, 8, 3), SgnExtend(Bits(w, 0, 8), 8), 0>>]
               /\ o \in 21 .. 24 => d = [opcode |-> o, subcode |-> 0, fields |-> <<Bits(w, 8, 3), Bits(w, 5, 3), SgnExtend(Bits(w, 0, 5), 5)>>]
               /\ o \in {25, 26} => d = [opcode |-> o, subcode |-> 0, fields |-> <<Bits(w, 8, 3), Bits(w, 5, 3), Bits(w, 0, 5)>>]
               /\ o = 27 => d = [opcode |-> o, subcode |-> 0, fields |-> <<Bits(w, 8, 3), Bits(w, 5, 3), 0>>]
               /\ o = 28 => d = [opcode |-> o, subcode |-> 0, fields |-> <<Bits(w, 0, 11), 0, 0>>]
               /\ o \in {30, 31} => d = [opcode |-> o, subcode |-> 0, fields |-> <<Bits(w, 8, 3), Bits(w, 0, 5), 0>>]
BY DEF decode_instruction

---------------------------------------------------------------------------
(* The rows of the table, by the layout of their words.                    *)

\* What a row of an opcode is like.
Layout(opcode, format, syntax) ==
    /\ opcode \in 0 .. 2 => format = Three /\ syntax = <<Reg, Reg, Reg>>
    /\ opcode = 3 =>
          format = <<Field(3), Blank(2), Field(4)>> /\ syntax = <<Reg, Unsigned(4)>>
    /\ opcode \in 4 .. 13 => format = <<Field(3), Field(8)>> /\ syntax = <<Reg, Unsigned(8)>>
    /\ opcode \in {14, 29} => format = <<Blank(11)>> /\ syntax = <<>>
    /\ opcode \in {15, 16} => format = <<Field(11)>> /\ syntax = <<Signed(11)>>
    /\ opcode \in 17 .. 20 => format = <<Field(3), Field(8)>> /\ syntax = <<Reg, Signed(8)>>
    /\ opcode \in 21 .. 24 =>
          format = <<Field(3), Field(3), Field(5)>> /\ syntax = <<Reg, Reg, Signed(5)>>
    /\ opcode \in {25, 26} =>
          format = <<Field(3), Field(3), Field(5)>> /\ syntax = <<Reg, Cop, CopReg>>
    /\ opcode = 27 => format = <<Field(3), Field(3), Blank(5)>> /\ syntax = <<Reg, Cop>>
    /\ opcode = 28 => format = <<Field(11)>> /\ syntax = <<Unsigned(11)>>
    /\ opcode \in {30, 31} =>
          format = <<Field(3), Blank(3), Field(5)>> /\ syntax = <<Reg, Ctl>>

\* The names in the order of the codes, and the place of a code.
InOrder ==
    <<"or", "nand", "and", "xor", "add", "sub", "addc", "subc", "shl", "shr", "shra", "rot",
      "shli", "shri", "shrai", "roti",
      "li", "shlli", "inci", "deci", "ori", "andi", "xori", "orih", "andih", "xorih",
      "sleep", "ba", "bal", "bz", "bnz", "jr", "jlr", "ll", "ldw", "stw", "sc", "mfcp", "mtcp",
      "cpop", "int", "rfi", "mfctl", "mtctl">>

Place(opcode, subcode) == IF opcode < 4 THEN opcode * 4 + subcode + 1 ELSE opcode + 13

WellPlaced(row) ==
    /\ row = Row(row.nmemonic, row.opcode, row.subcode, row.has_subcode, row.format, row.syntax)
    /\ row.opcode \in 0 .. 31 /\ row.subcode \in 0 .. 3
    /\ IF row.opcode < 4 THEN row.has_subcode = TRUE
                         ELSE row.has_subcode = FALSE /\ row.subcode = 0
    /\ Layout(row.opcode, row.format, row.syntax)
    /\ row.nmemonic = InOrder[Place(row.opcode, row.subcode)]

LEMMA FamilyPlaced ==
    ASSUME NEW names, DOMAIN names = 1 .. 4, NEW opcode \in 0 .. 3, NEW format, NEW syntax,
           Layout(opcode, format, syntax),
           \A n \in 1 .. 4 : names[n] = InOrder[Place(opcode, n - 1)],
           NEW row \in Family(names, opcode, format, syntax)
    PROVE  WellPlaced(row)
<1>1. PICK n \in 1 .. 4 : row = Row(names[n], opcode, n - 1, TRUE, format, syntax)
  BY DEF Family
<1>2. /\ row.nmemonic = names[n] /\ row.opcode = opcode /\ row.subcode = n - 1
      /\ row.has_subcode = TRUE /\ row.format = format /\ row.syntax = syntax
  BY <1>1 DEF Row
<1>3. row.opcode \in 0 .. 31 /\ row.subcode \in 0 .. 3 /\ row.opcode < 4
  BY <1>2
<1>4. row.nmemonic = InOrder[Place(row.opcode, row.subcode)]
  BY <1>2
<1> QED
  BY <1>1, <1>2, <1>3, <1>4 DEF WellPlaced

LEMMA PlainPlaced ==
    ASSUME NEW names, NEW N \in 1 .. 10, DOMAIN names = 1 .. N, NEW opcode \in 4 .. 32 - N,
           NEW format, NEW syntax,
           \A n \in 1 .. N : /\ Layout(opcode + n - 1, format, syntax)
                             /\ names[n] = InOrder[Place(opcode + n - 1, 0)],
           NEW row \in Plain(names, opcode, format, syntax)
    PROVE  WellPlaced(row)
<1>1. PICK n \in 1 .. N : row = Row(names[n], opcode + n - 1, 0, FALSE, format, syntax)
  BY DEF Plain
<1>2. /\ row.nmemonic = names[n] /\ row.opcode = opcode + n - 1 /\ row.subcode = 0
      /\ row.has_subcode = FALSE /\ row.format = format /\ row.syntax = syntax
  BY <1>1 DEF Row
<1>3. row.opcode \in 0 .. 31 /\ row.subcode \in 0 .. 3 /\ ~ row.opcode < 4
  BY <1>2
<1>4. row.nmemonic = InOrder[Place(row.opcode, row.subcode)]
  BY <1>2
<1>5. Layout(row.opcode, row.format, row.syntax)
  BY <1>2
<1> QED
  BY <1>1, <1>2, <1>3, <1>4, <1>5 DEF WellPlaced

\* Every row of the table is as its opcode says, and stands at its place.
LEMMA RowsPlaced ==
    ASSUME NEW row \in instr_table
    PROVE  WellPlaced(row)
<1>1. CASE row \in Family(<<"or", "nand", "and", "xor">>, 0,
                      Three, <<Reg, Reg, Reg>>)
  BY <1>1, FamilyPlaced DEF Layout, InOrder, Place
<1>2. CASE row \in Family(<<"add", "sub", "addc", "subc">>, 1,
                      Three, <<Reg, Reg, Reg>>)
  BY <1>2, FamilyPlaced DEF Layout, InOrder, Place
<1>3. CASE row \in Family(<<"shl", "shr", "shra", "rot">>, 2,
                      Three, <<Reg, Reg, Reg>>)
  BY <1>3, FamilyPlaced DEF Layout, InOrder, Place
<1>4. CASE row \in Family(<<"shli", "shri", "shrai", "roti">>, 3,
                      <<Field(3), Blank(2), Field(4)>>, <<Reg, Unsigned(4)>>)
  <2> DEFINE names == <<"shli", "shri", "shrai", "roti">>
             format == <<Field(3), Blank(2), Field(4)>>
             syntax == <<Reg, Unsigned(4)>>
  <2>1. Layout(3, format, syntax)
    BY DEF Layout
  <2>2. \A n \in 1 .. 4 : names[n] = InOrder[Place(3, n - 1)]
    BY DEF InOrder, Place
  <2>3. DOMAIN names = 1 .. 4
    OBVIOUS
  <2> HIDE DEF names, format, syntax
  <2>4. row \in Family(names, 3, format, syntax)
    BY <1>4, Zenon DEF names, format, syntax
  <2> QED
    BY <2>1, <2>2, <2>3, <2>4, FamilyPlaced
<1>5. CASE row \in Plain(<<"li", "shlli", "inci", "deci", "ori", "andi", "xori", "orih", "andih", "xorih">>, 4,
                      <<Field(3), Field(8)>>, <<Reg, Unsigned(8)>>)
  <2> DEFINE names == <<"li", "shlli", "inci", "deci", "ori", "andi", "xori", "orih", "andih", "xorih">>
             format == <<Field(3), Field(8)>>
             syntax == <<Reg, Unsigned(8)>>
  <2>1. \A n \in 1 .. 10 : Layout(4 + n - 1, format, syntax)
    BY DEF Layout
  <2>2. \A n \in 1 .. 10 : names[n] = InOrder[Place(4 + n - 1, 0)]
    BY DEF InOrder, Place
  <2>3. DOMAIN names = 1 .. 10 /\ 10 \in 1 .. 10 /\ 4 \in 4 .. 32 - 10
    OBVIOUS
  <2> HIDE DEF names, format, syntax
  <2>4. row \in Plain(names, 4, format, syntax)
    BY <1>5, Zenon DEF names, format, syntax
  <2> QED
    BY <2>1, <2>2, <2>3, <2>4, PlainPlaced
<1>6. CASE row \in Plain(<<"sleep">>, 14,
                      <<Blank(11)>>, <<>>)
  <2> DEFINE names == <<"sleep">>
             format == <<Blank(11)>>
             syntax == <<>>
  <2>1. \A n \in 1 .. 1 : Layout(14 + n - 1, format, syntax)
    BY DEF Layout
  <2>2. \A n \in 1 .. 1 : names[n] = InOrder[Place(14 + n - 1, 0)]
    BY DEF InOrder, Place
  <2>3. DOMAIN names = 1 .. 1 /\ 1 \in 1 .. 10 /\ 14 \in 4 .. 32 - 1
    OBVIOUS
  <2> HIDE DEF names, format, syntax
  <2>4. row \in Plain(names, 14, format, syntax)
    BY <1>6, Zenon DEF names, format, syntax
  <2> QED
    BY <2>1, <2>2, <2>3, <2>4, PlainPlaced
<1>7. CASE row \in Plain(<<"ba", "bal">>, 15,
                      <<Field(11)>>, <<Signed(11)>>)
  <2> DEFINE names == <<"ba", "bal">>
             format == <<Field(11)>>
             syntax == <<Signed(11)>>
  <2>1. \A n \in 1 .. 2 : Layout(15 + n - 1, format, syntax)
    BY DEF Layout
  <2>2. \A n \in 1 .. 2 : names[n] = InOrder[Place(15 + n - 1, 0)]
    BY DEF InOrder, Place
  <2>3. DOMAIN names = 1 .. 2 /\ 2 \in 1 .. 10 /\ 15 \in 4 .. 32 - 2
    OBVIOUS
  <2> HIDE DEF names, format, syntax
  <2>4. row \in Plain(names, 15, format, syntax)
    BY <1>7, Zenon DEF names, format, syntax
  <2> QED
    BY <2>1, <2>2, <2>3, <2>4, PlainPlaced
<1>8. CASE row \in Plain(<<"bz", "bnz", "jr", "jlr">>, 17,
                      <<Field(3), Field(8)>>, <<Reg, Signed(8)>>)
  <2> DEFINE names == <<"bz", "bnz", "jr", "jlr">>
             format == <<Field(3), Field(8)>>
             syntax == <<Reg, Signed(8)>>
  <2>1. \A n \in 1 .. 4 : Layout(17 + n - 1, format, syntax)
    BY DEF Layout
  <2>2. \A n \in 1 .. 4 : names[n] = InOrder[Place(17 + n - 1, 0)]
    BY DEF InOrder, Place
  <2>3. DOMAIN names = 1 .. 4 /\ 4 \in 1 .. 10 /\ 17 \in 4 .. 32 - 4
    OBVIOUS
  <2> HIDE DEF names, format, syntax
  <2>4. row \in Plain(names, 17, format, syntax)
    BY <1>8, Zenon DEF names, format, syntax
  <2> QED
    BY <2>1, <2>2, <2>3, <2>4, PlainPlaced
<1>9. CASE row \in Plain(<<"ll", "ldw", "stw", "sc">>, 21,
                      <<Field(3), Field(3), Field(5)>>, <<Reg, Reg, Signed(5)>>)
  <2> DEFINE names == <<"ll", "ldw", "stw", "sc">>
             format == <<Field(3), Field(3), Field(5)>>
             syntax == <<Reg, Reg, Signed(5)>>
  <2>1. \A n \in 1 .. 4 : Layout(21 + n - 1, format, syntax)
    BY DEF Layout
  <2>2. \A n \in 1 .. 4 : names[n] = InOrder[Place(21 + n - 1, 0)]
    BY DEF InOrder, Place
  <2>3. DOMAIN names = 1 .. 4 /\ 4 \in 1 .. 10 /\ 21 \in 4 .. 32 - 4
    OBVIOUS
  <2> HIDE DEF names, format, syntax
  <2>4. row \in Plain(names, 21, format, syntax)
    BY <1>9, Zenon DEF names, format, syntax
  <2> QED
    BY <2>1, <2>2, <2>3, <2>4, PlainPlaced
<1>10. CASE row \in Plain(<<"mfcp", "mtcp">>, 25,
                      <<Field(3), Field(3), Field(5)>>, <<Reg, Cop, CopReg>>)
  <2> DEFINE names == <<"mfcp", "mtcp">>
             format == <<Field(3), Field(3), Field(5)>>
             syntax == <<Reg, Cop, CopReg>>
  <2>1. \A n \in 1 .. 2 : Layout(25 + n - 1, format, syntax)
    BY DEF Layout
  <2>2. \A n \in 1 .. 2 : names[n] = InOrder[Place(25 + n - 1, 0)]
    BY DEF InOrder, Place
  <2>3. DOMAIN names = 1 .. 2 /\ 2 \in 1 .. 10 /\ 25 \in 4 .. 32 - 2
    OBVIOUS
  <2> HIDE DEF names, format, syntax
  <2>4. row \in Plain(names, 25, format, syntax)
    BY <1>10, Zenon DEF names, format, syntax
  <2> QED
    BY <2>1, <2>2, <2>3, <2>4, PlainPlaced
<1>11. CASE row \in Plain(<<"cpop">>, 27,
                      <<Field(3), Field(3), Blank(5)>>, <<Reg, Cop>>)
  <2> DEFINE names == <<"cpop">>
             format == <<Field(3), Field(3), Blank(5)>>
             syntax == <<Reg, Cop>>
  <2>1. \A n \in 1 .. 1 : Layout(27 + n - 1, format, syntax)
    BY DEF Layout
  <2>2. \A n \in 1 .. 1 : names[n] = InOrder[Place(27 + n - 1, 0)]
    BY DEF InOrder, Place
  <2>3. DOMAIN names = 1 .. 1 /\ 1 \in 1 .. 10 /\ 27 \in 4 .. 32 - 1
    OBVIOUS
  <2> HIDE DEF names, format, syntax
  <2>4. row \in Plain(names, 27, format, syntax)
    BY <1>11, Zenon DEF names, format, syntax
  <2> QED
    BY <2>1, <2>2, <2>3, <2>4, PlainPlaced
<1>12. CASE row \in Plain(<<"int">>, 28,
                      <<Field(11)>>, <<Unsigned(11)>>)
  <2> DEFINE names == <<"int">>
             format == <<Field(11)>>
             syntax == <<Unsigned(11)>>
  <2>1. \A n \in 1 .. 1 : Layout(28 + n - 1, format, syntax)
    BY DEF Layout
  <2>2. \A n \in 1 .. 1 : names[n] = InOrder[Place(28 + n - 1, 0)]
    BY DEF InOrder, Place
  <2>3. DOMAIN names = 1 .. 1 /\ 1 \in 1 .. 10 /\ 28 \in 4 .. 32 - 1
    OBVIOUS
  <2> HIDE DEF names, format, syntax
  <2>4. row \in Plain(names, 28, format, syntax)
    BY <1>12, Zenon DEF names, format, syntax
  <2> QED
    BY <2>1, <2>2, <2>3, <2>4, PlainPlaced
<1>13. CASE row \in Plain(<<"rfi">>, 29,
                      <<Blank(11)>>, <<>>)
  <2> DEFINE names == <<"rfi">>
             format == <<Blank(11)>>
             syntax == <<>>
  <2>1. \A n \in 1 .. 1 : Layout(29 + n - 1, format, syntax)
    BY DEF Layout
  <2>2. \A n \in 1 .. 1 : names[n] = InOrder[Place(29 + n - 1, 0)]
    BY DEF InOrder, Place
  <2>3. DOMAIN names = 1 .. 1 /\ 1 \in 1 .. 10 /\ 29 \in 4 .. 32 - 1
    OBVIOUS
  <2> HIDE DEF names, format, syntax
  <2>4. row \in Plain(names, 29, format, syntax)
    BY <1>13, Zenon DEF names, format, syntax
  <2> QED
    BY <2>1, <2>2, <2>3, <2>4, PlainPlaced
<1>14. CASE row \in Plain(<<"mfctl", "mtctl">>, 30,
                      <<Field(3), Blank(3), Field(5)>>, <<Reg, Ctl>>)
  <2> DEFINE names == <<"mfctl", "mtctl">>
             format == <<Field(3), Blank(3), Field(5)>>
             syntax == <<Reg, Ctl>>
  <2>1. \A n \in 1 .. 2 : Layout(30 + n - 1, format, syntax)
    BY DEF Layout
  <2>2. \A n \in 1 .. 2 : names[n] = InOrder[Place(30 + n - 1, 0)]
    BY DEF InOrder, Place
  <2>3. DOMAIN names = 1 .. 2 /\ 2 \in 1 .. 10 /\ 30 \in 4 .. 32 - 2
    OBVIOUS
  <2> HIDE DEF names, format, syntax
  <2>4. row \in Plain(names, 30, format, syntax)
    BY <1>14, Zenon DEF names, format, syntax
  <2> QED
    BY <2>1, <2>2, <2>3, <2>4, PlainPlaced
<1> QED
  BY <1>1, <1>2, <1>3, <1>4, <1>5, <1>6, <1>7, <1>8, <1>9, <1>10, <1>11, <1>12, <1>13, <1>14 DEF instr_table
LEMMA LayoutsAgree ==
    ASSUME NEW opcode \in 0 .. 31, NEW f1, NEW s1, NEW f2, NEW s2,
           Layout(opcode, f1, s1), Layout(opcode, f2, s2)
    PROVE  f1 = f2 /\ s1 = s2
<1> USE DEF Layout
<1>1. CASE opcode \in 0 .. 2
  BY <1>1
<1>2. CASE opcode = 3
  BY <1>2
<1>3. CASE opcode \in 4 .. 13
  BY <1>3
<1>4. CASE opcode \in {14, 29}
  BY <1>4
<1>5. CASE opcode \in {15, 16}
  BY <1>5
<1>6. CASE opcode \in 17 .. 20
  BY <1>6
<1>7. CASE opcode \in 21 .. 24
  BY <1>7
<1>8. CASE opcode \in {25, 26}
  BY <1>8
<1>9. CASE opcode \in {27, 28}
  BY <1>9
<1>10. CASE opcode \in {30, 31}
  BY <1>10
<1> QED
  BY <1>1, <1>2, <1>3, <1>4, <1>5, <1>6, <1>7, <1>8, <1>9, <1>10

\* An opcode, with a subcode where there is one, has one row.
LEMMA OneRowPerCode ==
    ASSUME NEW r \in instr_table, NEW t \in instr_table, r.opcode = t.opcode,
           r.has_subcode => r.subcode = t.subcode
    PROVE  r = t
<1>1. WellPlaced(r) /\ WellPlaced(t)
  BY RowsPlaced
<1>2. r.has_subcode = t.has_subcode /\ r.subcode = t.subcode
  <2>1. CASE r.opcode < 4
    BY <1>1, <2>1 DEF WellPlaced
  <2>2. CASE ~ r.opcode < 4
    BY <1>1, <2>2 DEF WellPlaced
  <2> QED
    BY <2>1, <2>2
<1>3. r.format = t.format /\ r.syntax = t.syntax
  BY <1>1, LayoutsAgree DEF WellPlaced
<1>4. r.nmemonic = t.nmemonic
  BY <1>1, <1>2 DEF WellPlaced
<1> QED
  BY <1>1, <1>2, <1>3, <1>4 DEF WellPlaced

LEMMA NamesDiffer == \A i, j \in 1 .. 44 : InOrder[i] = InOrder[j] => i = j
BY SMTT(60) DEF InOrder

LEMMA PlaceOfRow ==
    ASSUME NEW row \in instr_table
    PROVE  \E i \in 1 .. 44 : i = Place(row.opcode, row.subcode) /\ row.nmemonic = InOrder[i]
<1>1. PICK o \in 0 .. 31 : o = row.opcode
  BY RowsPlaced DEF WellPlaced
<1>2. PICK s \in 0 .. 3 : s = row.subcode
  BY RowsPlaced DEF WellPlaced
<1>3. row.nmemonic = InOrder[Place(o, s)]
  BY <1>1, <1>2, RowsPlaced DEF WellPlaced
<1>4. Place(o, s) \in Int /\ 1 <= Place(o, s) /\ Place(o, s) <= 44
  BY <1>1, <1>2 DEF Place
<1> QED
  BY <1>1, <1>2, <1>3, <1>4

\* A name has one row.
LEMMA OneRowPerName ==
    ASSUME NEW r \in instr_table, NEW t \in instr_table, r.nmemonic = t.nmemonic
    PROVE  r = t
<1>1. WellPlaced(r) /\ WellPlaced(t)
  BY RowsPlaced
<1>2. PICK i \in 1 .. 44 : i = Place(r.opcode, r.subcode) /\ r.nmemonic = InOrder[i]
  BY PlaceOfRow
<1>3. PICK j \in 1 .. 44 : j = Place(t.opcode, t.subcode) /\ t.nmemonic = InOrder[j]
  BY PlaceOfRow
<1>4. Place(r.opcode, r.subcode) = Place(t.opcode, t.subcode)
  BY <1>2, <1>3, NamesDiffer
<1>5. \A o \in 0 .. 31, s \in 0 .. 3, p \in 0 .. 31, q \in 0 .. 3 :
         Place(o, s) = Place(p, q) => o = p /\ (o < 4 => s = q)
  BY DEF Place
<1>6. r.opcode = t.opcode /\ (r.opcode < 4 => r.subcode = t.subcode)
  BY <1>1, <1>4, <1>5 DEF WellPlaced
<1> QED
  BY <1>1, <1>6, OneRowPerCode DEF WellPlaced

LEMMA RowOfName ==
    ASSUME NEW row \in instr_table
    PROVE  RowOf(row.nmemonic) = row /\ row.nmemonic \in Nmemonics
<1>1. RowOf(row.nmemonic) \in instr_table /\ RowOf(row.nmemonic).nmemonic = row.nmemonic
  BY DEF RowOf
<1> QED
  BY <1>1, OneRowPerName DEF Nmemonics

LEMMA RowOfNmemonic ==
    ASSUME NEW name \in Nmemonics
    PROVE  RowOf(name) \in instr_table /\ RowOf(name).nmemonic = name
BY DEF RowOf, Nmemonics

LEMMA Resolves ==
    ASSUME NEW row \in instr_table, NEW subcode, row.has_subcode => subcode = row.subcode
    PROVE  resolve_nmemonic(row.opcode, subcode) = row.nmemonic
<1> DEFINE P(r) == r.opcode = row.opcode /\ (r.has_subcode => r.subcode = subcode)
           r == CHOOSE t \in instr_table : P(t)
<1>1. r \in instr_table /\ P(r)
  <2>1. P(row)
    OBVIOUS
  <2> QED
    BY <2>1
<1>2. resolve_nmemonic(row.opcode, subcode) = r.nmemonic
  BY DEF resolve_nmemonic
<1> HIDE DEF r
<1>3. WellPlaced(r) /\ WellPlaced(row)
  BY <1>1, RowsPlaced
<1>4. r.has_subcode = row.has_subcode
  <2>1. CASE r.opcode < 4
    BY <1>1, <1>3, <2>1 DEF WellPlaced
  <2>2. CASE ~ r.opcode < 4
    BY <1>1, <1>3, <2>2 DEF WellPlaced
  <2> QED
    BY <2>1, <2>2
<1>5. r = row
  BY <1>1, <1>4, OneRowPerCode
<1> QED
  BY <1>2, <1>5

\* Every opcode a word can have is in the table.
LEMMA CodesCovered ==
    ASSUME NEW opcode \in 0 .. 31, NEW subcode \in 0 .. 3
    PROVE  \E row \in instr_table : row.opcode = opcode /\ (row.has_subcode => row.subcode = subcode)
<1>1. ASSUME NEW names, NEW format, NEW syntax, DOMAIN names = 1 .. 4,
             Family(names, opcode, format, syntax) \subseteq instr_table
      PROVE  \E row \in instr_table : row.opcode = opcode /\ (row.has_subcode => row.subcode = subcode)
  <2>1. PICK n \in 1 .. 4 : n - 1 = subcode
    BY subcode + 1 \in 1 .. 4
  <2>2. Row(names[n], opcode, n - 1, TRUE, format, syntax) \in instr_table
    BY <1>1, <2>1 DEF Family
  <2> QED
    BY <2>1, <2>2 DEF Row
<1>2. ASSUME NEW names, NEW first, NEW format, NEW syntax, NEW n \in DOMAIN names,
             first + n - 1 = opcode,
             Plain(names, first, format, syntax) \subseteq instr_table
      PROVE  \E row \in instr_table : row.opcode = opcode /\ (row.has_subcode => row.subcode = subcode)
  <2>1. Row(names[n], first + n - 1, 0, FALSE, format, syntax) \in instr_table
    BY <1>2 DEF Plain
  <2> QED
    BY <1>2, <2>1 DEF Row
<1>3. CASE opcode = 0
  <2> DEFINE names == <<"or", "nand", "and", "xor">>
             format == Three
             syntax == <<Reg, Reg, Reg>>
  <2>1. Family(names, 0, format, syntax) \subseteq instr_table
    BY Zenon DEF instr_table
  <2>2. DOMAIN names = 1 .. 4
    OBVIOUS
  <2> HIDE DEF names, format, syntax
  <2> QED
    BY <1>1, <1>3, <2>1, <2>2
<1>4. CASE opcode = 1
  <2> DEFINE names == <<"add", "sub", "addc", "subc">>
             format == Three
             syntax == <<Reg, Reg, Reg>>
  <2>1. Family(names, 1, format, syntax) \subseteq instr_table
    BY Zenon DEF instr_table
  <2>2. DOMAIN names = 1 .. 4
    OBVIOUS
  <2> HIDE DEF names, format, syntax
  <2> QED
    BY <1>1, <1>4, <2>1, <2>2
<1>5. CASE opcode = 2
  <2> DEFINE names == <<"shl", "shr", "shra", "rot">>
             format == Three
             syntax == <<Reg, Reg, Reg>>
  <2>1. Family(names, 2, format, syntax) \subseteq instr_table
    BY Zenon DEF instr_table
  <2>2. DOMAIN names = 1 .. 4
    OBVIOUS
  <2> HIDE DEF names, format, syntax
  <2> QED
    BY <1>1, <1>5, <2>1, <2>2
<1>6. CASE opcode = 3
  <2> DEFINE names == <<"shli", "shri", "shrai", "roti">>
             format == <<Field(3), Blank(2), Field(4)>>
             syntax == <<Reg, Unsigned(4)>>
  <2>1. Family(names, 3, format, syntax) \subseteq instr_table
    BY Zenon DEF instr_table
  <2>2. DOMAIN names = 1 .. 4
    OBVIOUS
  <2> HIDE DEF names, format, syntax
  <2> QED
    BY <1>1, <1>6, <2>1, <2>2
<1>7. CASE opcode \in 4 .. 13
  <2> DEFINE names == <<"li", "shlli", "inci", "deci", "ori", "andi", "xori", "orih", "andih", "xorih">>
             format == <<Field(3), Field(8)>>
             syntax == <<Reg, Unsigned(8)>>
  <2>1. Plain(names, 4, format, syntax) \subseteq instr_table
    BY Zenon DEF instr_table
  <2>2. DOMAIN names = 1 .. 10
    OBVIOUS
  <2> HIDE DEF names, format, syntax
  <2>3. PICK n \in 1 .. 10 : 4 + n - 1 = opcode
    BY <1>7, opcode - 3 \in 1 .. 10
  <2> QED
    BY <1>2, <2>1, <2>2, <2>3
<1>8. CASE opcode = 14
  <2> DEFINE names == <<"sleep">>
             format == <<Blank(11)>>
             syntax == <<>>
  <2>1. Plain(names, 14, format, syntax) \subseteq instr_table
    BY Zenon DEF instr_table
  <2>2. DOMAIN names = 1 .. 1
    OBVIOUS
  <2> HIDE DEF names, format, syntax
  <2>3. PICK n \in 1 .. 1 : 14 + n - 1 = opcode
    BY <1>8, opcode - 13 \in 1 .. 1
  <2> QED
    BY <1>2, <2>1, <2>2, <2>3
<1>9. CASE opcode \in 15 .. 16
  <2> DEFINE names == <<"ba", "bal">>
             format == <<Field(11)>>
             syntax == <<Signed(11)>>
  <2>1. Plain(names, 15, format, syntax) \subseteq instr_table
    BY Zenon DEF instr_table
  <2>2. DOMAIN names = 1 .. 2
    OBVIOUS
  <2> HIDE DEF names, format, syntax
  <2>3. PICK n \in 1 .. 2 : 15 + n - 1 = opcode
    BY <1>9, opcode - 14 \in 1 .. 2
  <2> QED
    BY <1>2, <2>1, <2>2, <2>3
<1>10. CASE opcode \in 17 .. 20
  <2> DEFINE names == <<"bz", "bnz", "jr", "jlr">>
             format == <<Field(3), Field(8)>>
             syntax == <<Reg, Signed(8)>>
  <2>1. Plain(names, 17, format, syntax) \subseteq instr_table
    BY Zenon DEF instr_table
  <2>2. DOMAIN names = 1 .. 4
    OBVIOUS
  <2> HIDE DEF names, format, syntax
  <2>3. PICK n \in 1 .. 4 : 17 + n - 1 = opcode
    BY <1>10, opcode - 16 \in 1 .. 4
  <2> QED
    BY <1>2, <2>1, <2>2, <2>3
<1>11. CASE opcode \in 21 .. 24
  <2> DEFINE names == <<"ll", "ldw", "stw", "sc">>
             format == <<Field(3), Field(3), Field(5)>>
             syntax == <<Reg, Reg, Signed(5)>>
  <2>1. Plain(names, 21, format, syntax) \subseteq instr_table
    BY Zenon DEF instr_table
  <2>2. DOMAIN names = 1 .. 4
    OBVIOUS
  <2> HIDE DEF names, format, syntax
  <2>3. PICK n \in 1 .. 4 : 21 + n - 1 = opcode
    BY <1>11, opcode - 20 \in 1 .. 4
  <2> QED
    BY <1>2, <2>1, <2>2, <2>3
<1>12. CASE opcode \in 25 .. 26
  <2> DEFINE names == <<"mfcp", "mtcp">>
             format == <<Field(3), Field(3), Field(5)>>
             syntax == <<Reg, Cop, CopReg>>
  <2>1. Plain(names, 25, format, syntax) \subseteq instr_table
    BY Zenon DEF instr_table
  <2>2. DOMAIN names = 1 .. 2
    OBVIOUS
  <2> HIDE DEF names, format, syntax
  <2>3. PICK n \in 1 .. 2 : 25 + n - 1 = opcode
    BY <1>12, opcode - 24 \in 1 .. 2
  <2> QED
    BY <1>2, <2>1, <2>2, <2>3
<1>13. CASE opcode = 27
  <2> DEFINE names == <<"cpop">>
             format == <<Field(3), Field(3), Blank(5)>>
             syntax == <<Reg, Cop>>
  <2>1. Plain(names, 27, format, syntax) \subseteq instr_table
    BY Zenon DEF instr_table
  <2>2. DOMAIN names = 1 .. 1
    OBVIOUS
  <2> HIDE DEF names, format, syntax
  <2>3. PICK n \in 1 .. 1 : 27 + n - 1 = opcode
    BY <1>13, opcode - 26 \in 1 .. 1
  <2> QED
    BY <1>2, <2>1, <2>2, <2>3
<1>14. CASE opcode = 28
  <2> DEFINE names == <<"int">>
             format == <<Field(11)>>
             syntax == <<Unsigned(11)>>
  <2>1. Plain(names, 28, format, syntax) \subseteq instr_table
    BY Zenon DEF instr_table
  <2>2. DOMAIN names = 1 .. 1
    OBVIOUS
  <2> HIDE DEF names, format, syntax
  <2>3. PICK n \in 1 .. 1 : 28 + n - 1 = opcode
    BY <1>14, opcode - 27 \in 1 .. 1
  <2> QED
    BY <1>2, <2>1, <2>2, <2>3
<1>15. CASE opcode = 29
  <2> DEFINE names == <<"rfi">>
             format == <<Blank(11)>>
             syntax == <<>>
  <2>1. Plain(names, 29, format, syntax) \subseteq instr_table
    BY Zenon DEF instr_table
  <2>2. DOMAIN names = 1 .. 1
    OBVIOUS
  <2> HIDE DEF names, format, syntax
  <2>3. PICK n \in 1 .. 1 : 29 + n - 1 = opcode
    BY <1>15, opcode - 28 \in 1 .. 1
  <2> QED
    BY <1>2, <2>1, <2>2, <2>3
<1>16. CASE opcode \in 30 .. 31
  <2> DEFINE names == <<"mfctl", "mtctl">>
             format == <<Field(3), Blank(3), Field(5)>>
             syntax == <<Reg, Ctl>>
  <2>1. Plain(names, 30, format, syntax) \subseteq instr_table
    BY Zenon DEF instr_table
  <2>2. DOMAIN names = 1 .. 2
    OBVIOUS
  <2> HIDE DEF names, format, syntax
  <2>3. PICK n \in 1 .. 2 : 30 + n - 1 = opcode
    BY <1>16, opcode - 29 \in 1 .. 2
  <2> QED
    BY <1>2, <2>1, <2>2, <2>3
<1> QED
  BY <1>3, <1>4, <1>5, <1>6, <1>7, <1>8, <1>9, <1>10, <1>11, <1>12, <1>13, <1>14, <1>15, <1>16

---------------------------------------------------------------------------
(* What is assembled is decoded.                                           *)

Fields(base, format, values) ==
    FoldLeft(LAMBDA acc, field : ShiftIn(acc, field, values), base, format)

Start(opcode) == [word |-> opcode, next |-> 1]

Encoded(row, values) ==
    IF row.has_subcode THEN Fields(Start(row.opcode), row.format, values).word * 4 + row.subcode
                       ELSE Fields(Start(row.opcode), row.format, values).word

LEMMA Assembles ==
    ASSUME NEW name, NEW values
    PROVE  assemble_instruction(name, values) = Encoded(RowOf(name), values)
BY DEF assemble_instruction, Encoded, Fields, Start

\* A format of one, two and three fields.
LEMMA FieldsOf1 ==
    ASSUME NEW base, NEW values, NEW f
    PROVE  Fields(base, <<f>>, values) = ShiftIn(base, f, values)
<1>1. PICK format : format = <<f>>
  OBVIOUS
<1>2. DOMAIN format = {1}
  BY <1>1
<1>3. Fields(base, format, values) = After3({1}, base, format, values)
  BY <1>2, FoldFields DEF Fields
<1> QED
  BY <1>1, <1>3 DEF After1, After2, After3

LEMMA FieldsOf2 ==
    ASSUME NEW base, NEW values, NEW f, NEW g
    PROVE  Fields(base, <<f, g>>, values) = ShiftIn(ShiftIn(base, f, values), g, values)
<1>1. PICK format : format = <<f, g>>
  OBVIOUS
<1>2. DOMAIN format = {1, 2}
  BY <1>1
<1>3. Fields(base, format, values) = After3({1, 2}, base, format, values)
  BY <1>2, FoldFields DEF Fields
<1> QED
  BY <1>1, <1>3 DEF After1, After2, After3

LEMMA FieldsOf3 ==
    ASSUME NEW base, NEW values, NEW f, NEW g, NEW h
    PROVE  Fields(base, <<f, g, h>>, values) = ShiftIn(ShiftIn(ShiftIn(base, f, values), g, values), h, values)
<1>1. PICK format : format = <<f, g, h>>
  OBVIOUS
<1>2. DOMAIN format = {1, 2, 3}
  BY <1>1
<1>3. Fields(base, format, values) = After3({1, 2, 3}, base, format, values)
  BY <1>2, FoldFields DEF Fields
<1> QED
  BY <1>1, <1>3 DEF After1, After2, After3

\* A part of l bits at the right of a word; the field of l bits that is value k.
Put(w, l, part) == w * 2^l + part
Part(values, k, l) == values[k] % 2^l

\* What has been laid out of a word, and the value that is next.
Acc(w, k) == [word |-> w, next |-> k]

LEMMA Shifted ==
    ASSUME NEW values, NEW w, NEW b
    PROVE  /\ ShiftIn(Acc(w, 1), Field(b), values) = Acc(Put(w, b, Part(values, 1, b)), 2)
           /\ ShiftIn(Acc(w, 2), Field(b), values) = Acc(Put(w, b, Part(values, 2, b)), 3)
           /\ ShiftIn(Acc(w, 3), Field(b), values) = Acc(Put(w, b, Part(values, 3, b)), 4)
           /\ ShiftIn(Acc(w, 1), Blank(b), values) = Acc(Put(w, b, 0), 1)
           /\ ShiftIn(Acc(w, 2), Blank(b), values) = Acc(Put(w, b, 0), 2)
           /\ ShiftIn(Acc(w, 3), Blank(b), values) = Acc(Put(w, b, 0), 3)
           /\ Acc(w, 1).word = w /\ Acc(w, 2).word = w /\ Acc(w, 3).word = w /\ Acc(w, 4).word = w
<1>1. ASSUME NEW k \in Nat
      PROVE  ShiftIn(Acc(w, k), Field(b), values) = Acc(Put(w, b, Part(values, k, b)), k + 1)
  BY DEF ShiftIn, Field, Put, Part, Acc
<1>2. ASSUME NEW k \in Nat
      PROVE  ShiftIn(Acc(w, k), Blank(b), values) = Acc(Put(w, b, 0), k)
  BY DEF ShiftIn, Blank, Put, Acc
<1>3. \A k : Acc(w, k).word = w
  BY DEF Acc
<1> QED
  BY <1>1, <1>2, <1>3

\* The words of the six formats.
LEMMA WordBlank ==
    ASSUME NEW o, NEW values, NEW l
    PROVE  Fields(Start(o), <<Blank(l)>>, values).word
             = Put(o, l, 0)
<1>1. Start(o) = Acc(o, 1)
  BY DEF Start, Acc
<1>2. ShiftIn(Acc(o, 1), Blank(l), values)
        = Acc(Put(o, l, 0), 1)
  BY Shifted
<1>3. Acc(Put(o, l, 0), 1).word = Put(o, l, 0)
  BY Shifted
<1>4. Fields(Start(o), <<Blank(l)>>, values)
        = ShiftIn(Start(o), Blank(l), values)
  BY FieldsOf1
<1> QED
  BY <1>1, <1>2, <1>3, <1>4

LEMMA WordLong ==
    ASSUME NEW o, NEW values, NEW l
    PROVE  Fields(Start(o), <<Field(l)>>, values).word
             = Put(o, l, Part(values, 1, l))
<1>1. Start(o) = Acc(o, 1)
  BY DEF Start, Acc
<1>2. ShiftIn(Acc(o, 1), Field(l), values)
        = Acc(Put(o, l, Part(values, 1, l)), 2)
  BY Shifted
<1>3. Acc(Put(o, l, Part(values, 1, l)), 2).word = Put(o, l, Part(values, 1, l))
  BY Shifted
<1>4. Fields(Start(o), <<Field(l)>>, values)
        = ShiftIn(Start(o), Field(l), values)
  BY FieldsOf1
<1> QED
  BY <1>1, <1>2, <1>3, <1>4

LEMMA WordByte ==
    ASSUME NEW o, NEW values, NEW l, NEW m
    PROVE  Fields(Start(o), <<Field(l), Field(m)>>, values).word
             = Put(Put(o, l, Part(values, 1, l)), m, Part(values, 2, m))
<1>1. Start(o) = Acc(o, 1)
  BY DEF Start, Acc
<1>2. ShiftIn(Acc(o, 1), Field(l), values)
        = Acc(Put(o, l, Part(values, 1, l)), 2)
  BY Shifted
<1>3. ShiftIn(Acc(Put(o, l, Part(values, 1, l)), 2), Field(m), values)
        = Acc(Put(Put(o, l, Part(values, 1, l)), m, Part(values, 2, m)), 3)
  BY Shifted
<1>4. Acc(Put(Put(o, l, Part(values, 1, l)), m, Part(values, 2, m)), 3).word = Put(Put(o, l, Part(values, 1, l)), m, Part(values, 2, m))
  BY Shifted
<1>5. Fields(Start(o), <<Field(l), Field(m)>>, values)
        = ShiftIn(ShiftIn(Start(o), Field(l), values), Field(m), values)
  BY FieldsOf2
<1> QED
  BY <1>1, <1>2, <1>3, <1>4, <1>5

LEMMA WordThree ==
    ASSUME NEW o, NEW values, NEW l, NEW m, NEW n
    PROVE  Fields(Start(o), <<Field(l), Field(m), Field(n)>>, values).word
             = Put(Put(Put(o, l, Part(values, 1, l)), m, Part(values, 2, m)), n, Part(values, 3, n))
<1>1. Start(o) = Acc(o, 1)
  BY DEF Start, Acc
<1>2. ShiftIn(Acc(o, 1), Field(l), values)
        = Acc(Put(o, l, Part(values, 1, l)), 2)
  BY Shifted
<1>3. ShiftIn(Acc(Put(o, l, Part(values, 1, l)), 2), Field(m), values)
        = Acc(Put(Put(o, l, Part(values, 1, l)), m, Part(values, 2, m)), 3)
  BY Shifted
<1>4. ShiftIn(Acc(Put(Put(o, l, Part(values, 1, l)), m, Part(values, 2, m)), 3), Field(n), values)
        = Acc(Put(Put(Put(o, l, Part(values, 1, l)), m, Part(values, 2, m)), n, Part(values, 3, n)), 4)
  BY Shifted
<1>5. Acc(Put(Put(Put(o, l, Part(values, 1, l)), m, Part(values, 2, m)), n, Part(values, 3, n)), 4).word = Put(Put(Put(o, l, Part(values, 1, l)), m, Part(values, 2, m)), n, Part(values, 3, n))
  BY Shifted
<1>6. Fields(Start(o), <<Field(l), Field(m), Field(n)>>, values)
        = ShiftIn(ShiftIn(ShiftIn(Start(o), Field(l), values), Field(m), values), Field(n), values)
  BY FieldsOf3
<1> QED
  BY <1>1, <1>2, <1>3, <1>4, <1>5, <1>6

LEMMA WordGap ==
    ASSUME NEW o, NEW values, NEW l, NEW m, NEW n
    PROVE  Fields(Start(o), <<Field(l), Blank(m), Field(n)>>, values).word
             = Put(Put(Put(o, l, Part(values, 1, l)), m, 0), n, Part(values, 2, n))
<1>1. Start(o) = Acc(o, 1)
  BY DEF Start, Acc
<1>2. ShiftIn(Acc(o, 1), Field(l), values)
        = Acc(Put(o, l, Part(values, 1, l)), 2)
  BY Shifted
<1>3. ShiftIn(Acc(Put(o, l, Part(values, 1, l)), 2), Blank(m), values)
        = Acc(Put(Put(o, l, Part(values, 1, l)), m, 0), 2)
  BY Shifted
<1>4. ShiftIn(Acc(Put(Put(o, l, Part(values, 1, l)), m, 0), 2), Field(n), values)
        = Acc(Put(Put(Put(o, l, Part(values, 1, l)), m, 0), n, Part(values, 2, n)), 3)
  BY Shifted
<1>5. Acc(Put(Put(Put(o, l, Part(values, 1, l)), m, 0), n, Part(values, 2, n)), 3).word = Put(Put(Put(o, l, Part(values, 1, l)), m, 0), n, Part(values, 2, n))
  BY Shifted
<1>6. Fields(Start(o), <<Field(l), Blank(m), Field(n)>>, values)
        = ShiftIn(ShiftIn(ShiftIn(Start(o), Field(l), values), Blank(m), values), Field(n), values)
  BY FieldsOf3
<1> QED
  BY <1>1, <1>2, <1>3, <1>4, <1>5, <1>6

LEMMA WordTail ==
    ASSUME NEW o, NEW values, NEW l, NEW m, NEW n
    PROVE  Fields(Start(o), <<Field(l), Field(m), Blank(n)>>, values).word
             = Put(Put(Put(o, l, Part(values, 1, l)), m, Part(values, 2, m)), n, 0)
<1>1. Start(o) = Acc(o, 1)
  BY DEF Start, Acc
<1>2. ShiftIn(Acc(o, 1), Field(l), values)
        = Acc(Put(o, l, Part(values, 1, l)), 2)
  BY Shifted
<1>3. ShiftIn(Acc(Put(o, l, Part(values, 1, l)), 2), Field(m), values)
        = Acc(Put(Put(o, l, Part(values, 1, l)), m, Part(values, 2, m)), 3)
  BY Shifted
<1>4. ShiftIn(Acc(Put(Put(o, l, Part(values, 1, l)), m, Part(values, 2, m)), 3), Blank(n), values)
        = Acc(Put(Put(Put(o, l, Part(values, 1, l)), m, Part(values, 2, m)), n, 0), 3)
  BY Shifted
<1>5. Acc(Put(Put(Put(o, l, Part(values, 1, l)), m, Part(values, 2, m)), n, 0), 3).word = Put(Put(Put(o, l, Part(values, 1, l)), m, Part(values, 2, m)), n, 0)
  BY Shifted
<1>6. Fields(Start(o), <<Field(l), Field(m), Blank(n)>>, values)
        = ShiftIn(ShiftIn(ShiftIn(Start(o), Field(l), values), Field(m), values), Blank(n), values)
  BY FieldsOf3
<1> QED
  BY <1>1, <1>2, <1>3, <1>4, <1>5, <1>6

\* What a width leaves of an integer.
LEMMA CutIn ==
    ASSUME NEW v, v \in Int
    PROVE  /\ v % 2^2 \in 0 .. 3 /\ v % 2^3 \in 0 .. 7 /\ v % 2^4 \in 0 .. 15
           /\ v % 2^5 \in 0 .. 31 /\ v % 2^8 \in 0 .. 255 /\ v % 2^11 \in 0 .. 2047
<1>1. v % 2^2 \in 0 .. 3
  <2>1. v % 4 \in 0 .. 3
    OBVIOUS
  <2> QED
    BY <2>1, Powers
<1>2. v % 2^3 \in 0 .. 7
  <2>1. v % 8 \in 0 .. 7
    OBVIOUS
  <2> QED
    BY <2>1, Powers
<1>3. v % 2^4 \in 0 .. 15
  <2>1. v % 16 \in 0 .. 15
    OBVIOUS
  <2> QED
    BY <2>1, Powers
<1>4. v % 2^5 \in 0 .. 31
  <2>1. v % 32 \in 0 .. 31
    OBVIOUS
  <2> QED
    BY <2>1, Powers
<1>5. v % 2^8 \in 0 .. 255
  <2>1. v % 256 \in 0 .. 255
    OBVIOUS
  <2> QED
    BY <2>1, Powers
<1>6. v % 2^11 \in 0 .. 2047
  <2>1. v % 2048 \in 0 .. 2047
    OBVIOUS
  <2> QED
    BY <2>1, Powers
<1> QED
  BY <1>1, <1>2, <1>3, <1>4, <1>5, <1>6

LEMMA Below2048 == \A v : v \in 0 .. 2047 => v \in Int /\ 0 <= v /\ v < 2048
OBVIOUS

LEMMA PartIn ==
    ASSUME NEW values, NEW k, values[k] \in Int
    PROVE  /\ Part(values, k, 3) \in 0 .. 7 /\ Part(values, k, 4) \in 0 .. 15
           /\ Part(values, k, 5) \in 0 .. 31
           /\ Part(values, k, 8) \in 0 .. 255 /\ Part(values, k, 11) \in 0 .. 2047
BY CutIn DEF Part

\* A word of three registers and a subcode.
LEMMA PartsThree ==
    ASSUME NEW o, NEW a, NEW b, NEW c, NEW s, NEW w,
           o \in 0 .. 31, a \in 0 .. 7, b \in 0 .. 7, c \in 0 .. 7, s \in 0 .. 3,
           w = Put(Put(Put(Put(o, 3, a), 3, b), 3, c), 2, s)
    PROVE  /\ w \in Word /\ Bits(w, 11, 5) = o
           /\ Bits(w, 8, 3) = a
           /\ Bits(w, 5, 3) = b
           /\ Bits(w, 2, 3) = c
           /\ Bits(w, 0, 2) = s
<1>1. w = (((o * 8 + a) * 8 + b) * 8 + c) * 4 + s /\ w \in Int
  BY Powers DEF Put
<1>2. 0 <= w /\ w < 65536
  BY <1>1
<1>3. (w \div 2048) % 32 = o
  <2>1. w \div 2048 = o
    BY <1>1
  <2> QED
    BY <2>1
<1>4. (w \div 256) % 8 = a
  <2>1. w \div 256 = o * 8 + a
    BY <1>1
  <2> QED
    BY <2>1
<1>5. (w \div 32) % 8 = b
  <2>1. w \div 32 = (o * 8 + a) * 8 + b
    BY <1>1
  <2> QED
    BY <2>1
<1>6. (w \div 4) % 8 = c
  <2>1. w \div 4 = ((o * 8 + a) * 8 + b) * 8 + c
    BY <1>1
  <2> QED
    BY <2>1
<1>7. (w \div 1) % 4 = s
  <2>1. w \div 1 = (((o * 8 + a) * 8 + b) * 8 + c) * 4 + s
    BY <1>1
  <2> QED
    BY <2>1
<1> QED
  BY <1>1, <1>2, <1>3, <1>4, <1>5, <1>6, <1>7, IsWord, Powers DEF Bits

\* A word of a register, a blank, a shift and a subcode.
LEMMA PartsShift ==
    ASSUME NEW o, NEW a, NEW b, NEW s, NEW w,
           o \in 0 .. 31, a \in 0 .. 7, b \in 0 .. 15, s \in 0 .. 3,
           w = Put(Put(Put(Put(o, 3, a), 2, 0), 4, b), 2, s)
    PROVE  /\ w \in Word /\ Bits(w, 11, 5) = o
           /\ Bits(w, 8, 3) = a
           /\ Bits(w, 2, 4) = b
           /\ Bits(w, 0, 2) = s
<1>1. w = (((o * 8 + a) * 4 + 0) * 16 + b) * 4 + s /\ w \in Int
  BY Powers DEF Put
<1>2. 0 <= w /\ w < 65536
  BY <1>1
<1>3. (w \div 2048) % 32 = o
  <2>1. w \div 2048 = o
    BY <1>1
  <2> QED
    BY <2>1
<1>4. (w \div 256) % 8 = a
  <2>1. w \div 256 = o * 8 + a
    BY <1>1
  <2> QED
    BY <2>1
<1>5. (w \div 4) % 16 = b
  <2>1. w \div 4 = ((o * 8 + a) * 4 + 0) * 16 + b
    BY <1>1
  <2> QED
    BY <2>1
<1>6. (w \div 1) % 4 = s
  <2>1. w \div 1 = (((o * 8 + a) * 4 + 0) * 16 + b) * 4 + s
    BY <1>1
  <2> QED
    BY <2>1
<1> QED
  BY <1>1, <1>2, <1>3, <1>4, <1>5, <1>6, IsWord, Powers DEF Bits

\* A word of a register and a byte.
LEMMA PartsByte ==
    ASSUME NEW o, NEW a, NEW b, NEW w,
           o \in 0 .. 31, a \in 0 .. 7, b \in 0 .. 255,
           w = Put(Put(o, 3, a), 8, b)
    PROVE  /\ w \in Word /\ Bits(w, 11, 5) = o
           /\ Bits(w, 8, 3) = a
           /\ Bits(w, 0, 8) = b
<1>1. w = (o * 8 + a) * 256 + b /\ w \in Int
  BY Powers DEF Put
<1>2. 0 <= w /\ w < 65536
  BY <1>1
<1>3. (w \div 2048) % 32 = o
  <2>1. w \div 2048 = o
    BY <1>1
  <2> QED
    BY <2>1
<1>4. (w \div 256) % 8 = a
  <2>1. w \div 256 = o * 8 + a
    BY <1>1
  <2> QED
    BY <2>1
<1>5. (w \div 1) % 256 = b
  <2>1. w \div 1 = (o * 8 + a) * 256 + b
    BY <1>1
  <2> QED
    BY <2>1
<1> QED
  BY <1>1, <1>2, <1>3, <1>4, <1>5, IsWord, Powers DEF Bits

\* A word of one field.
LEMMA PartsLong ==
    ASSUME NEW o, NEW a, NEW w,
           o \in 0 .. 31, a \in Int, 0 <= a, a < 2048,
           w = Put(o, 11, a)
    PROVE  /\ w \in Word /\ Bits(w, 11, 5) = o
           /\ Bits(w, 0, 11) = a
<1>1. w = o * 2048 + a /\ w \in Int
  BY Powers DEF Put
<1>2. 0 <= w /\ w < 65536
  BY <1>1
<1>3. (w \div 2048) % 32 = o
  <2>1. w \div 2048 = o
    BY <1>1
  <2> QED
    BY <2>1
<1>4. (w \div 1) % 2048 = a
  <2>1. w \div 1 = o * 2048 + a
    BY <1>1
  <2> QED
    BY <2>1
<1> QED
  BY <1>1, <1>2, <1>3, <1>4, IsWord, Powers DEF Bits

\* A word of two registers and five bits.
LEMMA PartsFive ==
    ASSUME NEW o, NEW a, NEW b, NEW c, NEW w,
           o \in 0 .. 31, a \in 0 .. 7, b \in 0 .. 7, c \in 0 .. 31,
           w = Put(Put(Put(o, 3, a), 3, b), 5, c)
    PROVE  /\ w \in Word /\ Bits(w, 11, 5) = o
           /\ Bits(w, 8, 3) = a
           /\ Bits(w, 5, 3) = b
           /\ Bits(w, 0, 5) = c
<1>1. w = ((o * 8 + a) * 8 + b) * 32 + c /\ w \in Int
  BY Powers DEF Put
<1>2. 0 <= w /\ w < 65536
  BY <1>1
<1>3. (w \div 2048) % 32 = o
  <2>1. w \div 2048 = o
    BY <1>1
  <2> QED
    BY <2>1
<1>4. (w \div 256) % 8 = a
  <2>1. w \div 256 = o * 8 + a
    BY <1>1
  <2> QED
    BY <2>1
<1>5. (w \div 32) % 8 = b
  <2>1. w \div 32 = (o * 8 + a) * 8 + b
    BY <1>1
  <2> QED
    BY <2>1
<1>6. (w \div 1) % 32 = c
  <2>1. w \div 1 = ((o * 8 + a) * 8 + b) * 32 + c
    BY <1>1
  <2> QED
    BY <2>1
<1> QED
  BY <1>1, <1>2, <1>3, <1>4, <1>5, <1>6, IsWord, Powers DEF Bits

\* A word of a register, a blank and five bits.
LEMMA PartsControl ==
    ASSUME NEW o, NEW a, NEW b, NEW w,
           o \in 0 .. 31, a \in 0 .. 7, b \in 0 .. 31,
           w = Put(Put(Put(o, 3, a), 3, 0), 5, b)
    PROVE  /\ w \in Word /\ Bits(w, 11, 5) = o
           /\ Bits(w, 8, 3) = a
           /\ Bits(w, 0, 5) = b
<1>1. w = ((o * 8 + a) * 8 + 0) * 32 + b /\ w \in Int
  BY Powers DEF Put
<1>2. 0 <= w /\ w < 65536
  BY <1>1
<1>3. (w \div 2048) % 32 = o
  <2>1. w \div 2048 = o
    BY <1>1
  <2> QED
    BY <2>1
<1>4. (w \div 256) % 8 = a
  <2>1. w \div 256 = o * 8 + a
    BY <1>1
  <2> QED
    BY <2>1
<1>5. (w \div 1) % 32 = b
  <2>1. w \div 1 = ((o * 8 + a) * 8 + 0) * 32 + b
    BY <1>1
  <2> QED
    BY <2>1
<1> QED
  BY <1>1, <1>2, <1>3, <1>4, <1>5, IsWord, Powers DEF Bits

\* A part of a word as an operand: a signed one has the sign of its highest bit.
Operated(syn, part) == IF syn.kind = "s" THEN SgnExtend(part, syn.bits) ELSE part

\* What the decoder makes of the word of a row and its values.
DecodesAs(row, values) ==
    LET word == Encoded(row, values)
        decoded == decode_instruction(word)
    IN  /\ word \in Word
        /\ Bits(word, 11, 5) = row.opcode
        /\ decoded.opcode = row.opcode
        /\ row.has_subcode => decoded.subcode = row.subcode
        /\ \A k \in DOMAIN row.syntax :
              decoded.fields[k] = Operated(row.syntax[k], Part(values, k, row.syntax[k].bits))

\* assemble_instruction and decode_instruction read a row the same way: the decoder gives
\* the codes of the row back, and each operand to its width.
LEMMA AssembledIsDecoded ==
    ASSUME NEW row \in instr_table, NEW values,
           \A k \in DOMAIN row.syntax : values[k] \in Int
    PROVE  DecodesAs(row, values)
<1>1. WellPlaced(row)
  BY RowsPlaced
<1>2. PICK o \in 0 .. 31 : o = row.opcode
  BY <1>1 DEF WellPlaced
<1>3. PICK s \in 0 .. 3 : s = row.subcode
  BY <1>1 DEF WellPlaced
<1>4. Layout(o, row.format, row.syntax)
  BY <1>1, <1>2 DEF WellPlaced
<1>5. IF o < 4 THEN row.has_subcode = TRUE ELSE row.has_subcode = FALSE
  BY <1>1, <1>2 DEF WellPlaced
<1>6. CASE o \in 0 .. 2
  <2>1. row.format = Three /\ row.syntax = <<Reg, Reg, Reg>>
    BY <1>4, <1>6, Zenon DEF Layout
  <2>2. row.has_subcode = TRUE
    BY <1>5, <1>6
  <2>3. PICK a \in 0 .. 7 : a = Part(values, 1, 3)
    <3>1. 1 \in DOMAIN row.syntax
      BY <2>1
    <3> QED
      BY <3>1, PartIn
  <2>4. PICK b \in 0 .. 7 : b = Part(values, 2, 3)
    <3>1. 2 \in DOMAIN row.syntax
      BY <2>1
    <3> QED
      BY <3>1, PartIn
  <2>5. PICK c \in 0 .. 7 : c = Part(values, 3, 3)
    <3>1. 3 \in DOMAIN row.syntax
      BY <2>1
    <3> QED
      BY <3>1, PartIn
  <2>6. Fields(Start(o), row.format, values).word = Put(Put(Put(o, 3, a), 3, b), 3, c)
    <3>1. Fields(Start(o), <<Field(3), Field(3), Field(3)>>, values).word
            = Put(Put(Put(o, 3, Part(values, 1, 3)), 3, Part(values, 2, 3)), 3, Part(values, 3, 3))
      BY WordThree
    <3> QED
      BY <2>3, <2>4, <2>5, <2>1, <3>1 DEF Three
  <2>7. PICK w : w = Encoded(row, values) /\ w = Put(Put(Put(Put(o, 3, a), 3, b), 3, c), 2, s)
    BY <1>2, <1>3, <2>2, <2>6, Powers DEF Encoded, Put
  <2>8. w \in Word /\ Bits(w, 11, 5) = o
        /\ Bits(w, 8, 3) = a
        /\ Bits(w, 5, 3) = b
        /\ Bits(w, 2, 3) = c
        /\ Bits(w, 0, 2) = s
    BY <1>2, <1>3, <2>3, <2>4, <2>5, <2>7, PartsThree
  <2>9. decode_instruction(w)
          = [opcode |-> o, subcode |-> s, fields |-> <<a, b, c>>]
    BY <2>8, <1>6, DecodeCases, Zenon
  <2>10. DOMAIN row.syntax = {1, 2, 3}
    BY <2>1
  <2>11. decode_instruction(w).fields[1] = Operated(row.syntax[1], Part(values, 1, row.syntax[1].bits))
    <3>1. row.syntax[1] = Reg
      BY <2>1
    <3>2. row.syntax[1].bits = 3 /\ row.syntax[1].kind # "s"
      BY <3>1 DEF Reg, Operand
    <3> QED
      BY <2>3, <2>4, <2>5, <2>9, <3>2 DEF Operated
  <2>12. decode_instruction(w).fields[2] = Operated(row.syntax[2], Part(values, 2, row.syntax[2].bits))
    <3>1. row.syntax[2] = Reg
      BY <2>1
    <3>2. row.syntax[2].bits = 3 /\ row.syntax[2].kind # "s"
      BY <3>1 DEF Reg, Operand
    <3> QED
      BY <2>3, <2>4, <2>5, <2>9, <3>2 DEF Operated
  <2>13. decode_instruction(w).fields[3] = Operated(row.syntax[3], Part(values, 3, row.syntax[3].bits))
    <3>1. row.syntax[3] = Reg
      BY <2>1
    <3>2. row.syntax[3].bits = 3 /\ row.syntax[3].kind # "s"
      BY <3>1 DEF Reg, Operand
    <3> QED
      BY <2>3, <2>4, <2>5, <2>9, <3>2 DEF Operated
  <2>14. decode_instruction(w).opcode = o /\ (row.has_subcode => decode_instruction(w).subcode = s)
    BY <2>2, <2>9
  <2> QED
    BY <1>2, <1>3, <2>7, <2>8, <2>10, <2>11, <2>12, <2>13, <2>14 DEF DecodesAs
<1>7. CASE o = 3
  <2>1. row.format = <<Field(3), Blank(2), Field(4)>> /\ row.syntax = <<Reg, Unsigned(4)>>
    BY <1>4, <1>7, Zenon DEF Layout
  <2>2. row.has_subcode = TRUE
    BY <1>5, <1>7
  <2>3. PICK a \in 0 .. 7 : a = Part(values, 1, 3)
    <3>1. 1 \in DOMAIN row.syntax
      BY <2>1
    <3> QED
      BY <3>1, PartIn
  <2>4. PICK b \in 0 .. 15 : b = Part(values, 2, 4)
    <3>1. 2 \in DOMAIN row.syntax
      BY <2>1
    <3> QED
      BY <3>1, PartIn
  <2>5. Fields(Start(o), row.format, values).word = Put(Put(Put(o, 3, a), 2, 0), 4, b)
    <3>1. Fields(Start(o), <<Field(3), Blank(2), Field(4)>>, values).word
            = Put(Put(Put(o, 3, Part(values, 1, 3)), 2, 0), 4, Part(values, 2, 4))
      BY WordGap
    <3> QED
      BY <2>3, <2>4, <2>1, <3>1
  <2>6. PICK w : w = Encoded(row, values) /\ w = Put(Put(Put(Put(o, 3, a), 2, 0), 4, b), 2, s)
    BY <1>2, <1>3, <2>2, <2>5, Powers DEF Encoded, Put
  <2>7. w \in Word /\ Bits(w, 11, 5) = o
        /\ Bits(w, 8, 3) = a
        /\ Bits(w, 2, 4) = b
        /\ Bits(w, 0, 2) = s
    BY <1>2, <1>3, <2>3, <2>4, <2>6, PartsShift
  <2>8. decode_instruction(w)
          = [opcode |-> o, subcode |-> s, fields |-> <<a, b, 0>>]
    BY <2>7, <1>7, DecodeCases, Zenon
  <2>9. DOMAIN row.syntax = {1, 2}
    BY <2>1
  <2>10. decode_instruction(w).fields[1] = Operated(row.syntax[1], Part(values, 1, row.syntax[1].bits))
    <3>1. row.syntax[1] = Reg
      BY <2>1
    <3>2. row.syntax[1].bits = 3 /\ row.syntax[1].kind # "s"
      BY <3>1 DEF Reg, Operand
    <3> QED
      BY <2>3, <2>4, <2>8, <3>2 DEF Operated
  <2>11. decode_instruction(w).fields[2] = Operated(row.syntax[2], Part(values, 2, row.syntax[2].bits))
    <3>1. row.syntax[2] = Unsigned(4)
      BY <2>1
    <3>2. row.syntax[2].bits = 4 /\ row.syntax[2].kind # "s"
      BY <3>1 DEF Unsigned, Operand
    <3> QED
      BY <2>3, <2>4, <2>8, <3>2 DEF Operated
  <2>12. decode_instruction(w).opcode = o /\ (row.has_subcode => decode_instruction(w).subcode = s)
    BY <2>2, <2>8
  <2> QED
    BY <1>2, <1>3, <2>6, <2>7, <2>9, <2>10, <2>11, <2>12 DEF DecodesAs
<1>8. CASE o \in 4 .. 13
  <2>1. row.format = <<Field(3), Field(8)>> /\ row.syntax = <<Reg, Unsigned(8)>>
    BY <1>4, <1>8, Zenon DEF Layout
  <2>2. row.has_subcode = FALSE
    BY <1>5, <1>8
  <2>3. PICK a \in 0 .. 7 : a = Part(values, 1, 3)
    <3>1. 1 \in DOMAIN row.syntax
      BY <2>1
    <3> QED
      BY <3>1, PartIn
  <2>4. PICK b \in 0 .. 255 : b = Part(values, 2, 8)
    <3>1. 2 \in DOMAIN row.syntax
      BY <2>1
    <3> QED
      BY <3>1, PartIn
  <2>5. Fields(Start(o), row.format, values).word = Put(Put(o, 3, a), 8, b)
    <3>1. Fields(Start(o), <<Field(3), Field(8)>>, values).word
            = Put(Put(o, 3, Part(values, 1, 3)), 8, Part(values, 2, 8))
      BY WordByte
    <3> QED
      BY <2>3, <2>4, <2>1, <3>1
  <2>6. PICK w : w = Encoded(row, values) /\ w = Put(Put(o, 3, a), 8, b)
    BY <1>2, <1>3, <2>2, <2>5 DEF Encoded
  <2>7. w \in Word /\ Bits(w, 11, 5) = o
        /\ Bits(w, 8, 3) = a
        /\ Bits(w, 0, 8) = b
    BY <1>2, <1>3, <2>3, <2>4, <2>6, PartsByte
  <2>8. decode_instruction(w)
          = [opcode |-> o, subcode |-> 0, fields |-> <<a, b, 0>>]
    BY <2>7, <1>8, DecodeCases, Zenon
  <2>9. DOMAIN row.syntax = {1, 2}
    BY <2>1
  <2>10. decode_instruction(w).fields[1] = Operated(row.syntax[1], Part(values, 1, row.syntax[1].bits))
    <3>1. row.syntax[1] = Reg
      BY <2>1
    <3>2. row.syntax[1].bits = 3 /\ row.syntax[1].kind # "s"
      BY <3>1 DEF Reg, Operand
    <3> QED
      BY <2>3, <2>4, <2>8, <3>2 DEF Operated
  <2>11. decode_instruction(w).fields[2] = Operated(row.syntax[2], Part(values, 2, row.syntax[2].bits))
    <3>1. row.syntax[2] = Unsigned(8)
      BY <2>1
    <3>2. row.syntax[2].bits = 8 /\ row.syntax[2].kind # "s"
      BY <3>1 DEF Unsigned, Operand
    <3> QED
      BY <2>3, <2>4, <2>8, <3>2 DEF Operated
  <2>12. decode_instruction(w).opcode = o /\ (row.has_subcode => decode_instruction(w).subcode = s)
    BY <2>2, <2>8
  <2> QED
    BY <1>2, <1>3, <2>6, <2>7, <2>9, <2>10, <2>11, <2>12 DEF DecodesAs
<1>9. CASE o \in {14, 29}
  <2>1. row.format = <<Blank(11)>> /\ row.syntax = <<>>
    BY <1>4, <1>9, Zenon DEF Layout
  <2>2. row.has_subcode = FALSE
    BY <1>5, <1>9
  <2>3. Fields(Start(o), row.format, values).word = Put(o, 11, 0)
    <3>1. Fields(Start(o), <<Blank(11)>>, values).word
            = Put(o, 11, 0)
      BY WordBlank
    <3> QED
      BY <2>1, <3>1
  <2>4. PICK w : w = Encoded(row, values) /\ w = Put(o, 11, 0)
    BY <1>2, <1>3, <2>2, <2>3 DEF Encoded
  <2>5. w \in Word /\ Bits(w, 11, 5) = o
    BY <1>2, <1>3, <2>4, PartsLong, Below2048
  <2>6. decode_instruction(w)
          = [opcode |-> o, subcode |-> 0, fields |-> <<0, 0, 0>>]
    BY <2>5, <1>9, DecodeCases, Zenon
  <2>7. DOMAIN row.syntax = {}
    BY <2>1
  <2>8. decode_instruction(w).opcode = o /\ (row.has_subcode => decode_instruction(w).subcode = s)
    BY <2>2, <2>6
  <2> QED
    BY <1>2, <1>3, <2>4, <2>5, <2>7, <2>8 DEF DecodesAs
<1>10. CASE o \in {15, 16}
  <2>1. row.format = <<Field(11)>> /\ row.syntax = <<Signed(11)>>
    BY <1>4, <1>10, Zenon DEF Layout
  <2>2. row.has_subcode = FALSE
    BY <1>5, <1>10
  <2>3. PICK a \in 0 .. 2047 : a = Part(values, 1, 11)
    <3>1. 1 \in DOMAIN row.syntax
      BY <2>1
    <3> QED
      BY <3>1, PartIn
  <2>4. Fields(Start(o), row.format, values).word = Put(o, 11, a)
    <3>1. Fields(Start(o), <<Field(11)>>, values).word
            = Put(o, 11, Part(values, 1, 11))
      BY WordLong
    <3> QED
      BY <2>3, <2>1, <3>1
  <2>5. PICK w : w = Encoded(row, values) /\ w = Put(o, 11, a)
    BY <1>2, <1>3, <2>2, <2>4 DEF Encoded
  <2>6. w \in Word /\ Bits(w, 11, 5) = o
        /\ Bits(w, 0, 11) = a
    BY <1>2, <1>3, <2>3, <2>5, PartsLong, Below2048
  <2>7. decode_instruction(w)
          = [opcode |-> o, subcode |-> 0, fields |-> <<SgnExtend(a, 11), 0, 0>>]
    <3>1. decode_instruction(w)
            = [opcode |-> Bits(w, 11, 5), subcode |-> 0, fields |-> <<SgnExtend(Bits(w, 0, 11), 11), 0, 0>>]
      <4>1. Bits(w, 11, 5) = o
        BY <2>6
      <4> QED
        BY <4>1, <1>10 DEF decode_instruction
    <3> QED
      BY <2>6, <3>1
  <2>8. DOMAIN row.syntax = {1}
    BY <2>1
  <2>9. decode_instruction(w).fields[1] = Operated(row.syntax[1], Part(values, 1, row.syntax[1].bits))
    <3>1. row.syntax[1] = Signed(11)
      BY <2>1
    <3>2. row.syntax[1].bits = 11 /\ row.syntax[1].kind = "s"
      BY <3>1 DEF Signed, Operand
    <3> QED
      BY <2>3, <2>7, <3>2 DEF Operated
  <2>10. decode_instruction(w).opcode = o /\ (row.has_subcode => decode_instruction(w).subcode = s)
    BY <2>2, <2>7
  <2> QED
    BY <1>2, <1>3, <2>5, <2>6, <2>8, <2>9, <2>10 DEF DecodesAs
<1>11. CASE o \in 17 .. 20
  <2>1. row.format = <<Field(3), Field(8)>> /\ row.syntax = <<Reg, Signed(8)>>
    BY <1>4, <1>11, Zenon DEF Layout
  <2>2. row.has_subcode = FALSE
    BY <1>5, <1>11
  <2>3. PICK a \in 0 .. 7 : a = Part(values, 1, 3)
    <3>1. 1 \in DOMAIN row.syntax
      BY <2>1
    <3> QED
      BY <3>1, PartIn
  <2>4. PICK b \in 0 .. 255 : b = Part(values, 2, 8)
    <3>1. 2 \in DOMAIN row.syntax
      BY <2>1
    <3> QED
      BY <3>1, PartIn
  <2>5. Fields(Start(o), row.format, values).word = Put(Put(o, 3, a), 8, b)
    <3>1. Fields(Start(o), <<Field(3), Field(8)>>, values).word
            = Put(Put(o, 3, Part(values, 1, 3)), 8, Part(values, 2, 8))
      BY WordByte
    <3> QED
      BY <2>3, <2>4, <2>1, <3>1
  <2>6. PICK w : w = Encoded(row, values) /\ w = Put(Put(o, 3, a), 8, b)
    BY <1>2, <1>3, <2>2, <2>5 DEF Encoded
  <2>7. w \in Word /\ Bits(w, 11, 5) = o
        /\ Bits(w, 8, 3) = a
        /\ Bits(w, 0, 8) = b
    BY <1>2, <1>3, <2>3, <2>4, <2>6, PartsByte
  <2>8. decode_instruction(w)
          = [opcode |-> o, subcode |-> 0, fields |-> <<a, SgnExtend(b, 8), 0>>]
    BY <2>7, <1>11, DecodeCases, Zenon
  <2>9. DOMAIN row.syntax = {1, 2}
    BY <2>1
  <2>10. decode_instruction(w).fields[1] = Operated(row.syntax[1], Part(values, 1, row.syntax[1].bits))
    <3>1. row.syntax[1] = Reg
      BY <2>1
    <3>2. row.syntax[1].bits = 3 /\ row.syntax[1].kind # "s"
      BY <3>1 DEF Reg, Operand
    <3> QED
      BY <2>3, <2>4, <2>8, <3>2 DEF Operated
  <2>11. decode_instruction(w).fields[2] = Operated(row.syntax[2], Part(values, 2, row.syntax[2].bits))
    <3>1. row.syntax[2] = Signed(8)
      BY <2>1
    <3>2. row.syntax[2].bits = 8 /\ row.syntax[2].kind = "s"
      BY <3>1 DEF Signed, Operand
    <3> QED
      BY <2>3, <2>4, <2>8, <3>2 DEF Operated
  <2>12. decode_instruction(w).opcode = o /\ (row.has_subcode => decode_instruction(w).subcode = s)
    BY <2>2, <2>8
  <2> QED
    BY <1>2, <1>3, <2>6, <2>7, <2>9, <2>10, <2>11, <2>12 DEF DecodesAs
<1>12. CASE o \in 21 .. 24
  <2>1. row.format = <<Field(3), Field(3), Field(5)>> /\ row.syntax = <<Reg, Reg, Signed(5)>>
    BY <1>4, <1>12, Zenon DEF Layout
  <2>2. row.has_subcode = FALSE
    BY <1>5, <1>12
  <2>3. PICK a \in 0 .. 7 : a = Part(values, 1, 3)
    <3>1. 1 \in DOMAIN row.syntax
      BY <2>1
    <3> QED
      BY <3>1, PartIn
  <2>4. PICK b \in 0 .. 7 : b = Part(values, 2, 3)
    <3>1. 2 \in DOMAIN row.syntax
      BY <2>1
    <3> QED
      BY <3>1, PartIn
  <2>5. PICK c \in 0 .. 31 : c = Part(values, 3, 5)
    <3>1. 3 \in DOMAIN row.syntax
      BY <2>1
    <3> QED
      BY <3>1, PartIn
  <2>6. Fields(Start(o), row.format, values).word = Put(Put(Put(o, 3, a), 3, b), 5, c)
    <3>1. Fields(Start(o), <<Field(3), Field(3), Field(5)>>, values).word
            = Put(Put(Put(o, 3, Part(values, 1, 3)), 3, Part(values, 2, 3)), 5, Part(values, 3, 5))
      BY WordThree
    <3> QED
      BY <2>3, <2>4, <2>5, <2>1, <3>1
  <2>7. PICK w : w = Encoded(row, values) /\ w = Put(Put(Put(o, 3, a), 3, b), 5, c)
    BY <1>2, <1>3, <2>2, <2>6 DEF Encoded
  <2>8. w \in Word /\ Bits(w, 11, 5) = o
        /\ Bits(w, 8, 3) = a
        /\ Bits(w, 5, 3) = b
        /\ Bits(w, 0, 5) = c
    BY <1>2, <1>3, <2>3, <2>4, <2>5, <2>7, PartsFive
  <2>9. decode_instruction(w)
          = [opcode |-> o, subcode |-> 0, fields |-> <<a, b, SgnExtend(c, 5)>>]
    BY <2>8, <1>12, DecodeCases, Zenon
  <2>10. DOMAIN row.syntax = {1, 2, 3}
    BY <2>1
  <2>11. decode_instruction(w).fields[1] = Operated(row.syntax[1], Part(values, 1, row.syntax[1].bits))
    <3>1. row.syntax[1] = Reg
      BY <2>1
    <3>2. row.syntax[1].bits = 3 /\ row.syntax[1].kind # "s"
      BY <3>1 DEF Reg, Operand
    <3> QED
      BY <2>3, <2>4, <2>5, <2>9, <3>2 DEF Operated
  <2>12. decode_instruction(w).fields[2] = Operated(row.syntax[2], Part(values, 2, row.syntax[2].bits))
    <3>1. row.syntax[2] = Reg
      BY <2>1
    <3>2. row.syntax[2].bits = 3 /\ row.syntax[2].kind # "s"
      BY <3>1 DEF Reg, Operand
    <3> QED
      BY <2>3, <2>4, <2>5, <2>9, <3>2 DEF Operated
  <2>13. decode_instruction(w).fields[3] = Operated(row.syntax[3], Part(values, 3, row.syntax[3].bits))
    <3>1. row.syntax[3] = Signed(5)
      BY <2>1
    <3>2. row.syntax[3].bits = 5 /\ row.syntax[3].kind = "s"
      BY <3>1 DEF Signed, Operand
    <3> QED
      BY <2>3, <2>4, <2>5, <2>9, <3>2 DEF Operated
  <2>14. decode_instruction(w).opcode = o /\ (row.has_subcode => decode_instruction(w).subcode = s)
    BY <2>2, <2>9
  <2> QED
    BY <1>2, <1>3, <2>7, <2>8, <2>10, <2>11, <2>12, <2>13, <2>14 DEF DecodesAs
<1>13. CASE o \in {25, 26}
  <2>1. row.format = <<Field(3), Field(3), Field(5)>> /\ row.syntax = <<Reg, Cop, CopReg>>
    BY <1>4, <1>13, Zenon DEF Layout
  <2>2. row.has_subcode = FALSE
    BY <1>5, <1>13
  <2>3. PICK a \in 0 .. 7 : a = Part(values, 1, 3)
    <3>1. 1 \in DOMAIN row.syntax
      BY <2>1
    <3> QED
      BY <3>1, PartIn
  <2>4. PICK b \in 0 .. 7 : b = Part(values, 2, 3)
    <3>1. 2 \in DOMAIN row.syntax
      BY <2>1
    <3> QED
      BY <3>1, PartIn
  <2>5. PICK c \in 0 .. 31 : c = Part(values, 3, 5)
    <3>1. 3 \in DOMAIN row.syntax
      BY <2>1
    <3> QED
      BY <3>1, PartIn
  <2>6. Fields(Start(o), row.format, values).word = Put(Put(Put(o, 3, a), 3, b), 5, c)
    <3>1. Fields(Start(o), <<Field(3), Field(3), Field(5)>>, values).word
            = Put(Put(Put(o, 3, Part(values, 1, 3)), 3, Part(values, 2, 3)), 5, Part(values, 3, 5))
      BY WordThree
    <3> QED
      BY <2>3, <2>4, <2>5, <2>1, <3>1
  <2>7. PICK w : w = Encoded(row, values) /\ w = Put(Put(Put(o, 3, a), 3, b), 5, c)
    BY <1>2, <1>3, <2>2, <2>6 DEF Encoded
  <2>8. w \in Word /\ Bits(w, 11, 5) = o
        /\ Bits(w, 8, 3) = a
        /\ Bits(w, 5, 3) = b
        /\ Bits(w, 0, 5) = c
    BY <1>2, <1>3, <2>3, <2>4, <2>5, <2>7, PartsFive
  <2>9. decode_instruction(w)
          = [opcode |-> o, subcode |-> 0, fields |-> <<a, b, c>>]
    BY <2>8, <1>13, DecodeCases, Zenon
  <2>10. DOMAIN row.syntax = {1, 2, 3}
    BY <2>1
  <2>11. decode_instruction(w).fields[1] = Operated(row.syntax[1], Part(values, 1, row.syntax[1].bits))
    <3>1. row.syntax[1] = Reg
      BY <2>1
    <3>2. row.syntax[1].bits = 3 /\ row.syntax[1].kind # "s"
      BY <3>1 DEF Reg, Operand
    <3> QED
      BY <2>3, <2>4, <2>5, <2>9, <3>2 DEF Operated
  <2>12. decode_instruction(w).fields[2] = Operated(row.syntax[2], Part(values, 2, row.syntax[2].bits))
    <3>1. row.syntax[2] = Cop
      BY <2>1
    <3>2. row.syntax[2].bits = 3 /\ row.syntax[2].kind # "s"
      BY <3>1 DEF Cop, Operand
    <3> QED
      BY <2>3, <2>4, <2>5, <2>9, <3>2 DEF Operated
  <2>13. decode_instruction(w).fields[3] = Operated(row.syntax[3], Part(values, 3, row.syntax[3].bits))
    <3>1. row.syntax[3] = CopReg
      BY <2>1
    <3>2. row.syntax[3].bits = 5 /\ row.syntax[3].kind # "s"
      BY <3>1 DEF CopReg, Operand
    <3> QED
      BY <2>3, <2>4, <2>5, <2>9, <3>2 DEF Operated
  <2>14. decode_instruction(w).opcode = o /\ (row.has_subcode => decode_instruction(w).subcode = s)
    BY <2>2, <2>9
  <2> QED
    BY <1>2, <1>3, <2>7, <2>8, <2>10, <2>11, <2>12, <2>13, <2>14 DEF DecodesAs
<1>14. CASE o = 27
  <2>1. row.format = <<Field(3), Field(3), Blank(5)>> /\ row.syntax = <<Reg, Cop>>
    BY <1>4, <1>14, Zenon DEF Layout
  <2>2. row.has_subcode = FALSE
    BY <1>5, <1>14
  <2>3. PICK a \in 0 .. 7 : a = Part(values, 1, 3)
    <3>1. 1 \in DOMAIN row.syntax
      BY <2>1
    <3> QED
      BY <3>1, PartIn
  <2>4. PICK b \in 0 .. 7 : b = Part(values, 2, 3)
    <3>1. 2 \in DOMAIN row.syntax
      BY <2>1
    <3> QED
      BY <3>1, PartIn
  <2>5. Fields(Start(o), row.format, values).word = Put(Put(Put(o, 3, a), 3, b), 5, 0)
    <3>1. Fields(Start(o), <<Field(3), Field(3), Blank(5)>>, values).word
            = Put(Put(Put(o, 3, Part(values, 1, 3)), 3, Part(values, 2, 3)), 5, 0)
      BY WordTail
    <3> QED
      BY <2>3, <2>4, <2>1, <3>1
  <2>6. PICK w : w = Encoded(row, values) /\ w = Put(Put(Put(o, 3, a), 3, b), 5, 0)
    BY <1>2, <1>3, <2>2, <2>5 DEF Encoded
  <2>7. w \in Word /\ Bits(w, 11, 5) = o
        /\ Bits(w, 8, 3) = a
        /\ Bits(w, 5, 3) = b
    BY <1>2, <1>3, <2>3, <2>4, <2>6, PartsFive
  <2>8. decode_instruction(w)
          = [opcode |-> o, subcode |-> 0, fields |-> <<a, b, 0>>]
    BY <2>7, <1>14, DecodeCases, Zenon
  <2>9. DOMAIN row.syntax = {1, 2}
    BY <2>1
  <2>10. decode_instruction(w).fields[1] = Operated(row.syntax[1], Part(values, 1, row.syntax[1].bits))
    <3>1. row.syntax[1] = Reg
      BY <2>1
    <3>2. row.syntax[1].bits = 3 /\ row.syntax[1].kind # "s"
      BY <3>1 DEF Reg, Operand
    <3> QED
      BY <2>3, <2>4, <2>8, <3>2 DEF Operated
  <2>11. decode_instruction(w).fields[2] = Operated(row.syntax[2], Part(values, 2, row.syntax[2].bits))
    <3>1. row.syntax[2] = Cop
      BY <2>1
    <3>2. row.syntax[2].bits = 3 /\ row.syntax[2].kind # "s"
      BY <3>1 DEF Cop, Operand
    <3> QED
      BY <2>3, <2>4, <2>8, <3>2 DEF Operated
  <2>12. decode_instruction(w).opcode = o /\ (row.has_subcode => decode_instruction(w).subcode = s)
    BY <2>2, <2>8
  <2> QED
    BY <1>2, <1>3, <2>6, <2>7, <2>9, <2>10, <2>11, <2>12 DEF DecodesAs
<1>15. CASE o = 28
  <2>1. row.format = <<Field(11)>> /\ row.syntax = <<Unsigned(11)>>
    BY <1>4, <1>15, Zenon DEF Layout
  <2>2. row.has_subcode = FALSE
    BY <1>5, <1>15
  <2>3. PICK a \in 0 .. 2047 : a = Part(values, 1, 11)
    <3>1. 1 \in DOMAIN row.syntax
      BY <2>1
    <3> QED
      BY <3>1, PartIn
  <2>4. Fields(Start(o), row.format, values).word = Put(o, 11, a)
    <3>1. Fields(Start(o), <<Field(11)>>, values).word
            = Put(o, 11, Part(values, 1, 11))
      BY WordLong
    <3> QED
      BY <2>3, <2>1, <3>1
  <2>5. PICK w : w = Encoded(row, values) /\ w = Put(o, 11, a)
    BY <1>2, <1>3, <2>2, <2>4 DEF Encoded
  <2>6. w \in Word /\ Bits(w, 11, 5) = o
        /\ Bits(w, 0, 11) = a
    BY <1>2, <1>3, <2>3, <2>5, PartsLong, Below2048
  <2>7. decode_instruction(w)
          = [opcode |-> o, subcode |-> 0, fields |-> <<a, 0, 0>>]
    <3>1. decode_instruction(w)
            = [opcode |-> Bits(w, 11, 5), subcode |-> 0, fields |-> <<Bits(w, 0, 11), 0, 0>>]
      <4>1. Bits(w, 11, 5) = o
        BY <2>6
      <4> QED
        BY <4>1, <1>15 DEF decode_instruction
    <3> QED
      BY <2>6, <3>1
  <2>8. DOMAIN row.syntax = {1}
    BY <2>1
  <2>9. decode_instruction(w).fields[1] = Operated(row.syntax[1], Part(values, 1, row.syntax[1].bits))
    <3>1. row.syntax[1] = Unsigned(11)
      BY <2>1
    <3>2. row.syntax[1].bits = 11 /\ row.syntax[1].kind # "s"
      BY <3>1 DEF Unsigned, Operand
    <3> QED
      BY <2>3, <2>7, <3>2 DEF Operated
  <2>10. decode_instruction(w).opcode = o /\ (row.has_subcode => decode_instruction(w).subcode = s)
    BY <2>2, <2>7
  <2> QED
    BY <1>2, <1>3, <2>5, <2>6, <2>8, <2>9, <2>10 DEF DecodesAs
<1>16. CASE o \in {30, 31}
  <2>1. row.format = <<Field(3), Blank(3), Field(5)>> /\ row.syntax = <<Reg, Ctl>>
    BY <1>4, <1>16, Zenon DEF Layout
  <2>2. row.has_subcode = FALSE
    BY <1>5, <1>16
  <2>3. PICK a \in 0 .. 7 : a = Part(values, 1, 3)
    <3>1. 1 \in DOMAIN row.syntax
      BY <2>1
    <3> QED
      BY <3>1, PartIn
  <2>4. PICK b \in 0 .. 31 : b = Part(values, 2, 5)
    <3>1. 2 \in DOMAIN row.syntax
      BY <2>1
    <3> QED
      BY <3>1, PartIn
  <2>5. Fields(Start(o), row.format, values).word = Put(Put(Put(o, 3, a), 3, 0), 5, b)
    <3>1. Fields(Start(o), <<Field(3), Blank(3), Field(5)>>, values).word
            = Put(Put(Put(o, 3, Part(values, 1, 3)), 3, 0), 5, Part(values, 2, 5))
      BY WordGap
    <3> QED
      BY <2>3, <2>4, <2>1, <3>1
  <2>6. PICK w : w = Encoded(row, values) /\ w = Put(Put(Put(o, 3, a), 3, 0), 5, b)
    BY <1>2, <1>3, <2>2, <2>5 DEF Encoded
  <2>7. w \in Word /\ Bits(w, 11, 5) = o
        /\ Bits(w, 8, 3) = a
        /\ Bits(w, 0, 5) = b
    BY <1>2, <1>3, <2>3, <2>4, <2>6, PartsControl
  <2>8. decode_instruction(w)
          = [opcode |-> o, subcode |-> 0, fields |-> <<a, b, 0>>]
    BY <2>7, <1>16, DecodeCases, Zenon
  <2>9. DOMAIN row.syntax = {1, 2}
    BY <2>1
  <2>10. decode_instruction(w).fields[1] = Operated(row.syntax[1], Part(values, 1, row.syntax[1].bits))
    <3>1. row.syntax[1] = Reg
      BY <2>1
    <3>2. row.syntax[1].bits = 3 /\ row.syntax[1].kind # "s"
      BY <3>1 DEF Reg, Operand
    <3> QED
      BY <2>3, <2>4, <2>8, <3>2 DEF Operated
  <2>11. decode_instruction(w).fields[2] = Operated(row.syntax[2], Part(values, 2, row.syntax[2].bits))
    <3>1. row.syntax[2] = Ctl
      BY <2>1
    <3>2. row.syntax[2].bits = 5 /\ row.syntax[2].kind # "s"
      BY <3>1 DEF Ctl, Operand
    <3> QED
      BY <2>3, <2>4, <2>8, <3>2 DEF Operated
  <2>12. decode_instruction(w).opcode = o /\ (row.has_subcode => decode_instruction(w).subcode = s)
    BY <2>2, <2>8
  <2> QED
    BY <1>2, <1>3, <2>6, <2>7, <2>9, <2>10, <2>11, <2>12 DEF DecodesAs
<1> QED
  BY <1>2, <1>6, <1>7, <1>8, <1>9, <1>10, <1>11, <1>12, <1>13, <1>14, <1>15, <1>16

---------------------------------------------------------------------------
(* The operands of the table, and what a word can hold of them.            *)

Syntaxes ==
    {Reg, Cop, Ctl, CopReg, Signed(5), Signed(8), Signed(11), Unsigned(4), Unsigned(8), Unsigned(11)}

\* The values an operand can have when it is read back from a word.
Fits(syn, v) ==
    IF syn.kind = "s" THEN -(2^(syn.bits - 1)) <= v /\ v < 2^(syn.bits - 1)
                      ELSE 0 <= v /\ v < 2^syn.bits

LEMMA SyntaxKinds ==
    ASSUME NEW syn \in Syntaxes
    PROVE  \/ syn.kind = "s" /\ syn.bits \in {5, 8, 11}
           \/ syn.kind \in {"r", "c", "q", "x", "u"} /\ syn.bits \in {3, 4, 5, 8, 11}
BY DEF Syntaxes, Reg, Cop, Ctl, CopReg, Signed, Unsigned, Operand

LEMMA HalfPowers == 2^(5 - 1) = 16 /\ 2^(8 - 1) = 128 /\ 2^(11 - 1) = 1024
OBVIOUS

\* A signed field of a word, cut to its width and extended again, is what it was.
LEMMA SignKept ==
    ASSUME NEW v \in Int
    PROVE  /\ -16 <= v /\ v < 16 => SgnExtend(v % 32, 5) = v
           /\ -128 <= v /\ v < 128 => SgnExtend(v % 256, 8) = v
           /\ -1024 <= v /\ v < 1024 => SgnExtend(v % 2048, 11) = v
<1>1. ASSUME -16 <= v, v < 16 PROVE SgnExtend(v % 32, 5) = v
  <2>1. CASE v < 0
    <3>1. v % 32 = v + 32
      BY <1>1, <2>1
    <3> QED
      BY <1>1, <2>1, <3>1, Powers, HalfPowers DEF SgnExtend
  <2>2. CASE v >= 0
    <3>1. v % 32 = v
      BY <1>1, <2>2
    <3> QED
      BY <1>1, <2>2, <3>1, Powers, HalfPowers DEF SgnExtend
  <2> QED
    BY <2>1, <2>2
<1>2. ASSUME -128 <= v, v < 128 PROVE SgnExtend(v % 256, 8) = v
  <2>1. CASE v < 0
    <3>1. v % 256 = v + 256
      BY <1>2, <2>1
    <3> QED
      BY <1>2, <2>1, <3>1, Powers, HalfPowers DEF SgnExtend
  <2>2. CASE v >= 0
    <3>1. v % 256 = v
      BY <1>2, <2>2
    <3> QED
      BY <1>2, <2>2, <3>1, Powers, HalfPowers DEF SgnExtend
  <2> QED
    BY <2>1, <2>2
<1>3. ASSUME -1024 <= v, v < 1024 PROVE SgnExtend(v % 2048, 11) = v
  <2>1. CASE v < 0
    <3>1. v % 2048 = v + 2048
      BY <1>3, <2>1
    <3> QED
      BY <1>3, <2>1, <3>1, Powers, HalfPowers DEF SgnExtend
  <2>2. CASE v >= 0
    <3>1. v % 2048 = v
      BY <1>3, <2>2
    <3> QED
      BY <1>3, <2>2, <3>1, Powers, HalfPowers DEF SgnExtend
  <2> QED
    BY <2>1, <2>2
<1> QED
  BY <1>1, <1>2, <1>3

\* What fits an operand is kept by the word.
LEMMA OperandKept ==
    ASSUME NEW syn \in Syntaxes, NEW v \in Int, Fits(syn, v)
    PROVE  Operated(syn, v % 2^syn.bits) = v
<1>1. CASE syn.kind = "s" /\ syn.bits = 5
  BY <1>1, SignKept, Powers, HalfPowers DEF Operated, Fits
<1>2. CASE syn.kind = "s" /\ syn.bits = 8
  BY <1>2, SignKept, Powers, HalfPowers DEF Operated, Fits
<1>3. CASE syn.kind = "s" /\ syn.bits = 11
  BY <1>3, SignKept, Powers, HalfPowers DEF Operated, Fits
<1>4. CASE syn.kind # "s" /\ syn.bits = 3
  <2>1. 0 <= v /\ v < 8
    BY <1>4, Powers DEF Fits
  <2>2. v % 8 = v
    BY <2>1
  <2> QED
    BY <1>4, <2>2, Powers DEF Operated
<1>5. CASE syn.kind # "s" /\ syn.bits = 4
  <2>1. 0 <= v /\ v < 16
    BY <1>5, Powers DEF Fits
  <2>2. v % 16 = v
    BY <2>1
  <2> QED
    BY <1>5, <2>2, Powers DEF Operated
<1>6. CASE syn.kind # "s" /\ syn.bits = 5
  <2>1. 0 <= v /\ v < 32
    BY <1>6, Powers DEF Fits
  <2>2. v % 32 = v
    BY <2>1
  <2> QED
    BY <1>6, <2>2, Powers DEF Operated
<1>7. CASE syn.kind # "s" /\ syn.bits = 8
  <2>1. 0 <= v /\ v < 256
    BY <1>7, Powers DEF Fits
  <2>2. v % 256 = v
    BY <2>1
  <2> QED
    BY <1>7, <2>2, Powers DEF Operated
<1>8. CASE syn.kind # "s" /\ syn.bits = 11
  <2>1. 0 <= v /\ v < 2048
    BY <1>8, Powers DEF Fits
  <2>2. v % 2048 = v
    BY <2>1
  <2> QED
    BY <1>8, <2>2, Powers DEF Operated
<1> QED
  BY SyntaxKinds, <1>1, <1>2, <1>3, <1>4, <1>5, <1>6, <1>7, <1>8

\* The operands of every row are of these kinds.
LEMMA SyntaxOfRow ==
    ASSUME NEW row \in instr_table
    PROVE  /\ \A k \in DOMAIN row.syntax : row.syntax[k] \in Syntaxes
           /\ DOMAIN row.syntax \in {{}, {1}, {1, 2}, {1, 2, 3}}
<1>1. PICK o \in 0 .. 31 : o = row.opcode
  BY RowsPlaced DEF WellPlaced
<1>2. Layout(o, row.format, row.syntax)
  BY <1>1, RowsPlaced DEF WellPlaced
<1>3. CASE o \in 0 .. 2
  <2>1. row.syntax = <<Reg, Reg, Reg>>
    BY <1>2, <1>3, Zenon DEF Layout
  <2> QED
    BY <2>1 DEF Syntaxes
<1>4. CASE o = 3
  <2>1. row.syntax = <<Reg, Unsigned(4)>>
    BY <1>2, <1>4, Zenon DEF Layout
  <2> QED
    BY <2>1 DEF Syntaxes
<1>5. CASE o \in 4 .. 13
  <2>1. row.syntax = <<Reg, Unsigned(8)>>
    BY <1>2, <1>5, Zenon DEF Layout
  <2> QED
    BY <2>1 DEF Syntaxes
<1>6. CASE o \in {14, 29}
  <2>1. row.syntax = <<>>
    BY <1>2, <1>6, Zenon DEF Layout
  <2> QED
    BY <2>1 DEF Syntaxes
<1>7. CASE o \in {15, 16}
  <2>1. row.syntax = <<Signed(11)>>
    BY <1>2, <1>7, Zenon DEF Layout
  <2> QED
    BY <2>1 DEF Syntaxes
<1>8. CASE o \in 17 .. 20
  <2>1. row.syntax = <<Reg, Signed(8)>>
    BY <1>2, <1>8, Zenon DEF Layout
  <2> QED
    BY <2>1 DEF Syntaxes
<1>9. CASE o \in 21 .. 24
  <2>1. row.syntax = <<Reg, Reg, Signed(5)>>
    BY <1>2, <1>9, Zenon DEF Layout
  <2> QED
    BY <2>1 DEF Syntaxes
<1>10. CASE o \in {25, 26}
  <2>1. row.syntax = <<Reg, Cop, CopReg>>
    BY <1>2, <1>10, Zenon DEF Layout
  <2> QED
    BY <2>1 DEF Syntaxes
<1>11. CASE o = 27
  <2>1. row.syntax = <<Reg, Cop>>
    BY <1>2, <1>11, Zenon DEF Layout
  <2> QED
    BY <2>1 DEF Syntaxes
<1>12. CASE o = 28
  <2>1. row.syntax = <<Unsigned(11)>>
    BY <1>2, <1>12, Zenon DEF Layout
  <2> QED
    BY <2>1 DEF Syntaxes
<1>13. CASE o \in {30, 31}
  <2>1. row.syntax = <<Reg, Ctl>>
    BY <1>2, <1>13, Zenon DEF Layout
  <2> QED
    BY <2>1 DEF Syntaxes
<1> QED
  BY <1>3, <1>4, <1>5, <1>6, <1>7, <1>8, <1>9, <1>10, <1>11, <1>12, <1>13

LEMMA BitsIn ==
    ASSUME NEW w \in Int, NEW p, p \in {0, 2, 5, 8, 11}
    PROVE  /\ Bits(w, p, 2) \in 0 .. 3 /\ Bits(w, p, 3) \in 0 .. 7 /\ Bits(w, p, 4) \in 0 .. 15
           /\ Bits(w, p, 5) \in 0 .. 31 /\ Bits(w, p, 8) \in 0 .. 255 /\ Bits(w, p, 11) \in 0 .. 2047
<1>1. PICK q \in {1, 4, 32, 256, 2048} : q = 2^p
  <2>1. CASE p = 0
    <3>1. 2^p = 1
      BY <2>1, Powers
    <3> QED
      BY <3>1
  <2>2. CASE p = 2
    <3>1. 2^p = 4
      BY <2>2, Powers
    <3> QED
      BY <3>1
  <2>3. CASE p = 5
    <3>1. 2^p = 32
      BY <2>3, Powers
    <3> QED
      BY <3>1
  <2>4. CASE p = 8
    <3>1. 2^p = 256
      BY <2>4, Powers
    <3> QED
      BY <3>1
  <2>5. CASE p = 11
    <3>1. 2^p = 2048
      BY <2>5, Powers
    <3> QED
      BY <3>1
  <2> QED
    BY <2>1, <2>2, <2>3, <2>4, <2>5
<1>2. w \div q \in Int
  BY <1>1
<1>3. w \div 2^p \in Int
  BY <1>1, <1>2
<1> QED
  BY <1>3, CutIn DEF Bits

\* Every part of a word fits the operands of its width; extended by its sign, the signed
\* ones.
LEMMA FieldFits ==
    ASSUME NEW v, v \in Int
    PROVE  /\ v \in 0 .. 7 => Fits(Reg, v) /\ Fits(Cop, v)
           /\ v \in 0 .. 31 => Fits(Ctl, v) /\ Fits(CopReg, v)
           /\ v \in 0 .. 15 => Fits(Unsigned(4), v)
           /\ v \in 0 .. 255 => Fits(Unsigned(8), v)
           /\ 0 <= v /\ v < 2048 => Fits(Unsigned(11), v)
           /\ v \in 0 .. 31 => Fits(Signed(5), SgnExtend(v, 5)) /\ SgnExtend(v, 5) \in Int
           /\ v \in 0 .. 255 => Fits(Signed(8), SgnExtend(v, 8)) /\ SgnExtend(v, 8) \in Int
           /\ 0 <= v /\ v < 2048 => Fits(Signed(11), SgnExtend(v, 11)) /\ SgnExtend(v, 11) \in Int
<1>1. ASSUME 0 <= v, v < 8 PROVE Fits(Reg, v)
  <2>1. PICK syn : syn = Reg
    OBVIOUS
  <2>2. syn.bits = 3 /\ syn.kind # "s"
    BY <2>1 DEF Reg, Operand
  <2>3. Fits(syn, v)
    BY <1>1, <2>2, Powers DEF Fits
  <2> QED
    BY <2>1, <2>3
<1>2. ASSUME 0 <= v, v < 8 PROVE Fits(Cop, v)
  <2>1. PICK syn : syn = Cop
    OBVIOUS
  <2>2. syn.bits = 3 /\ syn.kind # "s"
    BY <2>1 DEF Cop, Operand
  <2>3. Fits(syn, v)
    BY <1>2, <2>2, Powers DEF Fits
  <2> QED
    BY <2>1, <2>3
<1>3. ASSUME 0 <= v, v < 32 PROVE Fits(Ctl, v)
  <2>1. PICK syn : syn = Ctl
    OBVIOUS
  <2>2. syn.bits = 5 /\ syn.kind # "s"
    BY <2>1 DEF Ctl, Operand
  <2>3. Fits(syn, v)
    BY <1>3, <2>2, Powers DEF Fits
  <2> QED
    BY <2>1, <2>3
<1>4. ASSUME 0 <= v, v < 32 PROVE Fits(CopReg, v)
  <2>1. PICK syn : syn = CopReg
    OBVIOUS
  <2>2. syn.bits = 5 /\ syn.kind # "s"
    BY <2>1 DEF CopReg, Operand
  <2>3. Fits(syn, v)
    BY <1>4, <2>2, Powers DEF Fits
  <2> QED
    BY <2>1, <2>3
<1>5. ASSUME 0 <= v, v < 16 PROVE Fits(Unsigned(4), v)
  <2>1. PICK syn : syn = Unsigned(4)
    OBVIOUS
  <2>2. syn.bits = 4 /\ syn.kind # "s"
    BY <2>1 DEF Unsigned, Operand
  <2>3. Fits(syn, v)
    BY <1>5, <2>2, Powers DEF Fits
  <2> QED
    BY <2>1, <2>3
<1>6. ASSUME 0 <= v, v < 256 PROVE Fits(Unsigned(8), v)
  <2>1. PICK syn : syn = Unsigned(8)
    OBVIOUS
  <2>2. syn.bits = 8 /\ syn.kind # "s"
    BY <2>1 DEF Unsigned, Operand
  <2>3. Fits(syn, v)
    BY <1>6, <2>2, Powers DEF Fits
  <2> QED
    BY <2>1, <2>3
<1>7. ASSUME 0 <= v, v < 2048 PROVE Fits(Unsigned(11), v)
  <2>1. PICK syn : syn = Unsigned(11)
    OBVIOUS
  <2>2. syn.bits = 11 /\ syn.kind # "s"
    BY <2>1 DEF Unsigned, Operand
  <2>3. Fits(syn, v)
    BY <1>7, <2>2, Powers DEF Fits
  <2> QED
    BY <2>1, <2>3
<1>8. ASSUME 0 <= v, v < 32 PROVE Fits(Signed(5), SgnExtend(v, 5)) /\ SgnExtend(v, 5) \in Int
  <2>1. PICK syn : syn = Signed(5)
    OBVIOUS
  <2>2. syn.bits = 5 /\ syn.kind = "s"
    BY <2>1 DEF Signed, Operand
  <2>3. PICK x : x = SgnExtend(v, 5)
    OBVIOUS
  <2>4. x = IF v >= 16 THEN v - 32 ELSE v
    BY <2>3, Powers, HalfPowers DEF SgnExtend
  <2>5. x \in Int /\ -16 <= x /\ x < 16
    BY <1>8, <2>4
  <2>6. Fits(syn, x)
    BY <2>2, <2>5, HalfPowers DEF Fits
  <2> QED
    BY <2>1, <2>3, <2>5, <2>6
<1>9. ASSUME 0 <= v, v < 256 PROVE Fits(Signed(8), SgnExtend(v, 8)) /\ SgnExtend(v, 8) \in Int
  <2>1. PICK syn : syn = Signed(8)
    OBVIOUS
  <2>2. syn.bits = 8 /\ syn.kind = "s"
    BY <2>1 DEF Signed, Operand
  <2>3. PICK x : x = SgnExtend(v, 8)
    OBVIOUS
  <2>4. x = IF v >= 128 THEN v - 256 ELSE v
    BY <2>3, Powers, HalfPowers DEF SgnExtend
  <2>5. x \in Int /\ -128 <= x /\ x < 128
    BY <1>9, <2>4
  <2>6. Fits(syn, x)
    BY <2>2, <2>5, HalfPowers DEF Fits
  <2> QED
    BY <2>1, <2>3, <2>5, <2>6
<1>10. ASSUME 0 <= v, v < 2048 PROVE Fits(Signed(11), SgnExtend(v, 11)) /\ SgnExtend(v, 11) \in Int
  <2>1. PICK syn : syn = Signed(11)
    OBVIOUS
  <2>2. syn.bits = 11 /\ syn.kind = "s"
    BY <2>1 DEF Signed, Operand
  <2>3. PICK x : x = SgnExtend(v, 11)
    OBVIOUS
  <2>4. x = IF v >= 1024 THEN v - 2048 ELSE v
    BY <2>3, Powers, HalfPowers DEF SgnExtend
  <2>5. x \in Int /\ -1024 <= x /\ x < 1024
    BY <1>10, <2>4
  <2>6. Fits(syn, x)
    BY <2>2, <2>5, HalfPowers DEF Fits
  <2> QED
    BY <2>1, <2>3, <2>5, <2>6
<1> QED
  BY <1>1, <1>2, <1>3, <1>4, <1>5, <1>6, <1>7, <1>8, <1>9, <1>10

\* decode_instruction and resolve_nmemonic know every word, and what they make of its
\* operands is in the range of the row.
WordDecodes(w) ==
    LET d == decode_instruction(w)
    IN  \E row \in instr_table :
          /\ d.opcode = row.opcode
          /\ row.has_subcode => d.subcode = row.subcode
          /\ \A k \in DOMAIN row.syntax : d.fields[k] \in Int /\ Fits(row.syntax[k], d.fields[k])

\* Every word is an instruction to the decoder: its codes are those of a row of the table,
\* and each field is a value the operand of that row can have (decode_instruction).
THEOREM EveryWordDecodes ==
    ASSUME NEW w \in Int
    PROVE  WordDecodes(w)
<1>1. PICK o \in 0 .. 31 : o = Bits(w, 11, 5)
  BY BitsIn
<1>2. PICK s \in 0 .. 3 : s = Bits(w, 0, 2)
  BY BitsIn
<1>3. PICK row \in instr_table : row.opcode = o /\ (row.has_subcode => row.subcode = s)
  BY <1>1, <1>2, CodesCovered
<1>4. WellPlaced(row)
  BY RowsPlaced
<1>5. Layout(o, row.format, row.syntax)
  BY <1>3, <1>4 DEF WellPlaced
<1>6. IF o < 4 THEN row.has_subcode = TRUE ELSE row.has_subcode = FALSE
  BY <1>3, <1>4 DEF WellPlaced
<1> DEFINE d == decode_instruction(w)
<1>7. CASE o \in 0 .. 2
  <2>1. row.syntax = <<Reg, Reg, Reg>>
    BY <1>5, <1>7, Zenon DEF Layout
  <2>2. row.has_subcode = TRUE
    BY <1>6, <1>7
  <2>3. d = [opcode |-> o, subcode |-> s,
            fields |-> <<Bits(w, 8, 3), Bits(w, 5, 3), Bits(w, 2, 3)>>]
    BY <1>1, <1>2, <1>7 DEF decode_instruction
  <2>4. d.fields[1] \in Int /\ Fits(row.syntax[1], d.fields[1])
    <3>1. d.fields[1] = Bits(w, 8, 3) /\ row.syntax[1] = Reg
      BY <2>1, <2>3
    <3>2. Bits(w, 8, 3) \in Int /\ Bits(w, 8, 3) \in 0 .. 7
      BY BitsIn
    <3> QED
      BY <3>1, <3>2, FieldFits
  <2>5. d.fields[2] \in Int /\ Fits(row.syntax[2], d.fields[2])
    <3>1. d.fields[2] = Bits(w, 5, 3) /\ row.syntax[2] = Reg
      BY <2>1, <2>3
    <3>2. Bits(w, 5, 3) \in Int /\ Bits(w, 5, 3) \in 0 .. 7
      BY BitsIn
    <3> QED
      BY <3>1, <3>2, FieldFits
  <2>6. d.fields[3] \in Int /\ Fits(row.syntax[3], d.fields[3])
    <3>1. d.fields[3] = Bits(w, 2, 3) /\ row.syntax[3] = Reg
      BY <2>1, <2>3
    <3>2. Bits(w, 2, 3) \in Int /\ Bits(w, 2, 3) \in 0 .. 7
      BY BitsIn
    <3> QED
      BY <3>1, <3>2, FieldFits
  <2>7. DOMAIN row.syntax = {1, 2, 3}
    BY <2>1
  <2>8. d.opcode = row.opcode /\ (row.has_subcode => d.subcode = row.subcode)
    BY <1>3, <2>2, <2>3
  <2> HIDE DEF d
  <2> QED
    BY <2>2, <2>7, <2>8, <2>4, <2>5, <2>6 DEF WordDecodes, d
<1>8. CASE o = 3
  <2>1. row.syntax = <<Reg, Unsigned(4)>>
    BY <1>5, <1>8, Zenon DEF Layout
  <2>2. row.has_subcode = TRUE
    BY <1>6, <1>8
  <2>3. d = [opcode |-> o, subcode |-> s,
            fields |-> <<Bits(w, 8, 3), Bits(w, 2, 4), 0>>]
    BY <1>1, <1>2, <1>8 DEF decode_instruction
  <2>4. d.fields[1] \in Int /\ Fits(row.syntax[1], d.fields[1])
    <3>1. d.fields[1] = Bits(w, 8, 3) /\ row.syntax[1] = Reg
      BY <2>1, <2>3
    <3>2. Bits(w, 8, 3) \in Int /\ Bits(w, 8, 3) \in 0 .. 7
      BY BitsIn
    <3> QED
      BY <3>1, <3>2, FieldFits
  <2>5. d.fields[2] \in Int /\ Fits(row.syntax[2], d.fields[2])
    <3>1. d.fields[2] = Bits(w, 2, 4) /\ row.syntax[2] = Unsigned(4)
      BY <2>1, <2>3
    <3>2. Bits(w, 2, 4) \in Int /\ Bits(w, 2, 4) \in 0 .. 15
      BY BitsIn
    <3> QED
      BY <3>1, <3>2, FieldFits
  <2>6. DOMAIN row.syntax = {1, 2}
    BY <2>1
  <2>7. d.opcode = row.opcode /\ (row.has_subcode => d.subcode = row.subcode)
    BY <1>3, <2>2, <2>3
  <2> HIDE DEF d
  <2> QED
    BY <2>2, <2>6, <2>7, <2>4, <2>5 DEF WordDecodes, d
<1>9. CASE o \in 4 .. 13
  <2>1. row.syntax = <<Reg, Unsigned(8)>>
    BY <1>5, <1>9, Zenon DEF Layout
  <2>2. row.has_subcode = FALSE
    BY <1>6, <1>9
  <2>3. d = [opcode |-> o, subcode |-> 0,
            fields |-> <<Bits(w, 8, 3), Bits(w, 0, 8), 0>>]
    BY <1>1, <1>2, <1>9 DEF decode_instruction
  <2>4. d.fields[1] \in Int /\ Fits(row.syntax[1], d.fields[1])
    <3>1. d.fields[1] = Bits(w, 8, 3) /\ row.syntax[1] = Reg
      BY <2>1, <2>3
    <3>2. Bits(w, 8, 3) \in Int /\ Bits(w, 8, 3) \in 0 .. 7
      BY BitsIn
    <3> QED
      BY <3>1, <3>2, FieldFits
  <2>5. d.fields[2] \in Int /\ Fits(row.syntax[2], d.fields[2])
    <3>1. d.fields[2] = Bits(w, 0, 8) /\ row.syntax[2] = Unsigned(8)
      BY <2>1, <2>3
    <3>2. Bits(w, 0, 8) \in Int /\ Bits(w, 0, 8) \in 0 .. 255
      BY BitsIn
    <3> QED
      BY <3>1, <3>2, FieldFits
  <2>6. DOMAIN row.syntax = {1, 2}
    BY <2>1
  <2>7. d.opcode = row.opcode /\ (row.has_subcode => d.subcode = row.subcode)
    BY <1>3, <2>2, <2>3
  <2> HIDE DEF d
  <2> QED
    BY <2>2, <2>6, <2>7, <2>4, <2>5 DEF WordDecodes, d
<1>10. CASE o \in {14, 29}
  <2>1. row.syntax = <<>>
    BY <1>5, <1>10, Zenon DEF Layout
  <2>2. row.has_subcode = FALSE
    BY <1>6, <1>10
  <2>3. d = [opcode |-> o, subcode |-> 0,
            fields |-> <<0, 0, 0>>]
    BY <1>1, <1>2, <1>10 DEF decode_instruction
  <2>4. DOMAIN row.syntax = {}
    BY <2>1
  <2>5. d.opcode = row.opcode /\ (row.has_subcode => d.subcode = row.subcode)
    BY <1>3, <2>2, <2>3
  <2> HIDE DEF d
  <2> QED
    BY <2>2, <2>4, <2>5 DEF WordDecodes, d
<1>11. CASE o \in {15, 16}
  <2>1. row.syntax = <<Signed(11)>>
    BY <1>5, <1>11, Zenon DEF Layout
  <2>2. row.has_subcode = FALSE
    BY <1>6, <1>11
  <2>3. d = [opcode |-> o, subcode |-> 0,
            fields |-> <<SgnExtend(Bits(w, 0, 11), 11), 0, 0>>]
    BY <1>1, <1>2, <1>11 DEF decode_instruction
  <2>4. d.fields[1] \in Int /\ Fits(row.syntax[1], d.fields[1])
    <3>1. d.fields[1] = SgnExtend(Bits(w, 0, 11), 11) /\ row.syntax[1] = Signed(11)
      BY <2>1, <2>3
    <3>2. Bits(w, 0, 11) \in Int /\ 0 <= Bits(w, 0, 11) /\ Bits(w, 0, 11) < 2048
      BY BitsIn, Below2048
    <3> QED
      BY <3>1, <3>2, FieldFits
  <2>5. DOMAIN row.syntax = {1}
    BY <2>1
  <2>6. d.opcode = row.opcode /\ (row.has_subcode => d.subcode = row.subcode)
    BY <1>3, <2>2, <2>3
  <2> HIDE DEF d
  <2> QED
    BY <2>2, <2>5, <2>6, <2>4 DEF WordDecodes, d
<1>12. CASE o \in 17 .. 20
  <2>1. row.syntax = <<Reg, Signed(8)>>
    BY <1>5, <1>12, Zenon DEF Layout
  <2>2. row.has_subcode = FALSE
    BY <1>6, <1>12
  <2>3. d = [opcode |-> o, subcode |-> 0,
            fields |-> <<Bits(w, 8, 3), SgnExtend(Bits(w, 0, 8), 8), 0>>]
    BY <1>1, <1>2, <1>12 DEF decode_instruction
  <2>4. d.fields[1] \in Int /\ Fits(row.syntax[1], d.fields[1])
    <3>1. d.fields[1] = Bits(w, 8, 3) /\ row.syntax[1] = Reg
      BY <2>1, <2>3
    <3>2. Bits(w, 8, 3) \in Int /\ Bits(w, 8, 3) \in 0 .. 7
      BY BitsIn
    <3> QED
      BY <3>1, <3>2, FieldFits
  <2>5. d.fields[2] \in Int /\ Fits(row.syntax[2], d.fields[2])
    <3>1. d.fields[2] = SgnExtend(Bits(w, 0, 8), 8) /\ row.syntax[2] = Signed(8)
      BY <2>1, <2>3
    <3>2. Bits(w, 0, 8) \in Int /\ Bits(w, 0, 8) \in 0 .. 255
      BY BitsIn
    <3> QED
      BY <3>1, <3>2, FieldFits
  <2>6. DOMAIN row.syntax = {1, 2}
    BY <2>1
  <2>7. d.opcode = row.opcode /\ (row.has_subcode => d.subcode = row.subcode)
    BY <1>3, <2>2, <2>3
  <2> HIDE DEF d
  <2> QED
    BY <2>2, <2>6, <2>7, <2>4, <2>5 DEF WordDecodes, d
<1>13. CASE o \in 21 .. 24
  <2>1. row.syntax = <<Reg, Reg, Signed(5)>>
    BY <1>5, <1>13, Zenon DEF Layout
  <2>2. row.has_subcode = FALSE
    BY <1>6, <1>13
  <2>3. d = [opcode |-> o, subcode |-> 0,
            fields |-> <<Bits(w, 8, 3), Bits(w, 5, 3), SgnExtend(Bits(w, 0, 5), 5)>>]
    BY <1>1, <1>2, <1>13 DEF decode_instruction
  <2>4. d.fields[1] \in Int /\ Fits(row.syntax[1], d.fields[1])
    <3>1. d.fields[1] = Bits(w, 8, 3) /\ row.syntax[1] = Reg
      BY <2>1, <2>3
    <3>2. Bits(w, 8, 3) \in Int /\ Bits(w, 8, 3) \in 0 .. 7
      BY BitsIn
    <3> QED
      BY <3>1, <3>2, FieldFits
  <2>5. d.fields[2] \in Int /\ Fits(row.syntax[2], d.fields[2])
    <3>1. d.fields[2] = Bits(w, 5, 3) /\ row.syntax[2] = Reg
      BY <2>1, <2>3
    <3>2. Bits(w, 5, 3) \in Int /\ Bits(w, 5, 3) \in 0 .. 7
      BY BitsIn
    <3> QED
      BY <3>1, <3>2, FieldFits
  <2>6. d.fields[3] \in Int /\ Fits(row.syntax[3], d.fields[3])
    <3>1. d.fields[3] = SgnExtend(Bits(w, 0, 5), 5) /\ row.syntax[3] = Signed(5)
      BY <2>1, <2>3
    <3>2. Bits(w, 0, 5) \in Int /\ Bits(w, 0, 5) \in 0 .. 31
      BY BitsIn
    <3> QED
      BY <3>1, <3>2, FieldFits
  <2>7. DOMAIN row.syntax = {1, 2, 3}
    BY <2>1
  <2>8. d.opcode = row.opcode /\ (row.has_subcode => d.subcode = row.subcode)
    BY <1>3, <2>2, <2>3
  <2> HIDE DEF d
  <2> QED
    BY <2>2, <2>7, <2>8, <2>4, <2>5, <2>6 DEF WordDecodes, d
<1>14. CASE o \in {25, 26}
  <2>1. row.syntax = <<Reg, Cop, CopReg>>
    BY <1>5, <1>14, Zenon DEF Layout
  <2>2. row.has_subcode = FALSE
    BY <1>6, <1>14
  <2>3. d = [opcode |-> o, subcode |-> 0,
            fields |-> <<Bits(w, 8, 3), Bits(w, 5, 3), Bits(w, 0, 5)>>]
    BY <1>1, <1>2, <1>14 DEF decode_instruction
  <2>4. d.fields[1] \in Int /\ Fits(row.syntax[1], d.fields[1])
    <3>1. d.fields[1] = Bits(w, 8, 3) /\ row.syntax[1] = Reg
      BY <2>1, <2>3
    <3>2. Bits(w, 8, 3) \in Int /\ Bits(w, 8, 3) \in 0 .. 7
      BY BitsIn
    <3> QED
      BY <3>1, <3>2, FieldFits
  <2>5. d.fields[2] \in Int /\ Fits(row.syntax[2], d.fields[2])
    <3>1. d.fields[2] = Bits(w, 5, 3) /\ row.syntax[2] = Cop
      BY <2>1, <2>3
    <3>2. Bits(w, 5, 3) \in Int /\ Bits(w, 5, 3) \in 0 .. 7
      BY BitsIn
    <3> QED
      BY <3>1, <3>2, FieldFits
  <2>6. d.fields[3] \in Int /\ Fits(row.syntax[3], d.fields[3])
    <3>1. d.fields[3] = Bits(w, 0, 5) /\ row.syntax[3] = CopReg
      BY <2>1, <2>3
    <3>2. Bits(w, 0, 5) \in Int /\ Bits(w, 0, 5) \in 0 .. 31
      BY BitsIn
    <3> QED
      BY <3>1, <3>2, FieldFits
  <2>7. DOMAIN row.syntax = {1, 2, 3}
    BY <2>1
  <2>8. d.opcode = row.opcode /\ (row.has_subcode => d.subcode = row.subcode)
    BY <1>3, <2>2, <2>3
  <2> HIDE DEF d
  <2> QED
    BY <2>2, <2>7, <2>8, <2>4, <2>5, <2>6 DEF WordDecodes, d
<1>15. CASE o = 27
  <2>1. row.syntax = <<Reg, Cop>>
    BY <1>5, <1>15, Zenon DEF Layout
  <2>2. row.has_subcode = FALSE
    BY <1>6, <1>15
  <2>3. d = [opcode |-> o, subcode |-> 0,
            fields |-> <<Bits(w, 8, 3), Bits(w, 5, 3), 0>>]
    BY <1>1, <1>2, <1>15 DEF decode_instruction
  <2>4. d.fields[1] \in Int /\ Fits(row.syntax[1], d.fields[1])
    <3>1. d.fields[1] = Bits(w, 8, 3) /\ row.syntax[1] = Reg
      BY <2>1, <2>3
    <3>2. Bits(w, 8, 3) \in Int /\ Bits(w, 8, 3) \in 0 .. 7
      BY BitsIn
    <3> QED
      BY <3>1, <3>2, FieldFits
  <2>5. d.fields[2] \in Int /\ Fits(row.syntax[2], d.fields[2])
    <3>1. d.fields[2] = Bits(w, 5, 3) /\ row.syntax[2] = Cop
      BY <2>1, <2>3
    <3>2. Bits(w, 5, 3) \in Int /\ Bits(w, 5, 3) \in 0 .. 7
      BY BitsIn
    <3> QED
      BY <3>1, <3>2, FieldFits
  <2>6. DOMAIN row.syntax = {1, 2}
    BY <2>1
  <2>7. d.opcode = row.opcode /\ (row.has_subcode => d.subcode = row.subcode)
    BY <1>3, <2>2, <2>3
  <2> HIDE DEF d
  <2> QED
    BY <2>2, <2>6, <2>7, <2>4, <2>5 DEF WordDecodes, d
<1>16. CASE o = 28
  <2>1. row.syntax = <<Unsigned(11)>>
    BY <1>5, <1>16, Zenon DEF Layout
  <2>2. row.has_subcode = FALSE
    BY <1>6, <1>16
  <2>3. d = [opcode |-> o, subcode |-> 0,
            fields |-> <<Bits(w, 0, 11), 0, 0>>]
    BY <1>1, <1>2, <1>16 DEF decode_instruction
  <2>4. d.fields[1] \in Int /\ Fits(row.syntax[1], d.fields[1])
    <3>1. d.fields[1] = Bits(w, 0, 11) /\ row.syntax[1] = Unsigned(11)
      BY <2>1, <2>3
    <3>2. Bits(w, 0, 11) \in Int /\ 0 <= Bits(w, 0, 11) /\ Bits(w, 0, 11) < 2048
      BY BitsIn, Below2048
    <3> QED
      BY <3>1, <3>2, FieldFits
  <2>5. DOMAIN row.syntax = {1}
    BY <2>1
  <2>6. d.opcode = row.opcode /\ (row.has_subcode => d.subcode = row.subcode)
    BY <1>3, <2>2, <2>3
  <2> HIDE DEF d
  <2> QED
    BY <2>2, <2>5, <2>6, <2>4 DEF WordDecodes, d
<1>17. CASE o \in {30, 31}
  <2>1. row.syntax = <<Reg, Ctl>>
    BY <1>5, <1>17, Zenon DEF Layout
  <2>2. row.has_subcode = FALSE
    BY <1>6, <1>17
  <2>3. d = [opcode |-> o, subcode |-> 0,
            fields |-> <<Bits(w, 8, 3), Bits(w, 0, 5), 0>>]
    BY <1>1, <1>2, <1>17 DEF decode_instruction
  <2>4. d.fields[1] \in Int /\ Fits(row.syntax[1], d.fields[1])
    <3>1. d.fields[1] = Bits(w, 8, 3) /\ row.syntax[1] = Reg
      BY <2>1, <2>3
    <3>2. Bits(w, 8, 3) \in Int /\ Bits(w, 8, 3) \in 0 .. 7
      BY BitsIn
    <3> QED
      BY <3>1, <3>2, FieldFits
  <2>5. d.fields[2] \in Int /\ Fits(row.syntax[2], d.fields[2])
    <3>1. d.fields[2] = Bits(w, 0, 5) /\ row.syntax[2] = Ctl
      BY <2>1, <2>3
    <3>2. Bits(w, 0, 5) \in Int /\ Bits(w, 0, 5) \in 0 .. 31
      BY BitsIn
    <3> QED
      BY <3>1, <3>2, FieldFits
  <2>6. DOMAIN row.syntax = {1, 2}
    BY <2>1
  <2>7. d.opcode = row.opcode /\ (row.has_subcode => d.subcode = row.subcode)
    BY <1>3, <2>2, <2>3
  <2> HIDE DEF d
  <2> QED
    BY <2>2, <2>6, <2>7, <2>4, <2>5 DEF WordDecodes, d
<1> QED
  BY <1>7, <1>8, <1>9, <1>10, <1>11, <1>12, <1>13, <1>14, <1>15, <1>16, <1>17

---------------------------------------------------------------------------
(* What the assembler and the disassembler rely on.                        *)

\* The decoder reads the operation of an assembled word, and of each operand what its width
\* leaves of it (assemble_instruction, decode_instruction, resolve_nmemonic).
THEOREM Assembled ==
    ASSUME NEW op \in Nmemonics, NEW values,
           \A k \in DOMAIN RowOf(op).syntax : values[k] \in Int,
           NEW word, word = assemble_instruction(op, values)
    PROVE  LET d == decode_instruction(word)
               syntax == RowOf(op).syntax
           IN  /\ word \in Word
               /\ resolve_nmemonic(d.opcode, d.subcode) = op
               /\ \A k \in DOMAIN syntax :
                     d.fields[k] = Operated(syntax[k], values[k] % 2^syntax[k].bits)
<1>1. PICK row \in instr_table : row = RowOf(op) /\ row.nmemonic = op
  BY RowOfNmemonic
<1>2. DecodesAs(row, values)
  BY <1>1, AssembledIsDecoded
<1>3. word = Encoded(row, values)
  BY <1>1, Assembles
<1> DEFINE d == decode_instruction(word)
<1>4. /\ word \in Word
      /\ d.opcode = row.opcode
      /\ row.has_subcode => d.subcode = row.subcode
      /\ \A k \in DOMAIN row.syntax :
            d.fields[k] = Operated(row.syntax[k], values[k] % 2^row.syntax[k].bits)
  BY <1>2, <1>3 DEF DecodesAs, Part
<1> HIDE DEF d
<1>5. resolve_nmemonic(d.opcode, d.subcode) = op
  BY <1>1, <1>4, Resolves
<1> QED
  BY <1>1, <1>4, <1>5 DEF d

\* Operands in range come back as they were (assemble_instruction, decode_instruction).
THEOREM OperandsComeBack ==
    ASSUME NEW op \in Nmemonics, NEW values,
           \A k \in DOMAIN RowOf(op).syntax : values[k] \in Int /\ Fits(RowOf(op).syntax[k], values[k]),
           NEW word, word = assemble_instruction(op, values)
    PROVE  LET d == decode_instruction(word)
           IN  /\ resolve_nmemonic(d.opcode, d.subcode) = op
               /\ \A k \in DOMAIN RowOf(op).syntax : d.fields[k] = values[k]
<1>1. PICK d : d = decode_instruction(word)
  OBVIOUS
<1>2. PICK syntax : syntax = RowOf(op).syntax
  OBVIOUS
<1>3. /\ resolve_nmemonic(d.opcode, d.subcode) = op
      /\ \A k \in DOMAIN syntax : d.fields[k] = Operated(syntax[k], values[k] % 2^syntax[k].bits)
  BY <1>1, <1>2, Assembled
<1>4. \A k \in DOMAIN syntax : syntax[k] \in Syntaxes
  BY <1>2, RowOfNmemonic, SyntaxOfRow
<1>5. \A k \in DOMAIN syntax : Operated(syntax[k], values[k] % 2^syntax[k].bits) = values[k]
  BY <1>2, <1>4, OperandKept
<1> QED
  BY <1>1, <1>2, <1>3, <1>5

\* A word that is assembled from what another was decoded to decodes the same, whatever the
\* other had in the bits of no field (decode_instruction, assemble_instruction).
THEOREM Reassembled ==
    ASSUME NEW w \in Int, NEW values, NEW op,
           op = resolve_nmemonic(decode_instruction(w).opcode, decode_instruction(w).subcode),
           \A k \in DOMAIN RowOf(op).syntax : values[k] = decode_instruction(w).fields[k],
           NEW word, word = assemble_instruction(op, values)
    PROVE  LET d == decode_instruction(word)
               syntax == RowOf(op).syntax
           IN  /\ op \in Nmemonics
               /\ \A k \in DOMAIN syntax :
                     values[k] \in Int /\ syntax[k] \in Syntaxes /\ Fits(syntax[k], values[k])
               /\ word \in Word
               /\ resolve_nmemonic(d.opcode, d.subcode) = op
               /\ \A k \in DOMAIN syntax : d.fields[k] = decode_instruction(w).fields[k]
<1> DEFINE e == decode_instruction(w)
<1>1. PICK row \in instr_table :
        /\ e.opcode = row.opcode
        /\ row.has_subcode => e.subcode = row.subcode
        /\ \A k \in DOMAIN row.syntax : e.fields[k] \in Int /\ Fits(row.syntax[k], e.fields[k])
  BY EveryWordDecodes DEF WordDecodes
<1> HIDE DEF e
<1>2. op = row.nmemonic
  <2>1. op = resolve_nmemonic(row.opcode, e.subcode)
    BY <1>1 DEF e
  <2> QED
    BY <1>1, <2>1, Resolves
<1>3. row = RowOf(op) /\ op \in Nmemonics
  BY <1>2, RowOfName
<1>4. \A k \in DOMAIN row.syntax :
         values[k] = e.fields[k] /\ values[k] \in Int /\ row.syntax[k] \in Syntaxes
            /\ Fits(row.syntax[k], values[k])
  BY <1>1, <1>3, SyntaxOfRow DEF e
<1> DEFINE d == decode_instruction(word)
<1>5. /\ word \in Word
      /\ resolve_nmemonic(d.opcode, d.subcode) = op
      /\ \A k \in DOMAIN row.syntax :
            d.fields[k] = Operated(row.syntax[k], values[k] % 2^row.syntax[k].bits)
  BY <1>3, <1>4, Assembled
<1> HIDE DEF d
<1>6. ASSUME NEW k \in DOMAIN row.syntax PROVE d.fields[k] = e.fields[k]
  <2>1. Operated(row.syntax[k], values[k] % 2^row.syntax[k].bits) = values[k]
    BY <1>4, OperandKept
  <2> QED
    BY <1>4, <1>5, <2>1
<1> QED
  BY <1>3, <1>4, <1>5, <1>6 DEF d, e
================================================================================
