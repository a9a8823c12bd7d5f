----------------------------- MODULE Instructions -----------------------------
(***************************************************************************)
(* The instruction table (instr_table.c) and the two directions of the     *)
(* codec that reads it (instructions.c): assemble_instruction lays the     *)
(* fields of a row out from its format, decode_instruction takes a word    *)
(* apart by a switch of its own over the opcodes.                          *)
(***************************************************************************)
EXTENDS Integers, Sequences, Folds, SequencesExt

Word == 0 .. 2^16 - 1

---------------------------------------------------------------------------
(* The table.  A format is the widths of the fields, blanks included; a    *)
(* syntax is what the assembler wants of each operand.                     *)

Field(n) == [blank |-> FALSE, bits |-> n]
Blank(n) == [blank |-> TRUE, bits |-> n]

\* `kind` is the letter of the operand, `bits` the width its range comes to.
Operand(kind, bits) == [kind |-> kind, bits |-> bits]
Reg == Operand("r", 3)
Cop == Operand("c", 3)
Ctl == Operand("q", 5)
CopReg == Operand("x", 5)
Signed(n) == Operand("s", n)
Unsigned(n) == Operand("u", n)

Row(name, opcode, subcode, has_subcode, format, syntax) ==
    [nmemonic |-> name, opcode |-> opcode, subcode |-> subcode, has_subcode |-> has_subcode,
     format |-> format, syntax |-> syntax]

\* Four instructions of one opcode, and instructions of consecutive opcodes.
Family(names, opcode, format, syntax) ==
    {Row(names[n], opcode, n - 1, TRUE, format, syntax) : n \in DOMAIN names}
Plain(names, opcode, format, syntax) ==
    {Row(names[n], opcode + n - 1, 0, FALSE, format, syntax) : n \in DOMAIN names}

Three == <<Field(3), Field(3), Field(3)>>

instr_table ==
    UNION {
      Family(<<"or", "nand", "and", "xor">>, 0, Three, <<Reg, Reg, Reg>>),
      Family(<<"add", "sub", "addc", "subc">>, 1, Three, <<Reg, Reg, Reg>>),
      Family(<<"shl", "shr", "shra", "rot">>, 2, Three, <<Reg, Reg, Reg>>),
      Family(<<"shli", "shri", "shrai", "roti">>, 3, <<Field(3), Blank(2), Field(4)>>, <<Reg, Unsigned(4)>>),
      Plain(<<"li", "shlli", "inci", "deci", "ori", "andi", "xori", "orih", "andih", "xorih">>, 4,
            <<Field(3), Field(8)>>, <<Reg, Unsigned(8)>>),
      Plain(<<"sleep">>, 14, <<Blank(11)>>, <<>>),
      Plain(<<"ba", "bal">>, 15, <<Field(11)>>, <<Signed(11)>>),
      Plain(<<"bz", "bnz", "jr", "jlr">>, 17, <<Field(3), Field(8)>>, <<Reg, Signed(8)>>),
      Plain(<<"ll", "ldw", "stw", "sc">>, 21, <<Field(3), Field(3), Field(5)>>, <<Reg, Reg, Signed(5)>>),
      Plain(<<"mfcp", "mtcp">>, 25, <<Field(3), Field(3), Field(5)>>, <<Reg, Cop, CopReg>>),
      Plain(<<"cpop">>, 27, <<Field(3), Field(3), Blank(5)>>, <<Reg, Cop>>),
      Plain(<<"int">>, 28, <<Field(11)>>, <<Unsigned(11)>>),
      Plain(<<"rfi">>, 29, <<Blank(11)>>, <<>>),
      Plain(<<"mfctl", "mtctl">>, 30, <<Field(3), Blank(3), Field(5)>>, <<Reg, Ctl>>)}

Nmemonics == {row.nmemonic : row \in instr_table}

RowOf(nmemonic) == CHOOSE row \in instr_table : row.nmemonic = nmemonic

---------------------------------------------------------------------------
(* assemble_instruction                                                    *)

\* One field: its value, or zeroes for a blank one, goes in at the right.
ShiftIn(acc, field, values) ==
    [word |-> acc.word * 2^field.bits
              + (IF field.blank THEN 0 ELSE values[acc.next] % 2^field.bits),
     next |-> IF field.blank THEN acc.next ELSE acc.next + 1]

\* The subcode before the fields, not after them.
BugSubcodeFirst(nmemonic, values) ==
    LET row == RowOf(nmemonic)
        first == IF row.has_subcode THEN row.opcode * 4 + row.subcode ELSE row.opcode
    IN  FoldLeft(LAMBDA acc, field : ShiftIn(acc, field, values),
                 [word |-> first, next |-> 1], row.format).word

assemble_instruction(nmemonic, values) ==
    LET row == RowOf(nmemonic)
        fields == FoldLeft(LAMBDA acc, field : ShiftIn(acc, field, values),
                           [word |-> row.opcode, next |-> 1], row.format)
    IN  IF row.has_subcode THEN fields.word * 4 + row.subcode ELSE fields.word

---------------------------------------------------------------------------
(* decode_instruction and resolve_nmemonic                                 *)

Bits(word, start, n) == (word \div 2^start) % 2^n

\* A field that is taken for unsigned.
BugZeroExtend(v, n) == v

SgnExtend(v, n) == IF v >= 2^(n - 1) THEN v - 2^n ELSE v

\* The fields of a word, three of them, and its subcode.
decode_instruction(word) ==
    LET opcode == Bits(word, 11, 5)
        a == Bits(word, 8, 3)
        b == Bits(word, 5, 3)
        Fields(v1, v2, v3) == [opcode |-> opcode, subcode |-> 0, fields |-> <<v1, v2, v3>>]
        WithSubcode(d) == [d EXCEPT !.subcode = Bits(word, 0, 2)]
    IN  CASE opcode \in 0 .. 2    -> WithSubcode(Fields(a, b, Bits(word, 2, 3)))
          [] opcode = 3           -> WithSubcode(Fields(a, Bits(word, 2, 4), 0))
          [] opcode \in 4 .. 13   -> Fields(a, Bits(word, 0, 8), 0)
          [] opcode \in {14, 29}  -> Fields(0, 0, 0)
          [] opcode \in {15, 16}  -> Fields(SgnExtend(Bits(word, 0, 11), 11), 0, 0)
          [] opcode \in 17 .. 20  -> Fields(a, SgnExtend(Bits(word, 0, 8), 8), 0)
          [] opcode \in 21 .. 24  -> Fields(a, b, SgnExtend(Bits(word, 0, 5), 5))
          [] opcode \in {25, 26}  -> Fields(a, b, Bits(word, 0, 5))
          [] opcode = 27          -> Fields(a, b, 0)
          [] opcode = 28          -> Fields(Bits(word, 0, 11), 0, 0)
          [] opcode \in {30, 31}  -> Fields(a, Bits(word, 0, 5), 0)

\* The search goes on from the first row of the opcode; the rows of one opcode are
\* together and have every subcode.
resolve_nmemonic(opcode, subcode) ==
    (CHOOSE row \in instr_table :
        row.opcode = opcode /\ (row.has_subcode => row.subcode = subcode)).nmemonic
=============================================================================
