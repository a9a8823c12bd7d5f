----------------------------- MODULE MCToolchain -----------------------------
(***************************************************************************)
(* Sources for TLC: short programs around labels and .org, one line for    *)
(* each instruction and each boundary of its operands, and words of data   *)
(* of every opcode for the disassembler.                                   *)
(***************************************************************************)
EXTENDS Toolchain

Org(o) == Line(Null, ".org", <<Number("0", o)>>)
Bz(label) == Line(Null, "bz", <<Number("r", 1), LabelRef("%", label, Null)>>)
Li(label, part) == Line(Null, "li", <<Number("r", 2), LabelRef("@", label, part)>>)
Inci == Line(Null, "inci", <<Number("r", 1), Number("#", 255)>>)
On(label, line) == [line EXCEPT !.label = label]

\* bz reaches 127 words up and 128 down; outbuf ends at 65535; the last two are negative
\* as an int.
Lines ==
    {Org(o) : o \in {0, 1, 127, 128, 129, 65534, 65535, 65536, -1, 2 * IntEnd - 2}}
        \cup {Line("L", Null, <<>>), Inci, On("L", Inci), On("M", Bz("L")), On("L", Org(2))}
        \cup {Bz("L"), Bz("M"), Li("L", "h"), Li("L", "l"), Li("L", Null)}
        \cup {Line("M", ".data", <<LabelRef("@", "L", Null)>>),
              Line(Null, ".data", <<LabelRef("%", "L", Null)>>),
              Line(Null, "bogus", <<>>)}

Programs == {<<a, b, d>> : a \in Lines, b \in Lines, d \in Lines}

\* Both ends of what an operand may be, and a step beyond; the numbers past the end of an
\* int are -1 and 0 in one.
Ends(syn) ==
    CASE syn.kind = "s" -> {-(2^(syn.bits - 1)) - 1, -(2^(syn.bits - 1)), -1, 0,
                            2^(syn.bits - 1) - 1, 2^(syn.bits - 1), 2 * IntEnd - 1, 2 * IntEnd}
      [] syn.kind = "u" -> {-1, 0, 1, 2^syn.bits - 1, 2^syn.bits, IntEnd, 2 * IntEnd}
      [] OTHER -> {0, 1, 2^syn.bits - 1, 2^syn.bits, 2 * IntEnd - 1}

Operands(syn) ==
    {Number(IF syn.kind \in {"s", "u"} THEN "#" ELSE syn.kind, v) : v \in Ends(syn)}
        \cup {Number("?", 0)}

OperandLists(syntax) ==
    CASE Len(syntax) = 0 -> {<<>>}
      [] Len(syntax) = 1 -> {<<a>> : a \in Operands(syntax[1])}
      [] Len(syntax) = 2 -> {<<a, b>> : a \in Operands(syntax[1]), b \in Operands(syntax[2])}
      [] Len(syntax) = 3 -> {<<a, b, d>> : a \in Operands(syntax[1]), b \in Operands(syntax[2]),
                                           d \in Operands(syntax[3])}

Singles ==
    UNION {{<<Line(Null, row.nmemonic, args)>> : args \in OperandLists(row.syntax)} :
              row \in instr_table}

\* Every opcode with every low byte, and with every first field, four words to an image.
Words(opcode, lows) ==
    [n \in 1 .. 4 |-> Line(Null, ".data", <<Number("#", 2048 * opcode + lows[n])>>)]

Data ==
    {Words(opcode, lows) :
        opcode \in 0 .. 31,
        lows \in {[n \in 1 .. 4 |-> 5 * 256 + 4 * b + n - 1] : b \in 0 .. 63}
            \cup {<<2^8 * f, 2^8 * f + 85, 2^8 * f + 170, 2^8 * f + 255>> : f \in 0 .. 7}}

MCSources == Programs \cup Singles \cup Data
==============================================================================
