------------------------------- MODULE AsmProps -------------------------------
(***************************************************************************)
(* What the assembler is checked for.                                      *)
(***************************************************************************)
EXTENDS Asm

\* The array of generate_opcodes is left at one end only, and by one fault of the source
\* (the test of offset_max is the only one there is): no word is written at or past its
\* end, however .org and the lines move the location counter, and one is written before
\* its start only under an .org whose address is negative as an int, -1 or 0xFFFFFFFF say,
\* and is the last before the word.
OutbufBounded ==
    pass = "wild" =>
        /\ offset < 0
        /\ \E n \in 1 .. cursor - 1 :
              /\ source[n].op = ".org" /\ AsInt(source[n].args[1].num) < 0
              /\ \A m \in n + 1 .. cursor - 1 : source[m].op # ".org"

\* The lines that give a label its offset.
Defines(n, name) == source[n].label = name /\ source[n].op # ".org"
FirstDefinition(n, name) == Defines(n, name) /\ \A m \in 1 .. n - 1 : ~Defines(m, name)

\* The passes agree (generate_labels, generate_opcodes): when the second pass comes to
\* the line that defines a label, its location counter is where the first pass put it.
LabelsAgree ==
    \A n \in 1 .. Len(where) :
        \A name \in {source[n].label} \ {Null} :
            FirstDefinition(n, name) => find_offset(LabelRef("@", name, Null)) = where[n]

\* The word of a line is still in the image when no later line was put on top of it.
Survives(n) ==
    /\ source[n].op \in Nmemonics
    /\ \A m \in n + 1 .. Len(where) : source[m].op \in {Null, ".org"} \/ where[m] # where[n]

\* Branches land where they say (find_reloff, assemble_instruction, decode_instruction):
\* in a finished image the offset the decoder sees in a relative operand leads from the
\* word to the line the label stands on.
BranchesLand ==
    pass = "done" =>
        \A n \in 1 .. Len(where) : Survives(n) =>
            \A k \in DOMAIN RowOf(source[n].op).syntax :
                LET arg == source[n].args[k]
                    target == where[n] + decode_instruction(WordAt(where[n])).fields[k]
                IN  arg.kind = "%" /\ arg.part = Null =>
                        \E m \in 1 .. Len(where) :
                            FirstDefinition(m, arg.label) /\ where[m] = target

\* The image means what the source says (asm.c, instructions.c): the decoder finds in
\* every word the operation of its line and each operand that is a number or names a
\* label.  The number is what an int holds of the one written; a negative number, or a label
\* at a negative offset, is taken modulo the width of an unsigned operand.
Means(arg, syn, v) ==
    CASE arg.kind = "%" -> TRUE
      [] arg.kind = "@" ->
            \A m \in 1 .. Len(where) : FirstDefinition(m, arg.label) =>
                v = (CASE arg.part = "h" -> where[m] \div 256
                       [] arg.part = "l" -> where[m] % 256
                       [] OTHER -> where[m]) % 2^syn.bits
      [] OTHER -> v = IF syn.kind = "s" THEN AsInt(arg.num) ELSE AsInt(arg.num) % 2^syn.bits

ImageDecodes ==
    pass = "done" =>
        \A n \in 1 .. Len(where) : Survives(n) =>
            LET decoded == decode_instruction(WordAt(where[n]))
                syntax == RowOf(source[n].op).syntax
            IN  /\ resolve_nmemonic(decoded.opcode, decoded.subcode) = source[n].op
                /\ \A k \in DOMAIN syntax :
                      Means(source[n].args[k], syntax[k], decoded.fields[k])
===============================================================================
