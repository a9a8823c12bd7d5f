---------------------------------- MODULE Asm ----------------------------------
(***************************************************************************)
(* The assembler (asm.c): two passes over the split lines of a source.     *)
(* The first gives each label an offset, the second emits words.  A step   *)
(* is one turn of the loop of a pass.                                      *)
(*                                                                         *)
(* A line is a record of a label, an operation (Null where the line has    *)
(* none) and its operands.  An operand has the character it starts with    *)
(* and a number, or a label and the part of its offset that is asked for.  *)
(* Splitting text into lines is left out, so are lines that lack an        *)
(* operand their operation takes: the program follows a null pointer.      *)
(*                                                                         *)
(* Numbers are the longs strtol returns; what an int keeps of one is AsInt *)
(* of it.  A word written outside outbuf is undefined behaviour, and the   *)
(* model says nothing of what comes after: the pass is "wild".             *)
(***************************************************************************)
EXTENDS Instructions

CONSTANTS
    MAX_WORDS,      \* the length of outbuf
    IntEnd,         \* the least natural an int does not hold: 2^31 in the code
    Sources         \* the programs to assemble: sequences of lines

\* An int holds every word, and every offset in outbuf with the reach of a branch.
ASSUME AsmAssumption ==
    /\ MAX_WORDS \in Nat \ {0}
    /\ IntEnd \in Nat /\ MAX_WORDS + 1024 <= IntEnd /\ 65536 <= IntEnd

VARIABLES
    source,         \* the list of split lines
    pass,           \* "labels", "opcodes", "done", "failed" or "wild"
    cursor,         \* the line the pass is at
    offset,         \* the location counter of the pass
    offset_max,     \* the length of the image
    labels,         \* what the first pass collects, in the order of the lines
    outbuf,         \* the words written so far, by offset
    where           \* history: the location counter of pass 2 at each line it has left

asmVars == <<source, pass, cursor, offset, offset_max, labels, outbuf, where>>

Null == "null"

Number(kind, num) == [kind |-> kind, num |-> num]
LabelRef(kind, label, part) == [kind |-> kind, label |-> label, part |-> part]
Line(label, op, args) == [label |-> label, op |-> op, args |-> args]

\* Words nobody wrote are the zeroes of a static array.
WordAt(o) == IF o \in DOMAIN outbuf THEN outbuf[o] ELSE 0

\* A number stored in an int, or an int32_t.
AsInt(n) == ((n + IntEnd) % (2 * IntEnd)) - IntEnd

\* What the splitting of a text leaves of a line: an operand names a label or is a number,
\* that of .org is taken for a number.
OperandOK(arg) ==
    IF arg.kind \in {"%", "@"} THEN arg.label \in STRING \ {Null} ELSE arg.num \in Int

OperandsOK(line) ==
    /\ line.op = ".org" => line.args[1].num \in Int
    /\ line.op = ".data" => OperandOK(line.args[1])
    /\ line.op \in Nmemonics =>
          \A k \in DOMAIN RowOf(line.op).syntax : k \in DOMAIN line.args /\ OperandOK(line.args[k])

ASSUME SourcesAssumption ==
    \A lines \in Sources :
        /\ Len(lines) \in Nat
        /\ \A n \in 1 .. Len(lines) : lines[n].label \in STRING /\ OperandsOK(lines[n])

---------------------------------------------------------------------------
(* Pass 1: generate_labels.  Its unsigned offset is given as the int of the *)
(* same bits, which is what find_offset makes of it.                       *)

AtLine(p) == pass = p /\ cursor <= Len(source)
At == source[cursor]

NextLine == cursor' = cursor + 1

\* A label on a line of .org is passed over with it.
LabelsOrg ==
    /\ AtLine("labels")
    /\ At.op = ".org"
    /\ offset' = AsInt(At.args[1].num)
    /\ NextLine
    /\ UNCHANGED <<source, pass, offset_max, labels, outbuf, where>>

LabelsPlain ==
    /\ AtLine("labels")
    /\ At.label = Null /\ At.op \notin {Null, ".org"}
    /\ offset' = AsInt(offset + 1)
    /\ NextLine
    /\ UNCHANGED <<source, pass, offset_max, labels, outbuf, where>>

\* The line of the label is not counted.
BugLabelsAppend ==
    /\ AtLine("labels")
    /\ At.label # Null /\ At.op # ".org"
    /\ labels' = Append(labels, [name |-> At.label, offset |-> offset])
    /\ NextLine
    /\ UNCHANGED <<source, pass, offset, offset_max, outbuf, where>>

LabelsAppend ==
    /\ AtLine("labels")
    /\ At.label # Null /\ At.op # ".org"
    /\ labels' = Append(labels, [name |-> At.label, offset |-> offset])
    /\ offset' = IF At.op = Null THEN offset ELSE AsInt(offset + 1)
    /\ NextLine
    /\ UNCHANGED <<source, pass, offset_max, outbuf, where>>

LabelsEnd ==
    /\ pass = "labels" /\ cursor > Len(source)
    /\ pass' = "opcodes"
    /\ cursor' = 1
    /\ offset' = 0
    /\ offset_max' = 0
    /\ UNCHANGED <<source, labels, outbuf, where>>

---------------------------------------------------------------------------
(* Looking a label up.  -1 is "not found", and is shifted and masked too.  *)
(* The difference of two ints wraps where it overflows.                    *)

FirstLabel(name) == SelectInSeq(labels, LAMBDA l : l.name = name)

find_offset(ref) ==
    LET n == FirstLabel(ref.label)
        ret == IF n = 0 THEN -1 ELSE labels[n].offset
    IN  CASE ref.part = "h" -> ret \div 256
          [] ref.part = "l" -> ret % 256
          [] OTHER -> ret

\* Relative to the next word.
BugRelativeToNext(cur_off, ref) ==
    IF find_offset(ref) = -1 THEN MAX_WORDS + 1 ELSE AsInt(find_offset(ref) - (cur_off + 1))

find_reloff(cur_off, ref) ==
    IF find_offset(ref) = -1 THEN MAX_WORDS + 1 ELSE AsInt(find_offset(ref) - cur_off)

---------------------------------------------------------------------------
(* Pass 2: generate_opcodes                                                *)

\* What an operand of a syntax may start with, and the values it may have: the range
\* of the unsigned ones has no lower end.
Starts(syn) ==
    CASE syn.kind = "s" -> {"%", "#"}
      [] syn.kind = "u" -> {"@", "#"}
      [] OTHER -> {syn.kind}

InRange(syn, v) ==
    IF syn.kind = "s" THEN v \in -(2^(syn.bits - 1)) .. 2^(syn.bits - 1) - 1
                      ELSE v < 2^syn.bits

\* The value is an int before its range is tested.
Value(arg) ==
    CASE arg.kind = "%" -> find_reloff(offset, arg)
      [] arg.kind = "@" -> find_offset(arg)
      [] OTHER -> AsInt(arg.num)

Accepted(op, args) ==
    /\ op \in Nmemonics
    /\ \A n \in DOMAIN RowOf(op).syntax :
          /\ args[n].kind \in Starts(RowOf(op).syntax[n])
          /\ InRange(RowOf(op).syntax[n], Value(args[n]))

\* offset_max_update, with the test of the length made one word later.
BugAdvance(to) ==
    /\ offset' = to
    /\ offset_max' = IF to > offset_max THEN to ELSE offset_max
    /\ pass' = IF to > offset_max /\ to > MAX_WORDS THEN "failed" ELSE pass

\* offset_max_update
Advance(to) ==
    /\ offset' = to
    /\ offset_max' = IF to > offset_max THEN to ELSE offset_max
    /\ pass' = IF to > offset_max /\ to >= MAX_WORDS THEN "failed" ELSE pass

Left == where' = Append(where, offset) /\ NextLine

\* A word is written where the location counter is, which nothing tests at that point.
Inside == offset \in 0 .. MAX_WORDS - 1

Emit(word) ==
    /\ Inside
    /\ outbuf' = [o \in DOMAIN outbuf \cup {offset} |-> IF o = offset THEN word ELSE outbuf[o]]
    /\ Advance(offset + 1)
    /\ Left
    /\ UNCHANGED <<source, labels>>

Fail ==
    /\ pass' = "failed"
    /\ UNCHANGED <<source, cursor, offset, offset_max, labels, outbuf, where>>

OpcodesLabelOnly ==
    /\ AtLine("opcodes")
    /\ At.op = Null
    /\ Left
    /\ UNCHANGED <<source, pass, offset, offset_max, labels, outbuf>>

OpcodesOrg ==
    /\ AtLine("opcodes")
    /\ At.op = ".org"
    /\ Advance(AsInt(At.args[1].num))
    /\ Left
    /\ UNCHANGED <<source, labels, outbuf>>

DataAccepted == At.op = ".data" /\ At.args[1].kind \in {"@", "#"}

\* A word of data is a uint16_t at once.
OpcodesData ==
    /\ AtLine("opcodes")
    /\ DataAccepted
    /\ Emit((IF At.args[1].kind = "@" THEN find_offset(At.args[1]) ELSE At.args[1].num) % 2^16)

OpcodesDataFails ==
    /\ AtLine("opcodes")
    /\ At.op = ".data"
    /\ At.args[1].kind \notin {"@", "#"}
    /\ Fail

OpcodesInstruction ==
    /\ AtLine("opcodes")
    /\ At.op \notin {Null, ".org", ".data"}
    /\ Accepted(At.op, At.args)
    /\ Emit(assemble_instruction(At.op, [n \in DOMAIN At.args |-> Value(At.args[n])]))

\* A syntax that is not met, a value out of range or an unknown operation, whose operands
\* are matched with the syntax of an earlier line first.
OpcodesInstructionFails ==
    /\ AtLine("opcodes")
    /\ At.op \notin {Null, ".org", ".data"}
    /\ ~Accepted(At.op, At.args)
    /\ Fail

\* A word whose place is not in outbuf.
OpcodesWild ==
    /\ AtLine("opcodes")
    /\ \/ DataAccepted
       \/ At.op \notin {Null, ".org", ".data"} /\ Accepted(At.op, At.args)
    /\ ~ Inside
    /\ pass' = "wild"
    /\ UNCHANGED <<source, cursor, offset, offset_max, labels, outbuf, where>>

OpcodesEnd ==
    /\ pass = "opcodes" /\ cursor > Len(source)
    /\ pass' = "done"
    /\ UNCHANGED <<source, cursor, offset, offset_max, labels, outbuf, where>>

---------------------------------------------------------------------------
\* An assembler just started on a source.
Started(lines) ==
    /\ source = lines
    /\ pass = "labels"
    /\ cursor = 1
    /\ offset = 0
    /\ offset_max = 0
    /\ labels = <<>>
    /\ outbuf = <<>>
    /\ where = <<>>

AsmInit == \E lines \in Sources : Started(lines)

generate_labels == LabelsOrg \/ LabelsPlain \/ LabelsAppend \/ LabelsEnd

generate_opcodes ==
    \/ OpcodesLabelOnly \/ OpcodesOrg
    \/ OpcodesData \/ OpcodesDataFails
    \/ OpcodesInstruction \/ OpcodesInstructionFails
    \/ OpcodesWild \/ OpcodesEnd

AsmNext == generate_labels \/ generate_opcodes

AsmSpec == AsmInit /\ [][AsmNext]_asmVars
================================================================================
