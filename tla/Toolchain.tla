------------------------------- MODULE Toolchain -------------------------------
(***************************************************************************)
(* The assembler, the disassembler (dasm.c) on its image, and the          *)
(* assembler again on what the disassembler prints, as `make tests` runs   *)
(* them.  The options that select a part of the image or print words as    *)
(* data are left out.                                                      *)
(***************************************************************************)
EXTENDS AsmProps

CONSTANT MaxDump    \* images longer than this are not disassembled

ASSUME ToolchainAssumption == MaxDump \in Nat

VARIABLE dump       \* the image the disassembler has read; empty before it runs

vars == <<asmVars, dump>>

\* Every operand is printed as a number: labels are lost, and so are the blank bits.
disassemble(word) ==
    LET decoded == decode_instruction(word)
        nmemonic == resolve_nmemonic(decoded.opcode, decoded.subcode)
        syntax == RowOf(nmemonic).syntax
    IN  Line(Null, nmemonic,
             [n \in DOMAIN syntax |->
                 Number(IF syntax[n].kind \in {"s", "u"} THEN "#" ELSE syntax[n].kind,
                        decoded.fields[n])])

Init == AsmInit /\ dump = <<>>

Assemble == AsmNext /\ UNCHANGED dump

Disassemble ==
    /\ pass = "done" /\ dump = <<>>
    /\ offset_max \in 1 .. MaxDump
    /\ dump' = [n \in 1 .. offset_max |-> WordAt(n - 1)]
    /\ source' = [n \in 1 .. offset_max |-> disassemble(WordAt(n - 1))]
    /\ pass' = "labels"
    /\ cursor' = 1
    /\ offset' = 0
    /\ offset_max' = 0
    /\ labels' = <<>>
    /\ outbuf' = <<>>
    /\ where' = <<>>

Next == Assemble \/ Disassemble

Spec == Init /\ [][Next]_vars

---------------------------------------------------------------------------
\* Round trip (the tests target of the Makefile): what the disassembler prints is accepted
\* by the assembler, and gives an image of the same length that disassembles the same.
RoundTrip ==
    dump # <<>> =>
        /\ pass \notin {"failed", "wild"}
        /\ pass = "done" =>
              /\ offset_max = Len(dump)
              /\ \A n \in DOMAIN dump : disassemble(WordAt(n - 1)) = disassemble(dump[n])
================================================================================
