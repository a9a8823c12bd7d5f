----------------------------- MODULE CoreTypes -----------------------------
(***************************************************************************)
(* The vocabulary of the CN1601 core: the sizes of its address space and   *)
(* control registers, the mode bits of STATUS and what entering and        *)
(* leaving a handler does to them, the instruction classes and the kinds   *)
(* of update an instruction leaves for the second half of its cycle.       *)
(*                                                                         *)
(* Register contents and memory contents are abstracted: an instruction is *)
(* known by its class, an address by a number below AddrSpace (2^16 in the *)
(* code), STATUS by its five mode bits (the 11-bit software argument only  *)
(* carries data from `int` to its handler).                                *)
(***************************************************************************)
EXTENDS Naturals

CONSTANTS
    AddrSpace,     \* number of addresses a uint16_t holds
    IntLine,       \* the external interrupt pins, 0 .. SIM_CORE_NUM_EXTINT - 1
    EnableBit,     \* the bits of IENABLE and UMCPEN: 0 .. 15 in the code
    CpNum,         \* what the 3-bit coprocessor field of an instruction can name
    CounterMod     \* number of values of a counter word, 2^16 in the code

ASSUME SizesAssumption ==
    /\ AddrSpace \in Nat \ {0}
    /\ CounterMod \in Nat \ {0}
    /\ IntLine \subseteq Nat
    /\ EnableBit \subseteq Nat
    /\ IntLine \subseteq EnableBit
    /\ CpNum \subseteq Nat

Addr == 0 .. AddrSpace - 1

Counter == [low : 0 .. CounterMod - 1, high : 0 .. CounterMod - 1]

---------------------------------------------------------------------------
(* STATUS: user mode, return-to-user-mode and its saved copy, load link,   *)
(* global interrupt enable.                                                *)

Status == [um : BOOLEAN, rum : BOOLEAN, ums : BOOLEAN, ll : BOOLEAN, gie : BOOLEAN]

PowerOnStatus == [um |-> FALSE, rum |-> FALSE, ums |-> FALSE, ll |-> FALSE, gie |-> FALSE]

\* A handler entry that leaves the load link standing.
BugTrapKeepsLink(s) ==
    [um |-> FALSE, rum |-> s.um, ums |-> s.rum, ll |-> s.ll, gie |-> FALSE]

StatusTrap(s) ==
    [um |-> FALSE, rum |-> s.um, ums |-> s.rum, ll |-> FALSE, gie |-> FALSE]

StatusRfi(s) ==
    [um |-> s.rum, rum |-> s.ums, ums |-> s.ums, ll |-> FALSE, gie |-> TRUE]

---------------------------------------------------------------------------
(* Instruction classes.  "alu" is every instruction that only computes a   *)
(* general register; "branch" is ba, bz, bnz and jr.                       *)

Opcode == {"alu", "branch", "bal", "jlr", "ll", "ldw", "stw", "sc", "mfcp",
           "mtcp", "cpop", "int", "rfi", "mfctl", "mtctl", "sleep"}

UpdateType == {"GPRUP", "BRANCH", "BRLINK", "LOAD", "LOADLNK", "STORE", "SCOND",
               "CTLUP", "CPREAD", "TRAP", "RFI", "SLEEP"}

MemType == {"LOAD", "LOADLNK", "STORE", "SCOND"}

CoprocOp == {"NONE", "READ", "WRITE", "EXEC"}

\* The entry points a program sets, but for those of the external interrupts.
Vector == {"ifaulthdl", "dfaulthdl", "swihdl", "privophdl"}

\* What mtctl can name; "other" stands for the registers that steer nothing
\* (the user register file, ILLOPHDL, IPEND, IACK, C30, C31), "gpr" for a
\* general register in the same field of the latch.
CtlReg == Vector \cup {"epc", "epc_saved", "status", "exihdl", "ienable", "umcpen",
                       "counter_low", "counter_high", "other"}

RegNum == CtlReg \cup {"gpr"}
============================================================================
