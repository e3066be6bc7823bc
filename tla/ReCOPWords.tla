----------------------------- MODULE ReCOPWords -----------------------------
(***************************************************************************)
(* Words of the ReCOP processor: instructions (opcodes.vhd), as records of *)
(* the fields Instruction_reg.vhd cuts them into, and the arithmetic of    *)
(* ALU_COMPONENT.vhd and MAX.vhd on words of W bits.                       *)
(***************************************************************************)
EXTENDS Integers, FiniteSetsExt

CONSTANTS
  W,          \* bits of a word: 16
  PmBits,     \* bits of a program address: 11
  DmBits      \* bits of a data address: 12

ASSUME WidthAssumption ==
  W \in Nat \ {0} /\ PmBits \in 1 .. W /\ DmBits \in 1 .. W

Word     == 0 .. 2 ^ W - 1
PmAddr   == 0 .. 2 ^ PmBits - 1
DmAddr   == 0 .. 2 ^ DmBits - 1
Register == 0 .. 15

Mode == {"inherent", "immediate", "direct", "indirect"}

Opcode == {"ldr", "str", "andd", "orr", "add", "subv", "subi", "jmp", "present",
           "datacall", "sz", "clfz", "lsip", "ssop", "noop", "max", "strpc"}

Instruction ==
  [am : Mode, op : Opcode, rz : Register, rx : Register, operand : Word]

\* A word of program memory that holds zero.
NoInstruction ==
  [am |-> "inherent", op |-> "ldr", rz |-> 0, rx |-> 0, operand |-> 0]

\* The memory address a word selects: its low bits.
ToPm(word) == word % 2 ^ PmBits
ToDm(word) == word % 2 ^ DmBits

\* The bits of a word that are one, and the word of a set of bits.
Bit == 0 .. W - 1
Ones(word) == {k \in Bit : (word \div 2 ^ k) % 2 = 1}
WithOnes(S) == MapThenSumSet(LAMBDA k : 2 ^ k, S)

\* Mutant: the program counter has no width.
IncreasedFreely(word) == word + 1

Increased(word) == (word + 1) % 2 ^ W

\* ALU_COMPONENT, with carry_in at zero.
AluOut(op, a, b) ==
  CASE op = "add" -> (a + b) % 2 ^ W
    [] op = "sub" -> (a - b) % 2 ^ W
    [] op = "orr" -> WithOnes(Ones(a) \cup Ones(b))
    [] op = "andd" -> WithOnes(Ones(a) \cap Ones(b))

\* MAX, an unsigned comparison.
Larger(a, b) == IF a > b THEN a ELSE b
=============================================================================
