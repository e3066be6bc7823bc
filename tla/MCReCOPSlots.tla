---------------------------- MODULE MCReCOPSlots ----------------------------
(* Instance of ReCOPSlots: the program of program_memory.mif.  Its          *)
(* addresses are hexadecimal: what was assembled for place 10 is at 16.     *)
EXTENDS ReCOPSlots

Ldr(value)  == [am |-> "immediate", op |-> "ldr", rz |-> 0, rx |-> 0, operand |-> value]
Call(value) == [am |-> "immediate", op |-> "datacall", rz |-> 0, rx |-> 0, operand |-> value]

ProgramMemory ==
  [a \in PmAddr |->
     CASE a = 0  -> Ldr(41027)  \* a043
       [] a = 1  -> Call(0)
       [] a = 2  -> Ldr(41026)  \* a042
       [] a = 3  -> Call(0)
       [] a = 4  -> Ldr(45314)  \* b102
       [] a = 5  -> Call(0)
       [] a = 6  -> Ldr(45315)  \* b103
       [] a = 7  -> Call(0)
       [] a = 8  -> Ldr(61482)  \* f02a
       [] a = 9  -> Call(49156) \* c004
       [] a = 16 -> Ldr(61475)  \* f023
       [] a = 17 -> Call(0)
       [] a = 24 -> [NoInstruction EXCEPT !.op = "noop"]
       [] a = 25 -> [Ldr(0) EXCEPT !.op = "jmp"]
       [] OTHER -> NoInstruction]

Shipped == {ProgramMemory}

\* What the theorems about paired programs ask for.
ASSUME ShippedIsPaired == Paired(ProgramMemory)
=============================================================================
