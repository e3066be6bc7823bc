-------------------------- MODULE ReCOPRefinement ---------------------------
(***************************************************************************)
(* ReCOP implements its instruction set, as long as no packet interrupts   *)
(* it: an instruction takes effect at the falling edge of T2, and until    *)
(* then the program counter is one ahead of it.                            *)
(***************************************************************************)
EXTENDS ReCOP

At == IF fsm = "T1" THEN (pc - 1) % 2 ^ W ELSE pc

Machine == INSTANCE ReCOPIsa
  WITH at <- At, regs <- rf, call <- dpcr, out <- sop, program <- pm

\* Every behaviour of the processor is one of the instruction set.
ImplementsIsa == Machine!IsaSpec
=============================================================================
