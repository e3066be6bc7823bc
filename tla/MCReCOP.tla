------------------------------ MODULE MCReCOP -------------------------------
(* Instances of ReCOP: words of two bits, four places of program, and all  *)
(* programs over a few instructions.                                       *)
EXTENDS ReCOPRefinement

I(am, op, rz, rx, operand) ==
  [am |-> am, op |-> op, rz |-> rz, rx |-> rx, operand |-> operand]

\* Programs that start with first and go on with instructions of a set.
Starting(first, rest) ==
  {p \in [PmAddr -> {first} \cup rest] : p[0] = first}

KeptInstructions ==
  {NoInstruction, I("immediate", "datacall", 0, 1, 3), I("immediate", "jmp", 0, 0, 2),
   I("indirect", "jmp", 0, 1, 0), I("indirect", "add", 1, 1, 0),
   I("immediate", "max", 5, 1, 2), I("immediate", "subv", 1, 1, 0),
   I("immediate", "andd", 1, 1, 2), I("immediate", "orr", 5, 1, 1),
   I("indirect", "ssop", 0, 1, 0), I("indirect", "orr", 1, 5, 0),
   I("indirect", "andd", 1, 5, 0)}

KeptPrograms == Starting(I("immediate", "ldr", 1, 0, 1), KeptInstructions)

\* Instructions of every mode, those included that disturb the fetch.
AllInstructions ==
  {I("immediate", "datacall", 0, 1, 3), I("immediate", "str", 1, 1, 2),
   I("indirect", "str", 1, 5, 0), I("direct", "str", 0, 1, 3), I("direct", "strpc", 0, 0, 1),
   I("direct", "ldr", 7, 0, 1), I("indirect", "ldr", 1, 5, 0),
   I("immediate", "sz", 0, 0, 0), I("immediate", "present", 0, 1, 2),
   I("inherent", "clfz", 0, 0, 0), I("indirect", "datacall", 5, 1, 0),
   I("immediate", "subi", 5, 0, 1), I("immediate", "add", 1, 0, 3)}

AllPrograms ==
  {p \in Starting(I("immediate", "ldr", 1, 0, 1), AllInstructions) :
     p[1] # p[2] /\ p[2] # p[3] /\ p[3].op \in {"datacall", "str", "present"}}

\* Kept instructions without indirect jumps, a DATACALL early on.
FlowPrograms ==
  {p \in Starting(I("immediate", "ldr", 1, 0, 1), KeptInstructions) :
     p[1].op = "datacall" /\ \A a \in PmAddr : ~ (p[a].am = "indirect" /\ p[a].op = "jmp")}

MixedPrograms == AllPrograms \cup FlowPrograms
=============================================================================
