------------------------------ MODULE ReCOPIsa ------------------------------
(***************************************************************************)
(* ReCOP as its programmer sees it: instructions one by one, each an atom. *)
(* These are the instructions whose effect the hardware has; the others    *)
(* disturb the fetch of their successors or do not what their names say.   *)
(***************************************************************************)
EXTENDS ReCOPWords

CONSTANT Programs

VARIABLES at, regs, call, out, program

isaVars == <<at, regs, call, out, program>>

\* The instructions of this specification.
Kept(i) ==
  \/ i.am = "inherent"
  \/ i.am = "immediate" /\ i.op \in {"ldr", "jmp", "datacall", "max", "subv", "andd", "orr"}
  \/ i.am = "indirect"  /\ i.op \in {"add", "andd", "orr", "jmp", "ssop"}

\* The programs of kept instructions that first load a register.
KeptProgram(p) ==
  /\ \A a \in PmAddr : Kept(p[a])
  /\ p[0].am = "immediate" /\ p[0].op = "ldr"

IsaInit ==
  /\ at = 0 /\ regs = [r \in Register |-> 0]
  /\ call = [hi |-> 0, lo |-> 0] /\ out = 0
  /\ program \in Programs

\* The register an instruction writes gets this value.
Loaded(i) ==
  LET x == regs[i.rx] IN
  CASE i.op = "ldr"  -> i.operand
    [] i.op = "max"  -> Larger(i.operand, regs[i.rz])
    [] i.op = "subv" -> AluOut("sub", i.operand, x)
    [] i.op \in {"add", "andd", "orr"} ->
         IF i.am = "indirect" THEN AluOut(i.op, x, regs[i.rz]) ELSE AluOut(i.op, i.operand, x)

IsaLoad(i) ==
  /\ i.am # "inherent" /\ i.op \in {"ldr", "max", "subv", "add", "andd", "orr"}
  /\ regs' = [regs EXCEPT ![i.rz] = Loaded(i)]
  /\ at' = Increased(at)
  /\ UNCHANGED <<call, out>>

IsaJump(i) ==
  /\ i.am # "inherent" /\ i.op = "jmp"
  /\ at' = IF i.am = "indirect" THEN regs[i.rx] ELSE i.operand
  /\ UNCHANGED <<regs, call, out>>

IsaCall(i) ==
  /\ i.am # "inherent" /\ i.op = "datacall"
  /\ call' = [hi |-> regs[i.rx], lo |-> i.operand]
  /\ at' = Increased(at)
  /\ UNCHANGED <<regs, out>>

IsaOutput(i) ==
  /\ i.am # "inherent" /\ i.op = "ssop"
  /\ out' = regs[i.rx]
  /\ at' = Increased(at)
  /\ UNCHANGED <<regs, call>>

IsaNothing(i) ==
  /\ i.am = "inherent"
  /\ at' = Increased(at)
  /\ UNCHANGED <<regs, call, out>>

IsaStep ==
  LET i == program[ToPm(at)] IN
  /\ Kept(i)
  /\ IsaLoad(i) \/ IsaJump(i) \/ IsaCall(i) \/ IsaOutput(i) \/ IsaNothing(i)
  /\ UNCHANGED program

IsaSpec == IsaInit /\ [][IsaStep]_isaVars
=============================================================================
