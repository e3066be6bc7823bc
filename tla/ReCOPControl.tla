---------------------------- MODULE ReCOPControl ----------------------------
(***************************************************************************)
(* The control unit of ReCOP (control_unit.vhd).  Its combinational process*)
(* assigns only some outputs in each state, so that every output is a      *)
(* latch: the record cu holds them, and Control gives their values in a    *)
(* state from those they had in the state before.  Outputs that are only   *)
(* ever driven to one value (reset_dpc, reset_dprr, reset_sop and carry to *)
(* zero, reset_sip to one, rf_value_sel_x to five) and those no wire       *)
(* follows (rf_mux_sel_z, reset_rf, write_sip) have no field.  Left out is *)
(* also that LSIP puts rf_mux_sel to rf_sip in T3: whatever writes the     *)
(* register file next sets it again before.                                *)
(***************************************************************************)
EXTENDS ReCOPWords

FsmState == {"Ini", "T0", "T1", "T2", "T3", "N1", "N2"}

Controls ==
  [ir : BOOLEAN, pc : BOOLEAN, rf : BOOLEAN, sop : BOOLEAN, dpcr : BOOLEAN,  \* write_*
   reset    : BOOLEAN,                   \* reset_pc, reset_ir and reset_dpcr
   resetIrq : BOOLEAN, clrZ : BOOLEAN, we : BOOLEAN,
   rfMux    : {"ir", "dm", "rx", "alu", "max", "dprr"},     \* rf_mux_sel
   selX     : BOOLEAN,                   \* rf_mux_sel_x
   selZ     : {0, 7},                    \* rf_value_sel_z
   mAddr    : {"pc", "rx", "rz", "ir"},  \* m_address_mux_sel
   memSel   : {"pm", "dm"}, memData : {"ir", "rx", "pc"},
   pcMux    : {"rx", "ir", "const", "dm"},
   aluOp    : {"add", "sub", "orr", "andd"}, aluA : {"rx", "ir"}, aluB : {"rx", "rz"},
   dpcrMux  : {"rz", "ir"}]

\* The outputs at power-up: latches at zero, except that those only ever
\* driven to one may be one from the start, and rf_mux_sel_x is arbitrary.
PowerUp ==
  [ir : {FALSE}, pc : {FALSE}, rf : {FALSE}, sop : {FALSE}, dpcr : {FALSE},
   reset : {TRUE}, resetIrq : {FALSE}, clrZ : BOOLEAN, we : {FALSE},
   rfMux : {"ir"}, selX : BOOLEAN, selZ : {0, 7},
   mAddr : {"pc"}, memSel : {"dm"}, memData : {"ir"}, pcMux : {"dm"},
   aluOp : {"add"}, aluA : {"rx"}, aluB : {"rx"}, dpcrMux : {"rz"}]

\* Mutants: the interrupt is not looked at; it is taken on either flag; T3
\* is left out.
NextStateDeaf(state, dpc, irq) ==
  CASE state = "T1" -> "T2"
    [] state = "T2" -> "T3"
    [] state \in {"T3", "Ini"} -> "T0"
    [] OTHER -> "T1"

NextStateEither(state, dpc, irq) ==
  CASE state = "T0" -> IF dpc \/ irq THEN "N1" ELSE "T1"
    [] state = "T1" -> "T2"
    [] state = "T2" -> "T3"
    [] state = "N1" -> "N2"
    [] OTHER -> "T0"

NextStateShort(state, dpc, irq) ==
  CASE state = "T0" -> IF dpc /\ irq THEN "N1" ELSE "T1"
    [] state = "T1" -> "T2"
    [] state = "N1" -> "N2"
    [] OTHER -> "T0"

\* process (CLK, Reset): the interrupt is taken between two instructions,
\* once a DATACALL has been made.
NextState(state, dpc, irq) ==
  CASE state = "T0" -> IF dpc /\ irq THEN "N1" ELSE "T1"
    [] state = "T1" -> "T2"
    [] state = "T2" -> "T3"
    [] state = "N1" -> "N2"
    [] state \in {"T3", "N2", "Ini"} -> "T0"

-----------------------------------------------------------------------------
\* The parts of state T2, one per group of instructions.
Alu(c, op, a, b, out) ==
  [c EXCEPT !.aluOp = op, !.aluA = a, !.aluB = b, !.rfMux = out, !.rf = TRUE]

\* Mutant: a store leaves the memory selected that was.
StoreInPlace(c, data, addr) ==
  [c EXCEPT !.memData = data, !.mAddr = addr, !.we = TRUE]

Store(c, data, addr) ==
  [c EXCEPT !.memData = data, !.mAddr = addr, !.memSel = "dm", !.we = TRUE]

Jump(c, target) == [c EXCEPT !.pcMux = target, !.pc = TRUE]

ExecuteDirect(c, op) ==
  CASE op = "ldr" -> [c EXCEPT !.mAddr = "ir", !.rfMux = "dm", !.selX = FALSE, !.rf = TRUE]
    [] op = "str" -> Store(c, "rx", "ir")
    [] op = "strpc" -> Store(c, "pc", "ir")
    [] OTHER -> c

ExecuteIndirect(c, op) ==
  CASE op \in {"add", "andd", "orr"} -> Alu(c, op, "rx", "rz", "alu")
    [] op = "ldr" -> [c EXCEPT !.mAddr = "rx", !.rfMux = "dm", !.rf = TRUE]
    [] op = "str" -> Store(c, "rx", "rz")
    [] op = "jmp" -> Jump(c, "rx")
    [] op = "datacall" -> [c EXCEPT !.dpcrMux = "rz", !.selZ = 7, !.dpcr = TRUE]
    [] op = "ssop" -> [c EXCEPT !.rfMux = "rx", !.sop = TRUE]
    [] OTHER -> c

ExecuteImmediate(c, op, zero) ==
  CASE op = "add"  -> Alu(c, "add", "ir", "rx", "ir")
    [] op = "subi" -> Alu(c, "sub", "ir", "rz", "ir")
    [] op = "subv" -> Alu(c, "sub", "ir", "rx", "alu")
    [] op \in {"andd", "orr"} -> Alu(c, op, "ir", "rx", "alu")
    [] op = "ldr" -> [c EXCEPT !.rfMux = "ir", !.selX = FALSE, !.rf = TRUE]
    [] op = "str" -> Store(c, "ir", "rz")
    [] op = "jmp" -> Jump(c, "ir")
    [] op = "present" -> [c EXCEPT !.aluOp = "orr", !.aluA = "rx", !.aluB = "rz"]
    [] op = "datacall" -> [c EXCEPT !.dpcrMux = "ir", !.dpcr = TRUE]
    [] op = "max" -> [c EXCEPT !.rfMux = "max", !.rf = TRUE]
    [] op = "sz" -> Jump(c, IF zero THEN "ir" ELSE "const")
    [] OTHER -> c

Execute(c, i, zero) ==
  CASE i.am = "inherent"  -> IF i.op = "clfz" THEN [c EXCEPT !.clrZ = TRUE] ELSE c
    [] i.am = "direct"    -> ExecuteDirect(c, i.op)
    [] i.am = "indirect"  -> ExecuteIndirect(c, i.op)
    [] i.am = "immediate" -> ExecuteImmediate(c, i.op, zero)

\* The outputs in a state, with the instruction i and the flag z.
Control(c, state, i, zero) ==
  CASE state = "Ini" -> [c EXCEPT !.ir = FALSE, !.pc = FALSE, !.rf = FALSE, !.sop = FALSE,
                           !.dpcr = FALSE, !.reset = TRUE]
    [] state = "T0" -> [c EXCEPT !.sop = FALSE]
    [] state = "N1" -> [c EXCEPT !.rfMux = "dprr", !.selX = TRUE, !.rf = TRUE]
    [] state = "N2" -> [c EXCEPT !.rfMux = "rx", !.sop = TRUE, !.resetIrq = TRUE]
    [] state = "T1" -> [c EXCEPT !.reset = FALSE, !.resetIrq = FALSE, !.pc = TRUE,
                          !.ir = TRUE, !.dpcr = FALSE, !.mAddr = "pc", !.memSel = "pm",
                          !.pcMux = "const"]
    [] state = "T2" -> Execute([c EXCEPT !.pc = FALSE, !.ir = FALSE], i, zero)
    [] state = "T3" ->
         LET d == [c EXCEPT !.ir = FALSE, !.pc = FALSE, !.rf = FALSE, !.sop = FALSE,
                     !.dpcr = FALSE, !.we = FALSE]
         IN  IF i.am = "immediate" /\ i.op = "present" /\ zero THEN Jump(d, "ir") ELSE d
=============================================================================
