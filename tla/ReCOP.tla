------------------------------- MODULE ReCOP --------------------------------
(***************************************************************************)
(* The ReCOP processor (ReCOPCore.bdf): control unit, data path            *)
(* (Datapath.bdf) and its two memories (RAM_Interface.bdf).                *)
(*                                                                         *)
(* A step is one cycle of the clock.  The state machine moves at the       *)
(* rising edge; all registers and both memories follow at the falling      *)
(* edge, with the outputs the control unit has in the new state.  The      *)
(* memories register their address and their output: a word appears two    *)
(* falling edges after its address.                                        *)
(***************************************************************************)
EXTENDS ReCOPControl

CONSTANTS
  Programs,     \* the contents program memory may have
  DmInitial,    \* the word data memory is filled with
  Signals       \* the values dprr_write may take in a cycle

ASSUME CoreAssumption ==
  /\ Programs \subseteq [PmAddr -> Instruction]
  /\ DmInitial \in Word
  /\ Signals \subseteq BOOLEAN

VARIABLES
  fsm, cu,            \* State and the latched outputs of the control unit
  pc, ir, rf, z,      \* the registers
  dpcr, sop,          \* the words for the network and the outputs
  dpc, irq,           \* a DATACALL was made; the network has delivered
  pm, pmAddr, pmOut,  \* program memory and its two registers
  dm, dmAddr, dmOut   \* data memory and its two registers

coreVars == <<fsm, cu, pc, ir, rf, z, dpcr, sop, dpc, irq,
              pm, pmAddr, pmOut, dm, dmAddr, dmOut>>

CoreInit ==
  /\ fsm = "Ini" /\ cu \in PowerUp
  /\ pc = 0 /\ ir = NoInstruction
  /\ rf = [r \in Register |-> 0] /\ z = FALSE
  /\ dpcr = [hi |-> 0, lo |-> 0] /\ sop = 0
  /\ dpc = FALSE /\ irq = FALSE
  /\ pm \in Programs /\ pmAddr = 0 /\ pmOut = NoInstruction
  /\ dm = [a \in DmAddr |-> DmInitial] /\ dmAddr = 0 /\ dmOut = 0

-----------------------------------------------------------------------------
(* The wires of the data path, under the outputs c of the control unit.    *)

\* Mutants: the x side reads the field of z; the z side follows no select.
SelXField(c) == IF c.selX THEN 5 ELSE ir.rz
SelZField(c) == ir.rz

\* MUX2_4_1 and MUX2_4_2 of RF.vhd: both follow selx_mux_sel.
SelX(c) == IF c.selX THEN 5 ELSE ir.rx
SelZ(c) == IF c.selX THEN c.selZ ELSE ir.rz

Rx(c) == rf[SelX(c)]
Rz(c) == rf[SelZ(c)]

AluResult(c) ==
  AluOut(c.aluOp, IF c.aluA = "rx" THEN Rx(c) ELSE ir.operand,
                  IF c.aluB = "rx" THEN Rx(c) ELSE Rz(c))

\* MUX8_16_1 of RF.vhd.  dprr_hi is loaded by no signal and stays zero.
RfInput(c) ==
  CASE c.rfMux = "ir"   -> ir.operand
    [] c.rfMux = "dm"   -> dmOut
    [] c.rfMux = "rx"   -> Rx(c)
    [] c.rfMux = "alu"  -> AluResult(c)
    [] c.rfMux = "max"  -> Larger(ir.operand, Rz(c))
    [] c.rfMux = "dprr" -> 0

PcInput(c) ==
  CASE c.pcMux = "rx"    -> Rx(c)
    [] c.pcMux = "ir"    -> ir.operand
    [] c.pcMux = "const" -> Increased(pc)
    [] c.pcMux = "dm"    -> dmOut

\* Addr_Mem_Inter and RAM_Mem_Interface: the memory that is not selected
\* gets address zero.
Address(c) ==
  CASE c.mAddr = "pc" -> pc
    [] c.mAddr = "rx" -> Rx(c)
    [] c.mAddr = "rz" -> Rz(c)
    [] c.mAddr = "ir" -> ir.operand

ToMemory(c) ==
  CASE c.memData = "ir" -> ir.operand
    [] c.memData = "rx" -> Rx(c)
    [] c.memData = "pc" -> pc

-----------------------------------------------------------------------------
(* The falling edge.                                                       *)

\* REG1_GENERIC: a reset goes before a write.
Register1(reset, write, in, old, zero) ==
  IF reset THEN zero ELSE IF write THEN in ELSE old

Registers(c, signal) ==
  /\ pc'   = Register1(c.reset, c.pc, PcInput(c), pc, 0)
  /\ ir'   = Register1(c.reset, c.ir, pmOut, ir, NoInstruction)
  /\ dpcr' = Register1(c.reset, c.dpcr,
                       [hi |-> Rx(c), lo |-> IF c.dpcrMux = "rz" THEN Rz(c) ELSE ir.operand],
                       dpcr, [hi |-> 0, lo |-> 0])
  /\ rf'   = IF c.rf THEN [rf EXCEPT ![SelZ(c)] = RfInput(c)] ELSE rf
  /\ z'    = Register1(c.clrZ, AluResult(c) = 0, TRUE, z, FALSE)
  /\ sop'  = Register1(FALSE, c.sop, Rx(c), sop, 0)
  /\ dpc'  = Register1(FALSE, c.dpcr, TRUE, dpc, FALSE)
  /\ irq'  = Register1(c.resetIrq, signal, TRUE, irq, FALSE)

\* The program memory is written under the same enable, with mem_sel at pm:
\* ProgramUntouched shows that this never happens.
Memories(c) ==
  /\ pmOut'  = pm[pmAddr]
  /\ pmAddr' = IF c.memSel = "pm" THEN ToPm(Address(c)) ELSE 0
  /\ dmOut'  = dm[dmAddr]
  /\ dmAddr' = IF c.memSel = "dm" THEN ToDm(Address(c)) ELSE 0
  /\ dm' = IF c.we /\ c.memSel = "dm" THEN [dm EXCEPT ![ToDm(Address(c))] = ToMemory(c)]
           ELSE dm
  /\ pm' = IF c.we /\ c.memSel = "pm"
           THEN [pm EXCEPT ![ToPm(Address(c))] = [pmOut EXCEPT !.operand = ToMemory(c)]]
           ELSE pm

\* One cycle; signal is dprr_write.
Cycle(signal) ==
  /\ fsm' = NextState(fsm, dpc, irq)
  /\ cu'  = Control(cu, fsm', ir, z)
  /\ Registers(cu', signal)
  /\ Memories(cu')

CoreNext == \E signal \in Signals : Cycle(signal)

CoreSpec == CoreInit /\ [][CoreNext]_coreVars

CoreFairSpec == CoreSpec /\ WF_coreVars(CoreNext)

-----------------------------------------------------------------------------
CoreTypeOK ==
  /\ fsm \in FsmState /\ cu \in Controls
  /\ pc \in Word /\ ir \in Instruction /\ rf \in [Register -> Word] /\ z \in BOOLEAN
  /\ dpcr \in [hi : Word, lo : Word] /\ sop \in Word
  /\ dpc \in BOOLEAN /\ irq \in BOOLEAN
  /\ pm \in [PmAddr -> Instruction] /\ pmAddr \in PmAddr /\ pmOut \in Instruction
  /\ dm \in [DmAddr -> Word] /\ dmAddr \in DmAddr /\ dmOut \in Word

\* No instruction, in whatever order and with whatever interrupts, writes
\* program memory: the latched write enable is only ever up while the latched
\* selection is at data memory, which T1 turns to program memory.
ProgramUntouched == [][pm' = pm]_coreVars

\* An interrupt writes one register of the file, the one the latched
\* rf_value_sel_z names, until the next instruction starts; all others keep
\* what the program put there.
InterruptWritesOne ==
  [][fsm' \in {"N1", "N2", "T0", "T1"} =>
       \A r \in Register \ {cu.selZ} : rf'[r] = rf[r]]_coreVars

\* A delivery announced after the first DATACALL interrupts the program, and
\* the program goes on after it.
IrqServed == (dpc /\ irq ~> fsm = "N1") /\ []<>(fsm = "T2")

\* The instructions that leave the address of the program memory to the
\* program counter and the counter to state T2: no loads from and stores to
\* data memory, no PRESENT.
Steady(i) ==
  ~ \/ i.am = "immediate" /\ i.op \in {"str", "present"}
    \/ i.am = "direct"    /\ i.op \in {"ldr", "str", "strpc"}
    \/ i.am = "indirect"  /\ i.op \in {"ldr", "str"}

\* In a program of those the instruction being executed is the one before
\* the program counter ("ir <- pm", "pc <- pc + 1" of state T1), wherever
\* interrupts come between fetches.
FetchesPc ==
  fsm = "T1" /\ (\A a \in PmAddr : Steady(pm[a])) => ir = pm[ToPm(pc - 1)]
=============================================================================
