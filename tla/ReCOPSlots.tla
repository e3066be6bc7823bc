----------------------------- MODULE ReCOPSlots -----------------------------
(***************************************************************************)
(* ReCOP beside the slot counter of the network.  tdma_recop takes the     *)
(* source label of the receive register, 7 whenever the slot before the    *)
(* edge was the loopback slot 0, for the arrival of a packet: dprr_write   *)
(* is raised once in every round of slots, with or without a packet.       *)
(***************************************************************************)
EXTENDS ReCOPRefinement

CONSTANTS
  Slots,      \* slots of a round: 8
  Starts      \* the slots in which ReCOP may start

VARIABLE slot

slotVars == <<coreVars, slot>>

SlotInit == CoreInit /\ slot \in Starts

SlotNext == Cycle(slot = 0) /\ slot' = (slot + 1) % Slots

SlotSpec == SlotInit /\ [][SlotNext]_slotVars /\ WF_slotVars(SlotNext)

-----------------------------------------------------------------------------
\* The words the program of memory p hands to the network, each loaded by
\* the instruction before its DATACALL.
Calls(p) ==
  {[hi |-> p[a - 1].operand, lo |-> p[a].operand] :
     a \in {b \in PmAddr \ {0} : /\ p[b].am = "immediate" /\ p[b].op = "datacall"
                                 /\ p[b - 1].am = "immediate" /\ p[b - 1].op = "ldr"
                                 /\ p[b - 1].rz = p[b].rx}}

\* Every configuration of the program ("conf adc ch 1 to fir" and so on) is
\* handed to the network, again and again as the program loops.
CallsMade == \A w \in UNION {Calls(p) : p \in Programs} : []<>(dpcr = w)

\* Every DATACALL hands over what the instruction before it loaded.  An
\* interrupt between the two leaves rf_mux_sel_x raised, and the DATACALL
\* sends register 5 in its high half.
CallsExact ==
  [][dpcr' # dpcr => dpcr' \in UNION {Calls(p) : p \in Programs}]_slotVars

\* The instruction i loads the register the DATACALL j hands over.
LoadsFor(i, j) == i.am = "immediate" /\ i.op = "ldr" /\ i.rz = j.rx

\* The programs written in that way: the instruction before a DATACALL loads
\* its register, and no jump lands between the two.
Paired(p) ==
  LET call == {a \in PmAddr : p[a].am # "inherent" /\ p[a].op = "datacall"}
      jump == {a \in PmAddr : p[a].am # "inherent" /\ p[a].op = "jmp"}
  IN  /\ Machine!KeptProgram(p)
      /\ \A a \in call : a # 0 /\ LoadsFor(p[a - 1], p[a])
      /\ \A a \in jump : p[a].am = "immediate" /\ ToPm(p[a].operand) \notin call
=============================================================================
