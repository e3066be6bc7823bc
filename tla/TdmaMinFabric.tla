--------------------------- MODULE TdmaMinFabric ---------------------------
(***************************************************************************)
(* The switching fabric (TdmaMinFabric.vhd, TdmaMinStage.vhd,              *)
(* TdmaMinSwitch.vhd) as the equations of its signals.  links[n] is the    *)
(* row of words between stages: links[Stages] is fed by the interfaces and *)
(* links[0] feeds them; the stage numbered n reads links[n + 1], drives    *)
(* links[n] and has slot(n) as the control of all its switches.            *)
(***************************************************************************)
EXTENDS TdmaMinTypes

Level == 0 .. Stages

\* Mutant: the lower output of a switch does not cross.
SwitchYStraight(s, a, b) == b

\* TdmaMinSwitch: outputs x and y for inputs a and b under control s.
SwitchX(s, a, b) == IF s THEN b ELSE a
SwitchY(s, a, b) == IF s THEN a ELSE b

\* For the terminal t on the output side of a stage, the inputs of its
\* switch: terminal 2*index or 2*index + 1 belongs to the switch index, whose
\* inputs are index (Upper FALSE) and index + terminals/2 (Upper TRUE).
SwitchInput(t, upper) ==
  [k \in Bit |-> IF k = Stages - 1 THEN upper ELSE t[k + 1]]

\* TdmaMinStage: the word on output t of a stage with input row i and
\* control s; the even terminal is x, the odd one y.
Stage(s, i, t) ==
  LET a == i[SwitchInput(t, FALSE)]
      b == i[SwitchInput(t, TRUE)]
  IN  IF t[0] THEN SwitchY(s, a, b) ELSE SwitchX(s, a, b)

\* The value the drivers of links[n][t] give it, for the rows of links, the
\* slot and the words on the input terminals.
Driven(links, slot, push, n, t) ==
  IF n = Stages THEN push[t] ELSE Stage(slot[n], links[n + 1], t)

\* No signal of the fabric is about to change.
Settled(links, slot, push) ==
  \A n \in Level, t \in Terminal : links[n][t] = Driven(links, slot, push, n, t)

\* The law of the fabric: settled, it connects t and t xor slot.
RoutesByXor(links, slot, push) ==
  \A t \in Terminal : links[0][t] = push[Xor(t, slot)]
=============================================================================
