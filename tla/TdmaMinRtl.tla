----------------------------- MODULE TdmaMinRtl -----------------------------
(***************************************************************************)
(* The network with its switching fabric as it is wired in TdmaMin.vhd:    *)
(* after a clock edge the signals of the fabric change one at a time, in   *)
(* any order, each driver reading what its inputs hold at that moment, and *)
(* the next edge comes when they have settled (the timing constraint of    *)
(* the .sdc files).  RtlSpec implements TdmaMin, where the fabric is the   *)
(* connection of t and t xor slot.                                         *)
(***************************************************************************)
EXTENDS TdmaMin, TdmaMinFabric

VARIABLE links      \* links[n][t]: the word on terminal t of row n

rtlVars == <<slot, fifo, recv, links>>

\* The words on the input terminals: push of the interfaces, and zeros on
\* the terminals ports .. terminals-1.
Inputs == [t \in Terminal |-> Push(t)]

Quiet == Settled(links, slot, Inputs)

RtlInit ==
  /\ Init
  /\ links = [n \in Level |-> [t \in Terminal |-> NoData]]

\* One signal assignment of the fabric takes effect.
Settle(n, t) ==
  /\ links[n][t] # Driven(links, slot, Inputs, n, t)
  /\ links' = [links EXCEPT ![n][t] = Driven(links, slot, Inputs, n, t)]
  /\ UNCHANGED vars

\* Mutant: the edge comes before the signals have settled.
RtlClockEarly(sends) ==
  /\ Edge(sends, [p \in Ports |-> links[0][p]])
  /\ UNCHANGED links

\* A rising edge: every interface samples its pull lines.
RtlClock(sends) ==
  /\ Quiet
  /\ Edge(sends, [p \in Ports |-> links[0][p]])
  /\ UNCHANGED links

RtlNext ==
  \/ \E n \in Level, t \in Terminal : Settle(n, t)
  \/ \E sends \in Traffic : RtlClock(sends)

RtlSpec == RtlInit /\ [][RtlNext]_rtlVars

\* Signals propagate, and the oscillator runs.
RtlFairSpec == RtlSpec /\ WF_rtlVars(RtlNext)

-----------------------------------------------------------------------------
\* The rows of the fabric carry words, and the clocked state is typed.
RtlTypeOK ==
  /\ TypeOK
  /\ links \in [Level -> [Terminal -> Data \cup {NoData}]]

\* Whenever the fabric is quiet, each terminal t finds the word of the
\* terminal t xor slot on its pull lines, for every stage of the shuffle.
FabricLaw == Quiet => RoutesByXor(links, slot, Inputs)

\* The fabric always becomes quiet again: no order of signal changes keeps
\* it busy (it has no combinational loop).
FabricSettles == []<>Quiet

\* The clocked view of the network, in terms of which its users reason.
Implements == Spec
=============================================================================
