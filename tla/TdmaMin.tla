------------------------------ MODULE TdmaMin ------------------------------
(***************************************************************************)
(* The TDMA-MIN network on chip seen at its clock edges                    *)
(* (TdmaMin.vhd, TdmaMinSlots.vhd, TdmaMinInterface.vhd): a slot counter,  *)
(* and for each port an interface with a send fifo and a receive register. *)
(* In slot s the port p is connected to the port p xor s, in both          *)
(* directions; a packet waits at the head of its fifo for the slot that    *)
(* connects its port to its address.                                       *)
(*                                                                         *)
(* The switching fabric appears here by its law, Pull; TdmaMinRtl has the  *)
(* stages and switches of TdmaMinFabric.vhd and implements this module.    *)
(***************************************************************************)
EXTENDS TdmaMinTypes, Sequences

CONSTANTS
  Ports,    \* the terminals 0 .. ports-1 that have an interface
  Far,      \* 8-bit addresses with a bit set above the Stages low ones
  Data,     \* words with bit 31 set: what a send port can enqueue
  NoData,   \* the all-zero word on an idle link
  Idle,     \* a send port whose word has bit 31 clear
  Depth,    \* lpm_numwords of the send fifo
  Traffic   \* what the cores may present on all send ports in one cycle

Address == Terminal \cup Far
Packet  == [addr : Address, data : Data]

ASSUME PortsAssumption   == Ports \subseteq Terminal
ASSUME FarAssumption     == Far \cap Terminal = {}
ASSUME NoDataAssumption  == NoData \notin Data
ASSUME IdleAssumption    == Idle \notin Packet
ASSUME DepthAssumption   == Depth \in Nat \ {0}
ASSUME TrafficAssumption == Traffic \subseteq [Ports -> Packet \cup {Idle}]

VARIABLES
  slot,     \* the count of TdmaMinSlots
  fifo,     \* per port, the packets in its send fifo, oldest first
  recv      \* per port, the receive register: the source and its word

vars == <<slot, fifo, recv>>

Init ==
  /\ slot = Zero
  /\ fifo = [p \in Ports |-> <<>>]
  /\ recv = [p \in Ports |-> [addr |-> Zero, data |-> NoData]]

-----------------------------------------------------------------------------
(* The combinational part of an interface.                                 *)

\* Mutant: the port's own number is left out of its address.
PeerIgnoresId(p) == slot

\* addr: the terminal this port is connected to in the current slot.
Peer(p) == Xor(p, slot)

\* ready: the head packet is for the port connected now.  The comparison is
\* over all 8 bits, so a Far address is never connected.
Ready(p) == fifo[p] # <<>> /\ Head(fifo[p]).addr = Peer(p)

\* Mutant: the head is pushed without waiting for its slot.
PushUnready(t) ==
  IF t \in Ports /\ fifo[t] # <<>> THEN Head(fifo[t]).data ELSE NoData

\* push: the word on terminal t; zero when not ready, and on the terminals
\* without a port, which TdmaMinFabric ties to zero.
Push(t) == IF t \in Ports /\ Ready(t) THEN Head(fifo[t]).data ELSE NoData

\* pull: the word the fabric delivers to terminal t.
Pull(t) == Push(Xor(t, slot))

\* Mutant: the head is acknowledged whenever there is one.
PoppedUnready(p) == IF fifo[p] # <<>> THEN Tail(fifo[p]) ELSE fifo[p]

\* Mutant: a full fifo takes one word more.
AcceptsPastFull(p, s) == s # Idle /\ Len(fifo[p]) <= Depth

(* The send fifo at a clock edge: ack pops the head, and req enqueues the  *)
(* word on the send port unless the fifo is full.  full is left open, so   *)
(* the sender never learns of the drop, and the scfifo's overflow checking *)
(* looks at full alone: a full fifo that pops in this cycle drops as well. *)
Popped(p) == IF Ready(p) THEN Tail(fifo[p]) ELSE fifo[p]

Accepts(p, s) == s # Idle /\ Len(fifo[p]) < Depth

\* Mutant: the word enters the fifo at its head.
AfterEdgeLifo(p, s) == IF Accepts(p, s) THEN <<s>> \o Popped(p) ELSE Popped(p)

AfterEdge(p, s) == IF Accepts(p, s) THEN Append(Popped(p), s) ELSE Popped(p)

-----------------------------------------------------------------------------
(* One rising edge of the clock, with the words sends on the send ports.   *)
(* received is the word each port finds on its pull lines.                 *)
Edge(sends, received) ==
  /\ slot' = Increment(slot)
  /\ fifo' = [p \in Ports |-> AfterEdge(p, sends[p])]
  /\ recv' = [p \in Ports |-> [addr |-> Peer(p), data |-> received[p]]]

Clock(sends) == Edge(sends, [p \in Ports |-> Pull(p)])

Next == \E sends \in Traffic : Clock(sends)

Spec == Init /\ [][Next]_vars

-----------------------------------------------------------------------------
(* Properties.                                                             *)

\* The slot, fifos and receive registers hold values of their types, and no
\* fifo holds more than its capacity.
TypeOK ==
  /\ slot \in Terminal
  /\ fifo \in [Ports -> Seq(Packet)]
  /\ \A p \in Ports : Len(fifo[p]) <= Depth
  /\ recv \in [Ports -> [addr : Terminal, data : Data \cup {NoData}]]

\* No two interfaces drive the same destination in one slot: the schedule
\* needs no arbiter, whatever the heads of the fifos are.
NoCollision ==
  \A p, q \in Ports :
    p # q /\ Ready(p) /\ Ready(q) => Head(fifo[p]).addr # Head(fifo[q]).addr

\* The queue r is the queue q, with at most one packet more behind it.
Extended(q, r) ==
  /\ Len(r) \in {Len(q), Len(q) + 1}
  /\ \A i \in 1 .. Len(q) : r[i] = q[i]

\* A word that appears in a receive register is the head packet of the port
\* the register names as its source, was addressed to this port, and leaves
\* that port's fifo at the same edge: nothing is invented, misrouted,
\* mislabelled or delivered twice.
DeliveredIsSent ==
  [][\A d \in Ports : recv'[d].data # NoData =>
        LET s == recv'[d].addr IN
        /\ s \in Ports
        /\ fifo[s] # <<>>
        /\ Head(fifo[s]) = [addr |-> d, data |-> recv'[d].data]
        /\ Extended(Tail(fifo[s]), fifo'[s])]_vars

\* A head packet for an existing port either stays first in line, with all
\* that wait behind it, or arrives at that port at this very edge, labelled
\* with its source: the network itself loses nothing and reorders nothing.
SentIsDelivered ==
  [][\A s \in Ports :
        LET head == Head(fifo[s]) IN
        fifo[s] # <<>> /\ head.addr \in Ports =>
          \/ recv'[head.addr] = [addr |-> s, data |-> head.data]
          \/ Extended(fifo[s], fifo'[s])]_vars

\* A packet with a Far address that reaches the head of a fifo stays there:
\* from then on the port never sends again (head-of-line blocking, for which
\* the interface has no timeout).
FarHeadWedges ==
  [][\A p \in Ports :
        fifo[p] # <<>> /\ Head(fifo[p]).addr \in Far
        => fifo'[p] # <<>> /\ Head(fifo'[p]) = Head(fifo[p])]_vars

\* Every port is served again and again: its fifo becomes empty or its head
\* packet is sent, unless the head has a Far address.
HeadIsServed ==
  \A p \in Ports :
    []<>(fifo[p] = <<>> \/ Ready(p) \/ Head(fifo[p]).addr \in Far)
=============================================================================
