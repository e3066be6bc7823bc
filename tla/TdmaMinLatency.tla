--------------------------- MODULE TdmaMinLatency ---------------------------
(***************************************************************************)
(* TdmaMin observed by its users: how long a packet waits at the head of   *)
(* its fifo, and the flows of words the fifos hold (TdmaFlows).            *)
(***************************************************************************)
EXTENDS TdmaMin, SequenceFilter

CONSTANT Nobody    \* no address: where a port sends that sends nothing

ASSUME NobodyAssumption == Nobody \notin Address

VARIABLE waited     \* per port, the edges its head packet has been passed by

observed == <<slot, fifo, recv, waited>>

ObservedInit == Init /\ waited = [p \in Ports |-> 0]

\* The wait of a head with a Far address is not counted: it never ends.  The
\* count stops at a round of slots.
ObservedNext ==
  /\ Next
  /\ waited' = [p \in Ports |->
       IF fifo[p] = <<>> \/ Ready(p) \/ Head(fifo[p]).addr \in Far
       THEN 0
       ELSE IF waited[p] < 2 ^ Stages THEN waited[p] + 1 ELSE waited[p]]

ObservedSpec == ObservedInit /\ [][ObservedNext]_observed

\* The oscillator never stops.
ObservedFairSpec == ObservedSpec /\ WF_observed(ObservedNext)

-----------------------------------------------------------------------------
\* A packet at the head of a fifo is sent within one round of the slots: the
\* schedule passes it by at most 2^Stages - 1 times, whatever the traffic.
LatencyBound == \A p \in Ports : waited[p] < 2 ^ Stages

\* The words of a queue of packets that are on their way to one address.
DataTo(queue, a) ==
  LET toA == Filtered(queue, [addr : {a}, data : Data])
  IN  [i \in DOMAIN toA |-> toA[i].data]

Flows == INSTANCE TdmaFlows WITH
  Addresses <- Address,
  flow <- [p \in Ports |-> [a \in Address |-> DataTo(fifo[p], a)]],
  held <- [p \in Ports |-> Len(fifo[p])],
  got <- recv

\* Each pair of a port and an address is an ordered channel that delivers
\* every accepted word once, with its source.
ImplementsFlows == Flows!Spec
=============================================================================
