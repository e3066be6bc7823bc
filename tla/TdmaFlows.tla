----------------------------- MODULE TdmaFlows -----------------------------
(***************************************************************************)
(* What the network promises its cores, without slots, fifos or switches:  *)
(* a flow of words from each port to each address that is delivered in     *)
(* order, each word once, with its true source, at most one word per cycle *)
(* leaving a port and at most one arriving at an address.  A port holds at *)
(* most Depth words over all its flows.  A word for an address without a   *)
(* port leaves its flow and reaches nobody, or stays for ever.             *)
(***************************************************************************)
EXTENDS Naturals, Sequences

CONSTANTS Ports, Addresses, Data, NoData, Depth, Nobody

VARIABLES
  flow,     \* flow[s][a]: the words on their way from port s to address a
  held,     \* held[s]: how many they are, over all addresses
  got       \* got[d]: the word port d received in the last cycle, its source

flowVars == <<flow, held, got>>

Init ==
  /\ held = [s \in Ports |-> 0]
  /\ flow = [s \in Ports |-> [a \in Addresses |-> <<>>]]
  /\ got \in [Ports -> [addr : Addresses, data : {NoData}]]

\* The flows of s after a cycle in which its first word to the address out
\* leaves (none if out is Nobody).
Left(s, out) ==
  [a \in Addresses |-> IF a = out THEN Tail(flow[s][a]) ELSE flow[s][a]]

\* One cycle: out[s] is the address the port s sends a word to.
Cycle(out) ==
  /\ \A s \in Ports : out[s] # Nobody => flow[s][out[s]] # <<>>
  /\ \A s, t \in Ports : s # t /\ out[s] = out[t] => out[s] = Nobody
  /\ DOMAIN flow' = Ports /\ DOMAIN held' = Ports
  /\ \A s \in Ports :
       LET stay == IF out[s] = Nobody THEN held[s] ELSE held[s] - 1 IN
       \/ flow'[s] = Left(s, out[s]) /\ held'[s] = stay
       \/ /\ held[s] < Depth /\ held'[s] = stay + 1
          /\ \E a \in Addresses, w \in Data :
               flow'[s] = [Left(s, out[s]) EXCEPT ![a] = Append(@, w)]
  /\ \A d \in Ports :
       LET from == {s \in Ports : out[s] = d} IN
       /\ from = {} => got'[d].data = NoData
       /\ \A s \in from : got'[d] = [addr |-> s, data |-> Head(flow[s][d])]

Next == \E out \in [Ports -> Addresses \cup {Nobody}] : Cycle(out)

Spec == Init /\ [][Next]_flowVars
=============================================================================
