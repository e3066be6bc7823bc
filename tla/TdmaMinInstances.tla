----------------------------- MODULE TdmaMinInstances -----------------------------
(* Ports and traffic for the TLC instances.                                  *)
EXTENDS TdmaMinTypes, TLC

CONSTANTS idle, far, w1, w2

\* The terminal with a number.
T(n) == [k \in Bit |-> (n \div (2 ^ k)) % 2 = 1]

\* The ports 0 .. n-1.
PortsUpTo(n) == {T(i) : i \in 0 .. n - 1}
ThreePorts == PortsUpTo(3)

To(n, w) == [addr |-> T(n), data |-> w]

\* Port 0 offers two words for port 1; port 1 one for port 0 and one for
\* terminal 3, that has no port; port 2 competes with port 0 for port 1,
\* and offers a word with an address out of range.
Offers == T(0) :> {To(1, w1), To(1, w2)}
          @@ T(1) :> {To(0, w1), To(3, w1)}
          @@ T(2) :> {To(1, w1), [addr |-> far, data |-> w1]}
Presented(offers) ==
  {sends \in [ThreePorts -> UNION {offers[p] : p \in ThreePorts} \cup {idle}] :
     \A p \in ThreePorts : sends[p] \in offers[p] \cup {idle}}
OfferedTraffic == Presented(Offers)

\* One word, over every stage of the fabric: each port has two destinations,
\* two ports meet at port 1, and terminal 3 has no port.
FabricTraffic ==
  Presented(T(0) :> {To(1, w1), To(2, w1)} @@ T(1) :> {To(0, w1), To(3, w1)}
            @@ T(2) :> {To(1, w1), To(2, w1)})
=============================================================================
