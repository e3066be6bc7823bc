--------------------------- MODULE TdmaMin_proofs ---------------------------
(***************************************************************************)
(* The safety of the TDMA-MIN network for every number of stages, every    *)
(* set of ports, every fifo depth and all traffic.                         *)
(***************************************************************************)
EXTENDS TdmaMin, InductionTheorems

\* The arithmetic of slots stays within the terminals.
LEMMA ZeroType == Zero \in Terminal
  BY DEF Zero, Terminal

LEMMA XorType ==
  ASSUME NEW a \in Terminal, NEW b \in Terminal
  PROVE  Xor(a, b) \in Terminal
  BY DEF Xor, Terminal

LEMMA IncrementType ==
  ASSUME NEW c \in Terminal
  PROVE  Increment(c) \in Terminal
  BY DEF Increment, Terminal

\* Connecting is symmetric: the peer of the peer is the port itself.
LEMMA XorCancels ==
  ASSUME NEW a \in Terminal, NEW b \in Terminal
  PROVE  Xor(Xor(a, b), b) = a
<1>1. \A k \in Bit : Xor(Xor(a, b), b)[k] = ((a[k] # b[k]) # b[k])
  BY DEF Xor
<1>2. \A k \in Bit : a[k] \in BOOLEAN /\ b[k] \in BOOLEAN
  BY DEF Terminal
<1>3. \A k \in Bit : Xor(Xor(a, b), b)[k] = a[k]
  BY <1>1, <1>2
<1>4. Xor(Xor(a, b), b) \in Terminal
  BY XorType
<1> QED
  BY <1>3, <1>4 DEF Terminal

\* In one slot, different ports have different peers.
LEMMA XorInjective ==
  ASSUME NEW a \in Terminal, NEW b \in Terminal, NEW s \in Terminal,
         Xor(a, s) = Xor(b, s)
  PROVE  a = b
  BY XorCancels

-----------------------------------------------------------------------------
(* The send fifo at an edge.                                               *)

\* Popping keeps the packets that wait, in their order.
LEMMA PoppedType ==
  ASSUME TypeOK, NEW p \in Ports
  PROVE  /\ Popped(p) \in Seq(Packet)
         /\ Ready(p) => fifo[p] # <<>> /\ Popped(p) = Tail(fifo[p])
                         /\ Len(Popped(p)) = Len(fifo[p]) - 1
         /\ ~ Ready(p) => Popped(p) = fifo[p]
<1>1. fifo[p] \in Seq(Packet)
  BY DEF TypeOK
<1>2. CASE Ready(p)
  <2>1. fifo[p] # <<>> /\ Popped(p) = Tail(fifo[p])
    BY <1>2 DEF Ready, Popped
  <2> QED
    BY <1>1, <1>2, <2>1, HeadTailProperties
<1>3. CASE ~ Ready(p)
  BY <1>1, <1>3 DEF Popped
<1> QED
  BY <1>2, <1>3

\* What the fifo holds after the edge is what was left in it, with at most
\* the presented packet behind; it never exceeds its depth.
LEMMA AfterEdgeExtends ==
  ASSUME TypeOK, NEW p \in Ports, NEW s \in Packet \cup {Idle}
  PROVE  /\ AfterEdge(p, s) \in Seq(Packet)
         /\ Len(AfterEdge(p, s)) <= Depth
         /\ Extended(Popped(p), AfterEdge(p, s))
<1>1. Popped(p) \in Seq(Packet) /\ Len(Popped(p)) <= Len(fifo[p])
  BY PoppedType, LenProperties DEF TypeOK
<1>2. Len(fifo[p]) \in Nat /\ Len(fifo[p]) <= Depth /\ Depth \in Nat
  BY LenProperties, DepthAssumption DEF TypeOK
<1>3. Len(Popped(p)) \in Nat
  BY <1>1, LenProperties
<1>4. CASE Accepts(p, s)
  <2>1. s \in Packet /\ Len(fifo[p]) < Depth
    BY <1>4 DEF Accepts
  <2>2. AfterEdge(p, s) = Append(Popped(p), s)
    BY <1>4 DEF AfterEdge
  <2>3. /\ AfterEdge(p, s) \in Seq(Packet)
        /\ Len(AfterEdge(p, s)) = Len(Popped(p)) + 1
        /\ \A i \in 1 .. Len(Popped(p)) : AfterEdge(p, s)[i] = Popped(p)[i]
    BY <1>1, <2>1, <2>2, AppendProperties
  <2> QED
    BY <1>1, <1>2, <1>3, <2>1, <2>3 DEF Extended
<1>5. CASE ~ Accepts(p, s)
  <2>1. AfterEdge(p, s) = Popped(p)
    BY <1>5 DEF AfterEdge
  <2> QED
    BY <1>1, <1>2, <1>3, <2>1 DEF Extended
<1> QED
  BY <1>4, <1>5

\* The packets of a fifo after the edge: those before it, each one place
\* further on if the head was popped, and the accepted one behind them.
LEMMA QueueStep ==
  ASSUME TypeOK, NEW p \in Ports, NEW s \in Packet \cup {Idle}
  PROVE  LET gone  == IF Ready(p) THEN 1 ELSE 0
             added == IF Accepts(p, s) THEN 1 ELSE 0
         IN  /\ gone <= Len(fifo[p])
             /\ Len(AfterEdge(p, s)) = Len(fifo[p]) - gone + added
             /\ \A i \in 1 .. Len(fifo[p]) - gone : AfterEdge(p, s)[i] = fifo[p][i + gone]
             /\ Accepts(p, s) => AfterEdge(p, s)[Len(fifo[p]) - gone + 1] = s
<1> DEFINE gone == IF Ready(p) THEN 1 ELSE 0
           n == Len(fifo[p])
<1>1. fifo[p] \in Seq(Packet) /\ n \in Nat
  BY LenProperties DEF TypeOK
<1>2. /\ Popped(p) \in Seq(Packet) /\ gone <= n /\ Len(Popped(p)) = n - gone
      /\ \A i \in 1 .. n - gone : Popped(p)[i] = fifo[p][i + gone]
  <2>1. CASE Ready(p)
    <3>1. fifo[p] # <<>> /\ Popped(p) = Tail(fifo[p])
      BY <2>1 DEF Ready, Popped
    <3> QED
      BY <1>1, <2>1, <3>1, HeadTailProperties, EmptySeq, LenProperties
  <2>2. CASE ~ Ready(p)
    <3>1. Popped(p) = fifo[p]
      BY <2>2 DEF Popped
    <3> QED
      BY <1>1, <2>2, <3>1
  <2> QED
    BY <2>1, <2>2
<1>3. CASE Accepts(p, s)
  <2> DEFINE r == Popped(p)
             q == AfterEdge(p, s)
  <2>1. s \in Packet /\ q = Append(r, s)
    BY <1>3 DEF Accepts, AfterEdge
  <2>2. r \in Seq(Packet) /\ Len(r) = n - gone
    BY <1>2
  <2> HIDE DEF r, q, n, gone
  <2>3. Len(q) = Len(r) + 1 /\ (\A i \in 1 .. Len(r) : q[i] = r[i]) /\ q[Len(r) + 1] = s
    BY <2>1, <2>2, AppendProperties
  <2>4. Len(q) = n - gone + 1 /\ (\A i \in 1 .. n - gone : q[i] = r[i]) /\ q[n - gone + 1] = s
    BY <2>2, <2>3
  <2> QED
    BY <1>2, <1>3, <2>4 DEF r, q, n, gone
<1>4. CASE ~ Accepts(p, s)
  <2>1. AfterEdge(p, s) = Popped(p)
    BY <1>4 DEF AfterEdge
  <2>2. n - gone + 0 = n - gone
    BY <1>1
  <2> QED
    BY <1>2, <1>4, <2>1, <2>2
<1> QED
  BY <1>3, <1>4

-----------------------------------------------------------------------------
\* The clocked state of the network stays within its types, and no fifo
\* exceeds its capacity.
LEMMA EdgeType ==
  ASSUME TypeOK, NEW sends \in [Ports -> Packet \cup {Idle}],
         NEW received \in [Ports -> Data \cup {NoData}], Edge(sends, received)
  PROVE  TypeOK'
<1>1. slot' \in Terminal
  BY IncrementType DEF TypeOK, Edge
<1>2. \A p \in Ports : sends[p] \in Packet \cup {Idle}
  OBVIOUS
<1>3. \A p \in Ports : /\ fifo'[p] \in Seq(Packet)
                       /\ Len(fifo'[p]) <= Depth
  BY <1>2, AfterEdgeExtends DEF Edge
<1>4. fifo' \in [Ports -> Seq(Packet)]
  BY <1>3 DEF Edge
<1>5. \A p \in Ports : Peer(p) \in Terminal
  BY XorType, PortsAssumption DEF Peer, TypeOK
<1>6. recv' \in [Ports -> [addr : Terminal, data : Data \cup {NoData}]]
  BY <1>5 DEF Edge
<1> QED
  BY <1>1, <1>3, <1>4, <1>6 DEF TypeOK

\* What an interface pushes, and what reaches a terminal, is a word.
LEMMA PushType ==
  ASSUME TypeOK, NEW t
  PROVE  Push(t) \in Data \cup {NoData}
<1>1. CASE t \in Ports /\ Ready(t)
  <2>1. fifo[t] \in Seq(Packet) /\ fifo[t] # <<>>
    BY <1>1 DEF TypeOK, Ready
  <2>2. Head(fifo[t]) \in Packet
    BY <2>1, HeadTailProperties
  <2> QED
    BY <1>1, <2>2 DEF Push, Packet
<1>2. CASE ~ (t \in Ports /\ Ready(t))
  BY <1>2 DEF Push
<1> QED
  BY <1>1, <1>2

LEMMA PullsType ==
  ASSUME TypeOK
  PROVE  [p \in Ports |-> Pull(p)] \in [Ports -> Data \cup {NoData}]
  BY PushType DEF Pull

\* The state starts and stays within its types.
LEMMA InitType == Init => TypeOK
<1> SUFFICES ASSUME Init PROVE TypeOK
  OBVIOUS
<1>1. fifo \in [Ports -> Seq(Packet)] /\ \A p \in Ports : Len(fifo[p]) = 0
  BY EmptySeq DEF Init
<1>2. recv \in [Ports -> [addr : Terminal, data : Data \cup {NoData}]]
  BY ZeroType DEF Init
<1> QED
  BY <1>1, <1>2, ZeroType, DepthAssumption DEF Init, TypeOK

LEMMA NextType == TypeOK /\ [Next]_vars => TypeOK'
<1> SUFFICES ASSUME TypeOK, [Next]_vars PROVE TypeOK'
  OBVIOUS
<1>1. CASE Next
  <2>1. PICK sends \in Traffic : Clock(sends)
    BY <1>1 DEF Next
  <2> QED
    BY <2>1, PullsType, EdgeType, TrafficAssumption DEF Clock
<1>2. CASE UNCHANGED vars
  BY <1>2 DEF vars, TypeOK
<1> QED
  BY <1>1, <1>2

\* The slot counter, the fifos and the receive registers keep their types
\* and no fifo overflows (TdmaMinInterface.vhd never writes a full fifo).
THEOREM TypeCorrect == Spec => []TypeOK
  BY InitType, NextType, PTL DEF Spec

-----------------------------------------------------------------------------
(* One packet per destination and slot.                                    *)

LEMMA TypeNoCollision == TypeOK => NoCollision
<1> SUFFICES ASSUME TypeOK, NEW p \in Ports, NEW q \in Ports,
                    Ready(p), Ready(q), Head(fifo[p]).addr = Head(fifo[q]).addr
             PROVE  p = q
  BY DEF NoCollision
<1>1. Xor(p, slot) = Xor(q, slot)
  BY DEF Ready, Peer
<1> QED
  BY <1>1, XorInjective, PortsAssumption DEF TypeOK

\* No two ports ever send to one destination in the same slot.
THEOREM CollisionFree == Spec => []NoCollision
  BY TypeCorrect, TypeNoCollision, PTL

-----------------------------------------------------------------------------
(* Delivery.  The steps are stated for an edge that samples the pull lines *)
(* of TdmaMin, because TdmaMinRtl takes the same edges, and for all words  *)
(* on the send ports, because AudioPath has those of its processors.       *)

AnySends == [Ports -> Packet \cup {Idle}]

\* A word on the pull lines of a port comes from a ready port.
LEMMA PullIsHead ==
  ASSUME TypeOK, NEW d \in Ports, Pull(d) # NoData
  PROVE  /\ Peer(d) \in Ports
         /\ Ready(Peer(d))
         /\ Head(fifo[Peer(d)]) = [addr |-> d, data |-> Pull(d)]
<1> DEFINE s == Peer(d)
<1>1. s \in Ports /\ Ready(s) /\ Pull(d) = Head(fifo[s]).data
  BY DEF Pull, Push, Peer
<1>2. Head(fifo[s]).addr = d
  BY <1>1, XorCancels, PortsAssumption DEF Ready, Peer, TypeOK
<1>3. Head(fifo[s]) \in Packet
  BY <1>1, HeadTailProperties DEF TypeOK, Ready
<1> QED
  BY <1>1, <1>2, <1>3 DEF Packet

\* A ready port with an address that has an interface is heard there.
LEMMA HeadIsPulled ==
  ASSUME TypeOK, NEW s \in Ports, Ready(s), Head(fifo[s]).addr \in Ports
  PROVE  LET d == Head(fifo[s]).addr IN
         Peer(d) = s /\ Pull(d) = Head(fifo[s]).data
<1>1. Head(fifo[s]).addr = Xor(s, slot)
  BY DEF Ready, Peer
<1>2. Xor(Xor(s, slot), slot) = s
  BY XorCancels, PortsAssumption DEF TypeOK
<1> QED
  BY <1>1, <1>2 DEF Peer, Pull, Push

LEMMA ClockDelivers ==
  ASSUME TypeOK, NEW sends \in AnySends, Clock(sends),
         NEW d \in Ports, recv'[d].data # NoData
  PROVE  LET s == recv'[d].addr IN
         /\ s \in Ports
         /\ fifo[s] # <<>>
         /\ Head(fifo[s]) = [addr |-> d, data |-> recv'[d].data]
         /\ Extended(Tail(fifo[s]), fifo'[s])
<1>1. recv'[d] = [addr |-> Peer(d), data |-> Pull(d)]
  BY DEF Clock, Edge
<1>2. /\ Peer(d) \in Ports
      /\ Ready(Peer(d))
      /\ Head(fifo[Peer(d)]) = [addr |-> d, data |-> Pull(d)]
  BY <1>1, PullIsHead
<1>3. fifo'[Peer(d)] = AfterEdge(Peer(d), sends[Peer(d)])
  BY <1>2 DEF Clock, Edge
<1>4. Extended(Tail(fifo[Peer(d)]), fifo'[Peer(d)])
  <2>1. sends[Peer(d)] \in Packet \cup {Idle}
    BY <1>2 DEF AnySends
  <2>2. Popped(Peer(d)) = Tail(fifo[Peer(d)])
    BY <1>2 DEF Popped
  <2> QED
    BY <1>2, <1>3, <2>1, <2>2, AfterEdgeExtends
<1> QED
  BY <1>1, <1>2, <1>4 DEF Ready

LEMMA ClockKeeps ==
  ASSUME TypeOK, NEW sends \in AnySends, Clock(sends),
         NEW s \in Ports, ~ Ready(s)
  PROVE  Extended(fifo[s], fifo'[s])
<1>1. sends[s] \in Packet \cup {Idle}
  BY DEF AnySends
<1>2. fifo'[s] = AfterEdge(s, sends[s]) /\ Popped(s) = fifo[s]
  BY DEF Clock, Edge, Popped
<1> QED
  BY <1>1, <1>2, AfterEdgeExtends

LEMMA ClockArrives ==
  ASSUME TypeOK, NEW sends \in AnySends, Clock(sends),
         NEW s \in Ports, fifo[s] # <<>>, Head(fifo[s]).addr \in Ports
  PROVE  LET head == Head(fifo[s]) IN
         \/ recv'[head.addr] = [addr |-> s, data |-> head.data]
         \/ Extended(fifo[s], fifo'[s])
<1>1. CASE Ready(s)
  BY <1>1, HeadIsPulled DEF Clock, Edge
<1>2. CASE ~ Ready(s)
  BY <1>2, ClockKeeps
<1> QED
  BY <1>1, <1>2

\* Every word received is the head packet of the port named as its source,
\* was addressed to the receiver, and leaves the fifo at that edge.
THEOREM Soundness == Spec => DeliveredIsSent
<1> DEFINE Step == \A d \in Ports : recv'[d].data # NoData =>
        LET s == recv'[d].addr IN
        /\ s \in Ports
        /\ fifo[s] # <<>>
        /\ Head(fifo[s]) = [addr |-> d, data |-> recv'[d].data]
        /\ Extended(Tail(fifo[s]), fifo'[s])
<1>1. TypeOK /\ [Next]_vars => [Step]_vars
  BY ClockDelivers, TrafficAssumption DEF Next, AnySends
<1> QED
  BY <1>1, TypeCorrect, PTL DEF Spec, DeliveredIsSent

\* Every head packet for an existing port stays first in line or arrives
\* there at this edge with its source.
THEOREM Completeness == Spec => SentIsDelivered
<1> DEFINE Step == \A s \in Ports :
        LET head == Head(fifo[s]) IN
        fifo[s] # <<>> /\ head.addr \in Ports =>
          \/ recv'[head.addr] = [addr |-> s, data |-> head.data]
          \/ Extended(fifo[s], fifo'[s])
<1>1. TypeOK /\ [Next]_vars => [Step]_vars
  BY ClockArrives, TrafficAssumption DEF Next, AnySends
<1> QED
  BY <1>1, TypeCorrect, PTL DEF Spec, SentIsDelivered

\* A head with an address above the terminals blocks its port for ever.
THEOREM Wedging == Spec => FarHeadWedges
<1> DEFINE Step == \A p \in Ports :
        fifo[p] # <<>> /\ Head(fifo[p]).addr \in Far
        => fifo'[p] # <<>> /\ Head(fifo'[p]) = Head(fifo[p])
<1>1. ASSUME TypeOK, NEW sends \in Traffic, Clock(sends),
             NEW p \in Ports, fifo[p] # <<>>, Head(fifo[p]).addr \in Far
      PROVE  fifo'[p] # <<>> /\ Head(fifo'[p]) = Head(fifo[p])
  <2>1. Peer(p) \in Terminal
    BY XorType, PortsAssumption, <1>1 DEF Peer, TypeOK
  <2>2. ~ Ready(p)
    BY <1>1, <2>1, FarAssumption DEF Ready
  <2>3. Extended(fifo[p], fifo'[p])
    BY <1>1, <2>2, ClockKeeps, TrafficAssumption DEF AnySends
  <2>4. fifo[p] \in Seq(Packet) /\ fifo'[p] \in Seq(Packet)
    BY <1>1, NextType DEF TypeOK, Next
  <2>5. Len(fifo[p]) \in Nat \ {0} /\ Len(fifo'[p]) \in Nat
    BY <1>1, <2>4, EmptySeq, LenProperties
  <2>6. Len(fifo'[p]) >= 1 /\ fifo'[p][1] = fifo[p][1]
    BY <2>3, <2>5 DEF Extended
  <2>7. fifo'[p] # <<>>
    BY <2>6, EmptySeq
  <2> QED
    BY <2>6, <2>7
<1>2. TypeOK /\ [Next]_vars => [Step]_vars
  BY <1>1 DEF Next
<1> QED
  BY <1>2, TypeCorrect, PTL DEF Spec, FarHeadWedges

-----------------------------------------------------------------------------
(* The number of a slot.                                                   *)

\* What bit k adds to the number.
Weight(v, k) == IF v[k] THEN Power(k) ELSE 0

\* low[k] is the number that the k lowest bits of v make, for k up to n.
Numbers(low, v, n) ==
  low = [k \in 0 .. n |-> IF k = 0 THEN 0 ELSE low[k - 1] + Weight(v, k - 1)]

Low(v) ==
  LET low[k \in 0 .. Stages] == IF k = 0 THEN 0 ELSE low[k - 1] + Weight(v, k - 1)
  IN  low

Number(v) == Low(v)[Stages]

LEMMA NumbersExist ==
  ASSUME NEW v, NEW n \in Nat
  PROVE  \E low : Numbers(low, v, n)
<1> DEFINE P == {m \in 0 .. n : \E low : Numbers(low, v, m)}
<1>1. 0 \in P
  <2> DEFINE low == [k \in 0 .. 0 |-> 0]
  <2>1. Numbers(low, v, 0)
    BY DEF Numbers
  <2> QED
    BY <2>1
<1>2. ASSUME NEW m \in 0 .. n - 1, m \in P PROVE m + 1 \in P
  <2>1. PICK low : Numbers(low, v, m)
    BY <1>2
  <2> DEFINE g == [k \in 0 .. m + 1 |-> IF k \in 0 .. m THEN low[k] ELSE low[m] + Weight(v, m)]
  <2>2. \A k \in 0 .. m : g[k] = low[k]
    OBVIOUS
  <2>3. g[m + 1] = low[m] + Weight(v, m)
    OBVIOUS
  <2>4. g = [k \in 0 .. m + 1 |-> g[k]]
    OBVIOUS
  <2> HIDE DEF g
  <2>5. ASSUME NEW k \in 0 .. m + 1
        PROVE  g[k] = IF k = 0 THEN 0 ELSE g[k - 1] + Weight(v, k - 1)
    <3>1. CASE k = m + 1
      <4>1. k - 1 = m /\ m \in 0 .. m /\ k # 0
        BY <3>1
      <4> QED
        BY <2>2, <2>3, <3>1, <4>1
    <3>2. CASE k \in 0 .. m
      <4>1. low[k] = IF k = 0 THEN 0 ELSE low[k - 1] + Weight(v, k - 1)
        BY <2>1, <3>2 DEF Numbers
      <4>2. k # 0 => k - 1 \in 0 .. m
        BY <3>2
      <4> QED
        BY <2>2, <3>2, <4>1, <4>2
    <3> QED
      BY <3>1, <3>2
  <2>6. Numbers(g, v, m + 1)
    BY <2>4, <2>5 DEF Numbers
  <2> QED
    BY <2>6
<1>3. n \in P
  <2> HIDE DEF P
  <2>1. \A m \in 0 .. n : m \in P
    BY <1>1, <1>2, UpwardInduction
  <2> QED
    BY <2>1
<1> QED
  BY <1>3

\* Each bit adds its weight to the number of the bits below.
LEMMA LowStep ==
  ASSUME NEW v
  PROVE  /\ Low(v)[0] = 0
         /\ \A k \in Bit : Low(v)[k + 1] = Low(v)[k] + Weight(v, k)
<1>1. Stages \in Nat
  BY StagesAssumption
<1>2. \E low : Numbers(low, v, Stages)
  BY <1>1, NumbersExist
<1>3. Numbers(Low(v), v, Stages)
  <2>1. Low(v) = CHOOSE low : Numbers(low, v, Stages)
    BY DEF Low, Numbers
  <2> QED
    BY <1>2, <2>1
<1>4. \A k \in Bit : k + 1 \in 0 .. Stages /\ k + 1 # 0 /\ (k + 1) - 1 = k
  BY <1>1 DEF Bit
<1>5. ASSUME NEW k \in 0 .. Stages
      PROVE  Low(v)[k] = IF k = 0 THEN 0 ELSE Low(v)[k - 1] + Weight(v, k - 1)
  BY <1>3 DEF Numbers
<1>6. Low(v)[0] = 0
  BY <1>1, <1>5
<1>7. ASSUME NEW k \in Bit PROVE Low(v)[k + 1] = Low(v)[k] + Weight(v, k)
  BY <1>4, <1>5
<1> QED
  BY <1>6, <1>7

\* The k lowest bits are all set.
AllSet(v, k) == \A j \in 0 .. k - 1 : v[j]

LEMMA AllSetStep ==
  ASSUME NEW v, NEW k \in Nat
  PROVE  AllSet(v, 0) /\ (AllSet(v, k + 1) <=> AllSet(v, k) /\ v[k])
<1>1. 0 .. (k + 1) - 1 = (0 .. k - 1) \cup {k}
  OBVIOUS
<1> QED
  BY <1>1 DEF AllSet

\* k bits make a number below 2 ^ k; the largest one when all are set.
LEMMA LowRange ==
  ASSUME NEW v \in Terminal
  PROVE  \A k \in 0 .. Stages : /\ Low(v)[k] \in 0 .. Power(k) - 1
                                /\ AllSet(v, k) <=> Low(v)[k] = Power(k) - 1
<1> DEFINE P == {k \in 0 .. Stages : /\ Low(v)[k] \in 0 .. Power(k) - 1
                                     /\ AllSet(v, k) <=> Low(v)[k] = Power(k) - 1}
<1>1. Stages \in Nat
  BY StagesAssumption
<1>2. 0 \in P
  BY <1>1, LowStep, Powers, AllSetStep
<1>3. ASSUME NEW m \in 0 .. Stages - 1, m \in P PROVE m + 1 \in P
  <2>1. m \in Bit /\ m \in Nat /\ m + 1 \in 0 .. Stages
    BY <1>1 DEF Bit
  <2>2. v[m] \in BOOLEAN
    BY <2>1 DEF Terminal
  <2>3. Low(v)[m + 1] = Low(v)[m] + Weight(v, m)
    BY <2>1, LowStep
  <2>4. Power(m) \in Nat \ {0} /\ Power(m + 1) = 2 * Power(m)
    BY <2>1, Powers
  <2>5. AllSet(v, m + 1) <=> AllSet(v, m) /\ v[m]
    BY <2>1, AllSetStep
  <2>6. CASE v[m]
    <3>1. Weight(v, m) = Power(m)
      BY <2>6 DEF Weight
    <3> QED
      BY <1>3, <2>1, <2>3, <2>4, <2>5, <2>6, <3>1
  <2>7. CASE ~ v[m]
    <3>1. Weight(v, m) = 0
      BY <2>7 DEF Weight
    <3> QED
      BY <1>3, <2>1, <2>3, <2>4, <2>5, <2>7, <3>1
  <2> QED
    BY <2>2, <2>6, <2>7
<1> HIDE DEF P
<1>4. \A k \in 0 .. Stages : k \in P
  BY <1>1, <1>2, <1>3, UpwardInduction
<1> QED
  BY <1>4 DEF P

\* The lowest k bits of a counter count, and wrap when all of them are set.
LEMMA LowIncrement ==
  ASSUME NEW v \in Terminal
  PROVE  \A k \in 0 .. Stages :
           Low(Increment(v))[k] = IF AllSet(v, k) THEN 0 ELSE Low(v)[k] + 1
<1> DEFINE u == Increment(v)
           P == {k \in 0 .. Stages :
                   Low(u)[k] = IF AllSet(v, k) THEN 0 ELSE Low(v)[k] + 1}
<1>1. Stages \in Nat
  BY StagesAssumption
<1>2. u \in Terminal /\ \A k \in Bit : u[k] = (v[k] # AllSet(v, k))
  BY IncrementType DEF Increment, AllSet
<1> HIDE DEF u
<1>3. 0 \in P
  BY <1>1, LowStep, AllSetStep
<1>4. ASSUME NEW m \in 0 .. Stages - 1, m \in P PROVE m + 1 \in P
  <2>1. m \in Bit /\ m \in Nat /\ m \in 0 .. Stages /\ m + 1 \in 0 .. Stages
    BY <1>1 DEF Bit
  <2>2. v[m] \in BOOLEAN /\ AllSet(v, m) \in BOOLEAN /\ u[m] = (v[m] # AllSet(v, m))
    BY <1>2, <2>1 DEF Terminal, AllSet
  <2>3. Low(v)[m + 1] = Low(v)[m] + Weight(v, m) /\ Low(u)[m + 1] = Low(u)[m] + Weight(u, m)
    BY <2>1, LowStep
  <2>4. Power(m) \in Nat \ {0}
    BY <2>1, Powers
  <2>5. AllSet(v, m + 1) <=> AllSet(v, m) /\ v[m]
    BY <2>1, AllSetStep
  <2>6. Low(v)[m] \in Nat /\ (AllSet(v, m) <=> Low(v)[m] = Power(m) - 1)
    BY <2>1, <2>4, LowRange
  <2>7. CASE v[m]
    <3>1. Weight(v, m) = Power(m)
      BY <2>7 DEF Weight
    <3>2. CASE AllSet(v, m)
      <4>1. Weight(u, m) = 0
        BY <2>2, <2>7, <3>2, Zenon DEF Weight
      <4> QED
        BY <1>4, <2>1, <2>3, <2>5, <2>7, <3>2, <4>1
    <3>3. CASE ~ AllSet(v, m)
      <4>1. Weight(u, m) = Power(m)
        BY <2>2, <2>7, <3>3, Zenon DEF Weight
      <4> QED
        BY <1>4, <2>1, <2>3, <2>4, <2>5, <2>6, <3>1, <3>3, <4>1
    <3> QED
      BY <3>2, <3>3
  <2>8. CASE ~ v[m]
    <3>1. Weight(v, m) = 0
      BY <2>8 DEF Weight
    <3>2. CASE AllSet(v, m)
      <4>1. Weight(u, m) = Power(m)
        BY <2>2, <2>8, <3>2, Zenon DEF Weight
      <4> QED
        BY <1>4, <2>1, <2>3, <2>4, <2>5, <2>6, <2>8, <3>1, <3>2, <4>1
    <3>3. CASE ~ AllSet(v, m)
      <4>1. Weight(u, m) = 0
        BY <2>2, <2>8, <3>3, Zenon DEF Weight
      <4> QED
        BY <1>4, <2>1, <2>3, <2>5, <2>6, <3>1, <3>3, <4>1
    <3> QED
      BY <3>2, <3>3
  <2> QED
    BY <2>2, <2>7, <2>8
<1> HIDE DEF P
<1>5. \A k \in 0 .. Stages : k \in P
  BY <1>1, <1>3, <1>4, UpwardInduction
<1> QED
  BY <1>5 DEF P, u

\* Vectors that make one number are equal.
LEMMA NumberInjective ==
  ASSUME NEW u \in Terminal, NEW v \in Terminal, Number(u) = Number(v)
  PROVE  u = v
<1> DEFINE P == {k \in 0 .. Stages : Low(u)[k] = Low(v)[k]
                                     /\ \A j \in k .. Stages - 1 : u[j] = v[j]}
<1>1. Stages \in Nat
  BY StagesAssumption
<1>2. Stages \in P
  BY <1>1 DEF Number
<1>3. ASSUME NEW m \in 0 .. Stages - 1, m + 1 \in P PROVE m \in P
  <2>1. m \in Bit /\ m \in Nat /\ m \in 0 .. Stages
    BY <1>1 DEF Bit
  <2>2. u[m] \in BOOLEAN /\ v[m] \in BOOLEAN
    BY <2>1 DEF Terminal
  <2>3. Low(v)[m + 1] = Low(v)[m] + Weight(v, m) /\ Low(u)[m + 1] = Low(u)[m] + Weight(u, m)
    BY <2>1, LowStep
  <2>4. Power(m) \in Nat \ {0} /\ Low(u)[m] \in 0 .. Power(m) - 1 /\ Low(v)[m] \in 0 .. Power(m) - 1
    BY <2>1, Powers, LowRange
  <2>5. Low(u)[m] + Weight(u, m) = Low(v)[m] + Weight(v, m)
    BY <1>3, <2>3
  <2>6. /\ u[m] => Weight(u, m) = Power(m)
        /\ ~ u[m] => Weight(u, m) = 0
        /\ v[m] => Weight(v, m) = Power(m)
        /\ ~ v[m] => Weight(v, m) = 0
    BY DEF Weight
  <2>7. (u[m] <=> v[m]) /\ Low(u)[m] = Low(v)[m]
    BY <2>4, <2>5, <2>6
  <2>8. u[m] = v[m]
    BY <2>2, <2>7, Zenon
  <2>9. \A j \in m .. Stages - 1 : j = m \/ j \in m + 1 .. Stages - 1
    BY <1>1, <2>1
  <2> QED
    BY <1>3, <2>1, <2>7, <2>8, <2>9
<1>4. 0 \in P
  <2> HIDE DEF P
  <2>1. \A m \in 0 .. Stages : m \in P
    BY <1>1, <1>2, <1>3, DownwardInduction
  <2> QED
    BY <1>1, <2>1
<1>5. \A j \in Bit : u[j] = v[j]
  BY <1>4 DEF Bit
<1> QED
  BY <1>5 DEF Terminal

\* The slots from s until t.
Distance(s, t) ==
  IF Number(s) <= Number(t) THEN Number(t) - Number(s)
  ELSE Power(Stages) + Number(t) - Number(s)

LEMMA NumberRange ==
  ASSUME NEW v \in Terminal
  PROVE  Number(v) \in 0 .. Power(Stages) - 1 /\ Power(Stages) \in Nat \ {0}
<1>1. Stages \in Nat /\ Stages \in 0 .. Stages
  BY StagesAssumption
<1>2. Low(v)[Stages] \in 0 .. Power(Stages) - 1
  BY <1>1, LowRange
<1> QED
  BY <1>1, <1>2, Powers DEF Number

LEMMA DistanceRange ==
  ASSUME NEW s \in Terminal, NEW t \in Terminal
  PROVE  Distance(s, t) \in 0 .. Power(Stages) - 1
  BY NumberRange DEF Distance

\* Every slot is nearer to each other one than the slot before it.
LEMMA DistanceShrinks ==
  ASSUME NEW s \in Terminal, NEW t \in Terminal, s # t
  PROVE  Distance(Increment(s), t) = Distance(s, t) - 1
<1> DEFINE round == Power(Stages)
           last == AllSet(s, Stages)
<1>1. Stages \in 0 .. Stages
  BY StagesAssumption
<1>2. Number(Increment(s)) = IF last THEN 0 ELSE Number(s) + 1
  BY <1>1, LowIncrement DEF Number
<1>3. last <=> Number(s) = round - 1
  BY <1>1, LowRange DEF Number
<1>4. Number(s) \in 0 .. round - 1 /\ Number(t) \in 0 .. round - 1 /\ round \in Nat \ {0}
  BY NumberRange
<1>5. Number(s) # Number(t)
  BY NumberInjective
<1> HIDE DEF last, round
<1>6. CASE last
  BY <1>2, <1>3, <1>4, <1>5, <1>6 DEF Distance, round
<1>7. CASE ~ last
  BY <1>2, <1>3, <1>4, <1>5, <1>7 DEF Distance, round
<1> QED
  BY <1>6, <1>7

-----------------------------------------------------------------------------
(* The slot of a head packet.                                              *)

\* The slot that connects the port with the address of its head.
Target(p) == Xor(p, Head(fifo[p]).addr)

LEMMA TargetType ==
  ASSUME NEW p \in Ports, TypeOK, Head(fifo[p]).addr \in Terminal
  PROVE  Target(p) \in Terminal
  BY XorType, PortsAssumption DEF Target, TypeOK

\* A port is ready when the slot of its head comes.
LEMMA TargetReady ==
  ASSUME NEW p \in Ports, TypeOK, fifo[p] # <<>>, Head(fifo[p]).addr \in Terminal,
         slot = Target(p)
  PROVE  Ready(p)
<1> DEFINE a == Head(fifo[p]).addr
<1>1. p \in Terminal /\ a \in Terminal
  BY PortsAssumption
<1> HIDE DEF a
<1>2. Xor(p, Xor(p, a)) = a
  <2>1. Xor(p, a) = Xor(a, p) /\ Xor(p, Xor(a, p)) = Xor(Xor(a, p), p)
    BY <1>1 DEF Xor, Terminal
  <2> QED
    BY <1>1, <2>1, XorCancels
<1> QED
  BY <1>2 DEF a, Ready, Peer, Target
=============================================================================
