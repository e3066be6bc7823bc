------------------------ MODULE TdmaMinLayers_proofs ------------------------
(***************************************************************************)
(* What is built on TdmaMin, for every number of stages, every set of      *)
(* ports and all traffic.  Above it: how long a packet waits at the head   *)
(* of its fifo, and that the network is an ordered channel from each port  *)
(* to each address (TdmaFlows).  Below it: the perfect-shuffle fabric of   *)
(* TdmaMinFabric.vhd, once quiet, connects each terminal t with t xor      *)
(* slot, and so the network with its fabric implements TdmaMin.            *)
(***************************************************************************)
EXTENDS TdmaMinLatency, TdmaMinRtl, TdmaMin_proofs

-----------------------------------------------------------------------------
(* The wait of a head packet.                                              *)

\* A head packet for a terminal has not been passed by more often than the
\* slots of a round that are over once its own has come.
Waiting ==
  \A p \in Ports :
    /\ waited[p] \in 0 .. Power(Stages) - 1
    /\ fifo[p] # <<>> /\ Head(fifo[p]).addr \in Terminal =>
         waited[p] + Distance(slot, Target(p)) < Power(Stages)

LEMMA ObservedType == ObservedSpec => []TypeOK
<1>1. ObservedInit => TypeOK
  BY InitType DEF ObservedInit
<1>2. TypeOK /\ [ObservedNext]_observed => TypeOK'
  BY NextType DEF ObservedNext, observed, vars
<1> QED
  BY <1>1, <1>2, PTL DEF ObservedSpec

LEMMA InitWaiting == ObservedInit => Waiting
<1> SUFFICES ASSUME ObservedInit PROVE Waiting
  OBVIOUS
<1>1. Power(Stages) \in Nat \ {0}
  BY NumberRange, ZeroType
<1>2. \A p \in Ports : waited[p] = 0 /\ fifo[p] = <<>>
  BY DEF ObservedInit, Init
<1> QED
  BY <1>1, <1>2 DEF Waiting

LEMMA NextWaiting ==
  ASSUME TypeOK, TypeOK', Waiting, ObservedNext, NEW p \in Ports
  PROVE  /\ waited'[p] \in 0 .. Power(Stages) - 1
         /\ fifo'[p] # <<>> /\ Head(fifo'[p]).addr \in Terminal =>
              waited'[p] + Distance(slot', Target(p)') < Power(Stages)
<1> DEFINE round == Power(Stages)
           counts == ~ (fifo[p] = <<>> \/ Ready(p) \/ Head(fifo[p]).addr \in Far)
<1>1. waited'[p] = IF ~ counts THEN 0
                   ELSE IF waited[p] < round THEN waited[p] + 1 ELSE waited[p]
  BY DEF ObservedNext, Power
<1>2. round \in Nat \ {0} /\ waited[p] \in 0 .. round - 1
  BY NumberRange, ZeroType DEF Waiting
<1>3. PICK sends \in Traffic : Clock(sends)
  BY DEF ObservedNext, Next
<1>4. slot' = Increment(slot) /\ slot \in Terminal /\ slot' \in Terminal
  BY <1>3 DEF Clock, Edge, TypeOK
<1>5. CASE ~ counts
  <2>1. waited'[p] = 0
    BY <1>1, <1>5
  <2>2. ASSUME fifo'[p] # <<>>, Head(fifo'[p]).addr \in Terminal
        PROVE  Distance(slot', Target(p)') < round
    <3>1. Target(p)' \in Terminal
      BY <2>2, XorType, PortsAssumption DEF Target
    <3>2. Distance(slot', Target(p)') \in 0 .. Power(Stages) - 1
      BY <1>4, <3>1, DistanceRange
    <3> QED
      BY <1>2, <3>2
  <2>3. ASSUME fifo'[p] # <<>>, Head(fifo'[p]).addr \in Terminal
        PROVE  Distance(slot', Target(p)') \in Nat
    <3>1. Target(p)' \in Terminal
      BY <2>3, XorType, PortsAssumption DEF Target
    <3> QED
      BY <1>2, <1>4, <3>1, DistanceRange
  <2> QED
    BY <1>2, <2>1, <2>2, <2>3
<1>6. CASE counts
  <2>1. fifo[p] # <<>> /\ ~ Ready(p) /\ Head(fifo[p]).addr \notin Far
    BY <1>6
  <2>2. fifo[p] \in Seq(Packet) /\ fifo'[p] \in Seq(Packet)
    BY DEF TypeOK
  <2>3. Head(fifo[p]).addr \in Terminal
    <3>1. Head(fifo[p]) \in Packet
      BY <2>1, <2>2, HeadTailProperties
    <3> QED
      BY <2>1, <3>1 DEF Packet, Address
  <2>4. waited'[p] = waited[p] + 1
    BY <1>1, <1>2, <1>6
  <2>5. Extended(fifo[p], fifo'[p])
    BY <1>3, <2>1, ClockKeeps, TrafficAssumption DEF AnySends
  <2>6. fifo'[p] # <<>> /\ Head(fifo'[p]) = Head(fifo[p])
    <3>1. Len(fifo[p]) \in Nat \ {0} /\ Len(fifo'[p]) \in Nat
      BY <2>1, <2>2, EmptySeq, LenProperties
    <3>2. Len(fifo'[p]) >= 1 /\ fifo'[p][1] = fifo[p][1]
      BY <2>5, <3>1 DEF Extended
    <3>3. fifo'[p] # <<>>
      BY <3>2, EmptySeq
    <3> QED
      BY <3>2, <3>3
  <2>7. Target(p)' = Target(p) /\ Target(p) \in Terminal
    BY <2>3, <2>6, TargetType DEF Target
  <2>8. slot # Target(p)
    BY <2>1, <2>3, TargetReady
  <2>9. Distance(slot', Target(p)') = Distance(slot, Target(p)) - 1
    BY <1>4, <2>7, <2>8, DistanceShrinks
  <2>10. waited[p] + Distance(slot, Target(p)) < round
    BY <2>1, <2>3 DEF Waiting
  <2>11. /\ Distance(slot, Target(p)) \in 0 .. round - 1
         /\ Distance(slot', Target(p)') \in 0 .. round - 1
    BY <1>4, <2>7, DistanceRange
  <2> HIDE DEF round, counts
  <2> QED
    BY <1>2, <2>4, <2>9, <2>10, <2>11 DEF round
<1> QED
  BY <1>5, <1>6

\* A packet at the head of a fifo is passed by less than a round of slots,
\* for every number of ports, whatever the other cores send.
THEOREM WaitsOneRound == ObservedSpec => []LatencyBound
<1>1. TypeOK /\ TypeOK' /\ Waiting /\ [ObservedNext]_observed => Waiting'
  <2> SUFFICES ASSUME TypeOK, TypeOK', Waiting, [ObservedNext]_observed PROVE Waiting'
    OBVIOUS
  <2>1. CASE ObservedNext
    BY <2>1, NextWaiting DEF Waiting
  <2>2. CASE UNCHANGED observed
    BY <2>2 DEF observed, Waiting, Target
  <2> QED
    BY <2>1, <2>2
<1>2. Waiting => LatencyBound
  <2>1. Power(Stages) \in Nat
    BY NumberRange, ZeroType
  <2> QED
    BY <2>1 DEF Waiting, LatencyBound, Power
<1> QED
  BY <1>1, <1>2, ObservedType, InitWaiting, PTL DEF ObservedSpec

-----------------------------------------------------------------------------
(* The words on their way to an address.                                   *)

LEMMA FilteredPackets ==
  ASSUME NEW q \in Seq(Packet), NEW a
  PROVE  Filtered(q, [addr : {a}, data : Data]) \in Seq([addr : {a}, data : Data])
<1> DEFINE S == [addr : {a}, data : Data]
<1>1. Filtered(q, S) \in Seq(Packet \cap S)
  BY FilteredType
<1> HIDE DEF S
<1>2. Seq(Packet \cap S) \subseteq Seq(S)
  BY SeqMonotonic
<1>3. Filtered(q, S) \in Seq(S)
  BY <1>1, <1>2
<1> QED
  BY <1>3 DEF S

LEMMA DataToType ==
  ASSUME NEW q \in Seq(Packet), NEW a
  PROVE  /\ DataTo(q, a) \in Seq(Data)
         /\ LET t == Filtered(q, [addr : {a}, data : Data]) IN
            /\ Len(DataTo(q, a)) = Len(t)
            /\ \A i \in 1 .. Len(t) : DataTo(q, a)[i] = t[i].data
<1> DEFINE S == [addr : {a}, data : Data]
           t == Filtered(q, S)
           d == DataTo(q, a)
<1>1. t \in Seq(S)
  BY FilteredPackets
<1>2. d = [i \in DOMAIN t |-> t[i].data]
  BY DEF DataTo
<1> HIDE DEF t, d, S
<1>3. Len(t) \in Nat /\ DOMAIN t = 1 .. Len(t) /\ \A i \in 1 .. Len(t) : t[i] \in S
  BY <1>1
<1>4. \A i \in 1 .. Len(t) : t[i].data \in Data
  BY <1>3 DEF S
<1>5. d \in [1 .. Len(t) -> Data]
  BY <1>2, <1>3, <1>4
<1>6. d \in Seq(Data) /\ Len(d) = Len(t)
  BY <1>3, <1>5
<1>7. \A i \in 1 .. Len(t) : d[i] = t[i].data
  BY <1>2, <1>3
<1> QED
  BY <1>6, <1>7 DEF d, t, S

LEMMA DataToEmpty == \A a : DataTo(<<>>, a) = <<>>
<1> SUFFICES ASSUME NEW a PROVE DataTo(<<>>, a) = <<>>
  OBVIOUS
<1>1. <<>> \in Seq(Packet) /\ Filtered(<<>>, [addr : {a}, data : Data]) = <<>>
  BY FilteredEmpty
<1>2. DataTo(<<>>, a) \in Seq(Data) /\ Len(DataTo(<<>>, a)) = 0
  BY <1>1, DataToType, EmptySeq
<1> QED
  BY <1>2, EmptySeq

\* A packet that enters the fifo enters the flow of its address, last.
LEMMA DataToAppend ==
  ASSUME NEW q \in Seq(Packet), NEW x \in Packet, NEW a
  PROVE  DataTo(Append(q, x), a) =
           IF x.addr = a THEN Append(DataTo(q, a), x.data) ELSE DataTo(q, a)
<1> DEFINE S == [addr : {a}, data : Data]
           t == Filtered(q, S)
           r == Append(q, x)
           u == Filtered(r, S)
<1>1. r \in Seq(Packet)
  BY AppendProperties
<1>2. x \in S <=> x.addr = a
  BY DEF Packet
<1>3. t \in Seq(S)
  BY FilteredPackets
<1>4. u = IF x \in S THEN Append(t, x) ELSE t
  BY FilteredAppend
<1>5. /\ DataTo(q, a) \in Seq(Data) /\ Len(DataTo(q, a)) = Len(t)
      /\ \A i \in 1 .. Len(t) : DataTo(q, a)[i] = t[i].data
  BY DataToType
<1>6. /\ DataTo(r, a) \in Seq(Data) /\ Len(DataTo(r, a)) = Len(u)
      /\ \A i \in 1 .. Len(u) : DataTo(r, a)[i] = u[i].data
  BY <1>1, DataToType
<1> HIDE DEF t, u, r, S
<1>7. CASE x \in S
  <2>1. /\ u = Append(t, x) /\ Len(u) = Len(t) + 1 /\ Len(t) \in Nat
        /\ u[Len(t) + 1] = x /\ \A i \in 1 .. Len(t) : u[i] = t[i]
    BY <1>3, <1>4, <1>7, AppendProperties
  <2> DEFINE d == DataTo(q, a)
             e == DataTo(r, a)
             f == Append(d, x.data)
  <2>2. x.data \in Data
    BY DEF Packet
  <2>3. /\ f \in Seq(Data) /\ Len(f) = Len(t) + 1 /\ f[Len(t) + 1] = x.data
        /\ \A i \in 1 .. Len(t) : f[i] = d[i]
    BY <1>5, <2>2, AppendProperties
  <2>4. \A i \in 1 .. Len(t) + 1 : i = Len(t) + 1 \/ i \in 1 .. Len(t)
    BY <2>1
  <2>5. e \in Seq(Data) /\ Len(e) = Len(t) + 1
    BY <1>6, <2>1
  <2>6. \A i \in 1 .. Len(t) + 1 : e[i] = u[i].data
    BY <1>6, <2>1
  <2>7. \A i \in 1 .. Len(t) : d[i] = t[i].data
    BY <1>5
  <2> HIDE DEF d, e, f
  <2>8. ASSUME NEW i \in 1 .. Len(t) + 1 PROVE e[i] = f[i]
    <3>1. CASE i = Len(t) + 1
      BY <2>1, <2>3, <2>6, <3>1
    <3>2. CASE i \in 1 .. Len(t)
      <4>1. e[i] = u[i].data /\ f[i] = d[i] /\ d[i] = t[i].data /\ u[i] = t[i]
        BY <2>1, <2>3, <2>6, <2>7, <3>2
      <4> QED
        BY <4>1
    <3> QED
      BY <2>4, <3>1, <3>2
  <2>9. e = f
    BY <2>3, <2>5, <2>8, SeqEqual
  <2> QED
    BY <1>2, <1>7, <2>9 DEF d, e, f, r
<1>8. CASE x \notin S
  <2>1. u = t
    BY <1>4, <1>8
  <2> DEFINE d == DataTo(q, a)
             e == DataTo(r, a)
  <2>2. d \in Seq(Data) /\ e \in Seq(Data) /\ Len(d) = Len(e)
        /\ \A i \in 1 .. Len(e) : e[i] = d[i]
    BY <1>5, <1>6, <2>1
  <2> HIDE DEF d, e
  <2>3. e = d
    BY <2>2, SeqEqual
  <2> QED
    BY <1>2, <1>8, <2>3 DEF d, e, r
<1> QED
  BY <1>7, <1>8

\* The head packet leaves the flow of its address, first; the other flows
\* stay.
LEMMA DataToTail ==
  ASSUME NEW q \in Seq(Packet), q # <<>>, NEW a
  PROVE  /\ Tail(q) \in Seq(Packet)
         /\ Head(q).addr = a =>
              /\ DataTo(q, a) # <<>>
              /\ Head(DataTo(q, a)) = Head(q).data
              /\ Tail(DataTo(q, a)) = DataTo(Tail(q), a)
         /\ Head(q).addr # a => DataTo(q, a) = DataTo(Tail(q), a)
<1> DEFINE S == [addr : {a}, data : Data]
           x == Head(q)
           r == Tail(q)
           t == Filtered(r, S)
           u == Filtered(q, S)
           d == DataTo(r, a)
           e == DataTo(q, a)
<1>1. x \in Packet /\ r \in Seq(Packet) /\ q = <<x>> \o r
  BY HeadTailProperties
<1>2. x \in S <=> x.addr = a
  BY <1>1 DEF Packet
<1>3. t \in Seq(S)
  BY <1>1, FilteredPackets
<1>4. u = IF x \in S THEN <<x>> \o t ELSE t
  <2> HIDE DEF x, r, S
  <2>1. Filtered(<<x>> \o r, S) = IF x \in S THEN <<x>> \o Filtered(r, S) ELSE Filtered(r, S)
    BY <1>1, FilteredCons
  <2> QED
    BY <1>1, <2>1
<1>5. d \in Seq(Data) /\ Len(d) = Len(t) /\ \A i \in 1 .. Len(t) : d[i] = t[i].data
  BY <1>1, DataToType
<1>6. e \in Seq(Data) /\ Len(e) = Len(u) /\ \A i \in 1 .. Len(u) : e[i] = u[i].data
  BY DataToType
<1> HIDE DEF t, u, r, S, d, e, x
<1>7. CASE x \in S
  <2>1. Len(t) \in Nat /\ Len(u) = Len(t) + 1 /\ u[1] = x /\ \A i \in 1 .. Len(t) : u[i + 1] = t[i]
    BY <1>3, <1>4, <1>7
  <2>2. Len(e) = Len(d) + 1 /\ Len(d) \in Nat /\ e # <<>>
    BY <1>5, <1>6, <2>1, EmptySeq
  <2>3. Head(e) = x.data
    <3>1. e[1] = u[1].data
      BY <1>6, <2>1
    <3> QED
      BY <1>6, <2>1, <2>2, <3>1
  <2>4. /\ Tail(e) \in Seq(Data) /\ Len(Tail(e)) = Len(d)
        /\ \A i \in 1 .. Len(d) : Tail(e)[i] = e[i + 1]
    BY <1>6, <2>2, HeadTailProperties
  <2>5. ASSUME NEW i \in 1 .. Len(d) PROVE Tail(e)[i] = d[i]
    <3>1. i \in 1 .. Len(t) /\ i + 1 \in 1 .. Len(u)
      BY <1>5, <2>1, <2>2
    <3>2. e[i + 1] = u[i + 1].data /\ u[i + 1] = t[i] /\ d[i] = t[i].data
      BY <1>5, <1>6, <2>1, <3>1
    <3> QED
      BY <2>4, <3>2
  <2>6. Tail(e) = d
    BY <1>5, <2>4, <2>5, SeqEqual
  <2> QED
    BY <1>1, <1>2, <1>7, <2>2, <2>3, <2>6 DEF x, r, d, e
<1>8. CASE x \notin S
  <2>1. u = t
    BY <1>4, <1>8
  <2>2. Len(e) = Len(d) /\ \A i \in 1 .. Len(e) : e[i] = d[i]
    BY <1>5, <1>6, <2>1
  <2>3. e = d
    BY <1>5, <1>6, <2>2, SeqEqual
  <2> QED
    BY <1>1, <1>2, <1>8, <2>3 DEF x, r, d, e
<1> QED
  BY <1>7, <1>8

-----------------------------------------------------------------------------
(* The network implements the flows.                                       *)

\* The flows of one queue, and of all fifos with the counts of their words:
\* what stands for flow and held of TdmaFlows.
FlowsOf(q) == [a \in Address |-> DataTo(q, a)]
flowOf == [p \in Ports |-> [a \in Address |-> DataTo(fifo[p], a)]]
heldOf == [p \in Ports |-> Len(fifo[p])]

\* Where each port sends a word in this slot.
Sending == [p \in Ports |-> IF Ready(p) THEN Peer(p) ELSE Nobody]

LEMMA SendingFacts ==
  ASSUME TypeOK, NEW p \in Ports
  PROVE  /\ Sending[p] \in Address \cup {Nobody}
         /\ Sending[p] # Nobody <=> Ready(p)
         /\ Ready(p) => Sending[p] = Peer(p) /\ fifo[p] # <<>> /\ Head(fifo[p]).addr = Peer(p)
         /\ Peer(p) \in Address
<1>1. Peer(p) \in Address
  BY XorType, PortsAssumption DEF Peer, TypeOK, Address
<1> QED
  BY <1>1, NobodyAssumption DEF Sending, Ready

\* What pops leaves its flow.
LEMMA PoppedFlows ==
  ASSUME TypeOK, NEW p \in Ports
  PROVE  FlowsOf(Popped(p)) = Flows!Left(p, Sending[p])
<1>1. Flows!Left(p, Sending[p]) =
        [a \in Address |-> IF a = Sending[p] THEN Tail(flowOf[p][a]) ELSE flowOf[p][a]]
  BY DEF Flows!Left, flowOf
<1>2. \A a \in Address : flowOf[p][a] = DataTo(fifo[p], a)
  BY DEF flowOf
<1>3. fifo[p] \in Seq(Packet)
  BY DEF TypeOK
<1>4. ASSUME NEW a \in Address
      PROVE  DataTo(Popped(p), a) = IF a = Sending[p] THEN Tail(flowOf[p][a]) ELSE flowOf[p][a]
  <2>1. CASE Ready(p)
    <3>1. Popped(p) = Tail(fifo[p]) /\ fifo[p] # <<>> /\ Head(fifo[p]).addr = Sending[p]
      BY <2>1, SendingFacts DEF Popped
    <3>2. CASE a = Sending[p]
      <4>1. Tail(DataTo(fifo[p], a)) = DataTo(Tail(fifo[p]), a)
        BY <1>3, <3>1, <3>2, DataToTail
      <4> QED
        BY <1>2, <3>1, <3>2, <4>1
    <3>3. CASE a # Sending[p]
      <4>1. DataTo(fifo[p], a) = DataTo(Tail(fifo[p]), a)
        BY <1>3, <3>1, <3>3, DataToTail
      <4> QED
        BY <1>2, <3>1, <3>3, <4>1
    <3> QED
      BY <3>2, <3>3
  <2>2. CASE ~ Ready(p)
    <3>1. Popped(p) = fifo[p] /\ a # Sending[p]
      BY <2>2, NobodyAssumption DEF Popped, Sending
    <3> QED
      BY <1>2, <3>1
  <2> QED
    BY <2>1, <2>2
<1> QED
  BY <1>1, <1>4 DEF FlowsOf

\* What enters the fifo enters the flow of its address.
LEMMA AppendFlows ==
  ASSUME NEW q \in Seq(Packet), NEW x \in Packet
  PROVE  /\ x.addr \in Address /\ x.data \in Data
         /\ FlowsOf(Append(q, x)) = [FlowsOf(q) EXCEPT ![x.addr] = Append(@, x.data)]
<1>1. x.addr \in Address /\ x.data \in Data
  BY DEF Packet
<1> DEFINE before == FlowsOf(q)
           after == [before EXCEPT ![x.addr] = Append(@, x.data)]
<1>2. before = [a \in Address |-> DataTo(q, a)]
  BY DEF FlowsOf
<1>3. ASSUME NEW a \in Address PROVE DataTo(Append(q, x), a) = after[a]
  <2>1. DataTo(Append(q, x), a) = IF x.addr = a THEN Append(DataTo(q, a), x.data) ELSE DataTo(q, a)
    BY DataToAppend
  <2> QED
    BY <1>1, <1>2, <2>1
<1>4. after = [a \in Address |-> after[a]]
  BY <1>2
<1> HIDE DEF after
<1>5. FlowsOf(Append(q, x)) = after
  BY <1>3, <1>4 DEF FlowsOf
<1> QED
  BY <1>1, <1>5 DEF after

\* What a cycle makes of the flows of port p, when its fifo becomes q.
Flowed(p, q) ==
  LET stay == IF Sending[p] = Nobody THEN Len(fifo[p]) ELSE Len(fifo[p]) - 1
      left == Flows!Left(p, Sending[p])
  IN \/ FlowsOf(q) = left /\ Len(q) = stay
     \/ /\ Len(fifo[p]) < Depth /\ Len(q) = stay + 1
        /\ \E a \in Address, w \in Data : FlowsOf(q) = [left EXCEPT ![a] = Append(@, w)]

LEMMA EdgeFlows ==
  ASSUME TypeOK, NEW p \in Ports, NEW s \in Packet \cup {Idle}
  PROVE  Flowed(p, AfterEdge(p, s))
<1> DEFINE stay == IF Sending[p] = Nobody THEN Len(fifo[p]) ELSE Len(fifo[p]) - 1
           left == Flows!Left(p, Sending[p])
<1>1. Popped(p) \in Seq(Packet) /\ Len(Popped(p)) = stay
  BY PoppedType, SendingFacts
<1>2. left = FlowsOf(Popped(p))
  BY PoppedFlows
<1> HIDE DEF left, stay
<1>3. CASE Accepts(p, s)
  <2>1. s \in Packet /\ Len(fifo[p]) < Depth /\ AfterEdge(p, s) = Append(Popped(p), s)
    BY <1>3 DEF Accepts, AfterEdge
  <2>2. Len(AfterEdge(p, s)) = stay + 1
    BY <1>1, <2>1, AppendProperties
  <2>3. /\ s.addr \in Address /\ s.data \in Data
        /\ FlowsOf(AfterEdge(p, s)) = [left EXCEPT ![s.addr] = Append(@, s.data)]
    BY <1>1, <1>2, <2>1, AppendFlows
  <2> QED
    BY <2>1, <2>2, <2>3 DEF left, stay, Flowed
<1>4. CASE ~ Accepts(p, s)
  BY <1>1, <1>2, <1>4 DEF AfterEdge, left, stay, Flowed
<1> QED
  BY <1>3, <1>4

\* What reaches a port is the head of the flow that sends to it.
LEMMA ArrivesFromFlow ==
  ASSUME TypeOK, NEW d \in Ports
  PROVE  /\ {s \in Ports : Sending[s] = d} = {} => Pull(d) = NoData
         /\ \A s \in Ports : Sending[s] = d =>
              Peer(d) = s /\ Pull(d) = Head(flowOf[s][d])
<1>1. d \in Terminal /\ d \in Address /\ d # Nobody
  BY PortsAssumption, NobodyAssumption DEF Address
<1>2. ASSUME Pull(d) # NoData PROVE \E s \in Ports : Sending[s] = d
  <2> DEFINE head == Head(fifo[Peer(d)])
  <2>1. Peer(d) \in Ports /\ Ready(Peer(d)) /\ head = [addr |-> d, data |-> Pull(d)]
    BY <1>2, PullIsHead
  <2>2. head.addr = d
    <3> HIDE DEF head
    <3> QED
      BY <2>1
  <2> QED
    BY <2>1, <2>2, SendingFacts
<1>3. ASSUME NEW s \in Ports, Sending[s] = d
      PROVE  Peer(d) = s /\ Pull(d) = Head(flowOf[s][d])
  <2>1. Ready(s) /\ fifo[s] # <<>> /\ Head(fifo[s]).addr = d
    BY <1>1, <1>3, SendingFacts
  <2>2. Peer(d) = s /\ Pull(d) = Head(fifo[s]).data
    BY <2>1, HeadIsPulled
  <2>3. Head(DataTo(fifo[s], d)) = Head(fifo[s]).data
    BY <2>1, DataToTail DEF TypeOK
  <2> QED
    BY <1>1, <2>2, <2>3 DEF flowOf
<1> QED
  BY <1>2, <1>3

LEMMA ClockFlows ==
  ASSUME TypeOK, NEW sends \in Traffic, Clock(sends), NEW CONSTANT out, out = Sending
  PROVE  Flows!Cycle(out)
<1>1. /\ fifo' = [p \in Ports |-> AfterEdge(p, sends[p])]
      /\ recv' = [p \in Ports |-> [addr |-> Peer(p), data |-> Pull(p)]]
  BY DEF Clock, Edge
<1>2. \A s \in Ports : out[s] # Nobody => flowOf[s][out[s]] # <<>>
  <2> SUFFICES ASSUME NEW s \in Ports, Sending[s] # Nobody
               PROVE  flowOf[s][Sending[s]] # <<>>
    OBVIOUS
  <2>1. Ready(s) /\ fifo[s] # <<>> /\ Head(fifo[s]).addr = Sending[s] /\ Sending[s] \in Address
    BY SendingFacts
  <2>2. DataTo(fifo[s], Sending[s]) # <<>>
    BY <2>1, DataToTail DEF TypeOK
  <2> QED
    BY <2>1, <2>2 DEF flowOf
<1>3. \A s, t \in Ports : s # t /\ out[s] = out[t] => out[s] = Nobody
  <2> SUFFICES ASSUME NEW s \in Ports, NEW t \in Ports, s # t,
                      Sending[s] = Sending[t], Sending[s] # Nobody
               PROVE  FALSE
    OBVIOUS
  <2>1. Ready(s) /\ Ready(t) /\ Peer(s) = Peer(t)
    BY SendingFacts
  <2> QED
    BY <2>1, XorInjective, PortsAssumption DEF Peer, TypeOK
<1>4. DOMAIN flowOf' = Ports /\ DOMAIN heldOf' = Ports
  BY DEF flowOf, heldOf
<1>5. \A s \in Ports :
        LET stay == IF out[s] = Nobody THEN heldOf[s] ELSE heldOf[s] - 1 IN
        \/ flowOf'[s] = Flows!Left(s, out[s]) /\ heldOf'[s] = stay
        \/ /\ heldOf[s] < Depth /\ heldOf'[s] = stay + 1
           /\ \E a \in Address, w \in Data :
                flowOf'[s] = [Flows!Left(s, out[s]) EXCEPT ![a] = Append(@, w)]
  <2> SUFFICES ASSUME NEW s \in Ports
               PROVE  LET stay == IF out[s] = Nobody THEN heldOf[s] ELSE heldOf[s] - 1 IN
        \/ flowOf'[s] = Flows!Left(s, out[s]) /\ heldOf'[s] = stay
        \/ /\ heldOf[s] < Depth /\ heldOf'[s] = stay + 1
           /\ \E a \in Address, w \in Data :
                flowOf'[s] = [Flows!Left(s, out[s]) EXCEPT ![a] = Append(@, w)]
    OBVIOUS
  <2>1. sends[s] \in Packet \cup {Idle} /\ fifo'[s] = AfterEdge(s, sends[s])
    BY <1>1, TrafficAssumption
  <2>2. Flowed(s, AfterEdge(s, sends[s]))
    BY <2>1, EdgeFlows
  <2> DEFINE q == fifo'[s]
  <2>3. q = AfterEdge(s, sends[s]) /\ flowOf'[s] = FlowsOf(q) /\ heldOf'[s] = Len(q)
        /\ heldOf[s] = Len(fifo[s])
    BY <2>1 DEF flowOf, heldOf, FlowsOf
  <2> HIDE DEF q
  <2>4. Flowed(s, q)
    BY <2>2, <2>3
  <2> QED
    BY <2>3, <2>4 DEF Flowed
<1>6. \A d \in Ports :
        LET from == {s \in Ports : out[s] = d} IN
        /\ from = {} => recv'[d].data = NoData
        /\ \A s \in from : recv'[d] = [addr |-> s, data |-> Head(flowOf[s][d])]
  BY <1>1, ArrivesFromFlow
<1> QED
  BY <1>2, <1>3, <1>4, <1>5, <1>6 DEF Flows!Cycle, flowOf, heldOf

LEMMA NextFlows ==
  ASSUME TypeOK, [ObservedNext]_observed
  PROVE  [Flows!Next]_(Flows!flowVars)
<1>1. CASE ObservedNext
  <2>1. PICK sends \in Traffic : Clock(sends)
    BY <1>1 DEF ObservedNext, Next
  <2>2. PICK out : out = Sending
    OBVIOUS
  <2>3. Flows!Cycle(out)
    BY <2>1, <2>2, ClockFlows
  <2>4. out \in [Ports -> Address \cup {Nobody}]
    BY <2>2, SendingFacts DEF Sending
  <2> QED
    BY <2>3, <2>4 DEF Flows!Next
<1>2. CASE UNCHANGED observed
  BY <1>2 DEF observed, Flows!flowVars
<1> QED
  BY <1>1, <1>2

LEMMA InitFlows == ObservedInit => Flows!Init
<1> SUFFICES ASSUME ObservedInit PROVE Flows!Init
  OBVIOUS
<1>1. \A p \in Ports : fifo[p] = <<>> /\ recv[p] = [addr |-> Zero, data |-> NoData]
  BY DEF ObservedInit, Init
<1>2. recv \in [Ports -> [addr : Address, data : {NoData}]]
  BY ZeroType DEF ObservedInit, Init, Address
<1>3. [p \in Ports |-> Len(fifo[p])] = [p \in Ports |-> 0]
  BY <1>1
<1>4. [p \in Ports |-> [a \in Address |-> DataTo(fifo[p], a)]]
        = [p \in Ports |-> [a \in Address |-> <<>>]]
  BY <1>1, DataToEmpty
<1> QED
  BY <1>2, <1>3, <1>4 DEF Flows!Init

\* From each port to each address the network is a channel: what the port's
\* fifo accepts arrives in order, once, labelled with its source, and at
\* most one word per slot leaves a port or reaches one.
THEOREM OrderedChannels == ObservedSpec => ImplementsFlows
  BY NextFlows, InitFlows, ObservedType, PTL DEF ObservedSpec, ImplementsFlows, Flows!Spec

-----------------------------------------------------------------------------
(* The fabric.                                                             *)

\* The input terminal whose word terminal t of row n carries: the Stages - n
\* stages above row n have rotated the terminal number by as many bits and
\* have xored each bit they brought round with their bit of the slot.
Origin(n, t) ==
  [j \in Bit |-> IF j < n THEN t[j + (Stages - n)] ELSE t[j - n] # slot[j]]

LEMMA OriginType ==
  ASSUME slot \in Terminal, NEW n \in Level, NEW t \in Terminal
  PROVE  Origin(n, t) \in Terminal
<1>1. \A j \in Bit : j < n => t[j + (Stages - n)] \in BOOLEAN
  BY StagesAssumption DEF Terminal, Bit, Level
<1> QED
  BY <1>1 DEF Origin, Terminal

LEMMA OriginTop ==
  ASSUME NEW t \in Terminal
  PROVE  Origin(Stages, t) = t
<1>1. \A j \in Bit : j < Stages /\ j + (Stages - Stages) = j
  BY StagesAssumption DEF Bit
<1> QED
  BY <1>1 DEF Origin, Terminal

LEMMA OriginBottom ==
  ASSUME slot \in Terminal, NEW t \in Terminal
  PROVE  Origin(0, t) = Xor(t, slot)
<1>1. \A j \in Bit : ~ (j < 0) /\ j - 0 = j
  BY StagesAssumption DEF Bit
<1> QED
  BY <1>1 DEF Origin, Xor

LEMMA SwitchInputType ==
  ASSUME NEW t \in Terminal, NEW u \in BOOLEAN
  PROVE  SwitchInput(t, u) \in Terminal
<1>1. \A k \in Bit : k # Stages - 1 => k + 1 \in Bit
  BY StagesAssumption DEF Bit
<1> QED
  BY <1>1 DEF SwitchInput, Terminal

\* A switch passes to the terminal t the word of the input that has the
\* lowest bit of t, xored with the control, as its highest bit.
LEMMA StageSelects ==
  ASSUME NEW s \in BOOLEAN, NEW i, NEW t \in Terminal
  PROVE  Stage(s, i, t) = i[SwitchInput(t, t[0] # s)]
<1>1. t[0] \in BOOLEAN
  BY StagesAssumption DEF Terminal, Bit
<1>2. CASE t[0] = TRUE /\ s = TRUE
  <2>1. (t[0] # s) = FALSE
    BY <1>2
  <2> QED
    BY <1>2, <2>1 DEF Stage, SwitchX, SwitchY
<1>3. CASE t[0] = TRUE /\ s = FALSE
  <2>1. (t[0] # s) = TRUE
    BY <1>3
  <2> QED
    BY <1>3, <2>1 DEF Stage, SwitchX, SwitchY
<1>4. CASE t[0] = FALSE /\ s = TRUE
  <2>1. (t[0] # s) = TRUE
    BY <1>4
  <2> QED
    BY <1>4, <2>1 DEF Stage, SwitchX, SwitchY
<1>5. CASE t[0] = FALSE /\ s = FALSE
  <2>1. (t[0] # s) = FALSE
    BY <1>5
  <2> QED
    BY <1>5, <2>1 DEF Stage, SwitchX, SwitchY
<1> QED
  BY <1>1, <1>2, <1>3, <1>4, <1>5

\* Going back through one stage keeps the origin.
LEMMA OriginStep ==
  ASSUME slot \in Terminal, NEW n \in 0 .. Stages - 1, NEW t \in Terminal
  PROVE  Origin(n + 1, SwitchInput(t, t[0] # slot[n])) = Origin(n, t)
<1> DEFINE u == SwitchInput(t, t[0] # slot[n])
<1>1. \A j \in Bit : Origin(n + 1, u)[j] = Origin(n, t)[j]
  <2> SUFFICES ASSUME NEW j \in Bit
               PROVE  Origin(n + 1, u)[j] = Origin(n, t)[j]
    OBVIOUS
  <2>1. CASE j < n
    <3>1. /\ j < n + 1
          /\ j + (Stages - (n + 1)) \in Bit
          /\ j + (Stages - (n + 1)) # Stages - 1
          /\ j + (Stages - (n + 1)) + 1 = j + (Stages - n)
      BY <2>1, StagesAssumption DEF Bit
    <3>2. Origin(n + 1, u)[j] = u[j + (Stages - (n + 1))]
      BY <3>1 DEF Origin
    <3>3. u[j + (Stages - (n + 1))] = t[j + (Stages - n)]
      BY <3>1 DEF SwitchInput
    <3>4. Origin(n, t)[j] = t[j + (Stages - n)]
      BY <2>1 DEF Origin
    <3> QED
      BY <3>2, <3>3, <3>4
  <2>2. CASE j = n
    <3>1. /\ j < n + 1 /\ ~ (j < n) /\ j - n = 0
          /\ j + (Stages - (n + 1)) = Stages - 1
          /\ Stages - 1 \in Bit
      BY <2>2, StagesAssumption DEF Bit
    <3>2. Origin(n + 1, u)[j] = u[Stages - 1]
      BY <3>1 DEF Origin
    <3>3. u[Stages - 1] = (t[0] # slot[n])
      BY <3>1 DEF SwitchInput
    <3>4. Origin(n, t)[j] = (t[0] # slot[j])
      BY <3>1 DEF Origin
    <3> QED
      BY <2>2, <3>2, <3>3, <3>4
  <2>3. CASE j > n
    <3>1. /\ ~ (j < n + 1) /\ ~ (j < n)
          /\ j - (n + 1) \in Bit
          /\ j - (n + 1) # Stages - 1
          /\ (j - (n + 1)) + 1 = j - n
      BY <2>3, StagesAssumption DEF Bit
    <3>2. Origin(n + 1, u)[j] = (u[j - (n + 1)] # slot[j])
      BY <3>1 DEF Origin
    <3>3. u[j - (n + 1)] = t[j - n]
      BY <3>1 DEF SwitchInput
    <3>4. Origin(n, t)[j] = (t[j - n] # slot[j])
      BY <3>1 DEF Origin
    <3> QED
      BY <3>2, <3>3, <3>4
  <2> QED
    BY <2>1, <2>2, <2>3, StagesAssumption DEF Bit
<1> QED
  BY <1>1 DEF Origin

\* Every row of a quiet fabric carries at t the word of the origin of t.
LEMMA QuietRows ==
  ASSUME slot \in Terminal, Quiet
  PROVE  \A n \in Level, t \in Terminal : links[n][t] = Push(Origin(n, t))
<1> DEFINE S == {n \in Level : \A t \in Terminal : links[n][t] = Push(Origin(n, t))}
<1>1. \A n \in Level, t \in Terminal :
        links[n][t] = Driven(links, slot, Inputs, n, t)
  BY DEF Quiet, Settled
<1>2. Stages \in S
  <2>1. Stages \in Level
    BY StagesAssumption DEF Level
  <2>2. \A t \in Terminal : links[Stages][t] = Inputs[t]
    BY <1>1, <2>1 DEF Driven
  <2> QED
    BY <2>1, <2>2, OriginTop DEF Inputs
<1>3. ASSUME NEW n \in 0 .. Stages - 1, n + 1 \in S
      PROVE  n \in S
  <2>1. n \in Level /\ n + 1 \in Level /\ n # Stages /\ n \in Bit
    BY StagesAssumption DEF Level, Bit
  <2>2. slot[n] \in BOOLEAN
    BY <2>1 DEF Terminal
  <2>3. ASSUME NEW t \in Terminal
        PROVE  links[n][t] = Push(Origin(n, t))
    <3>1. links[n][t] = Stage(slot[n], links[n + 1], t)
      BY <1>1, <2>1 DEF Driven
    <3>2. links[n][t] = links[n + 1][SwitchInput(t, t[0] # slot[n])]
      BY <2>2, <3>1, StageSelects
    <3>3. SwitchInput(t, t[0] # slot[n]) \in Terminal
      BY SwitchInputType
    <3> QED
      BY <1>3, <3>2, <3>3, OriginStep
  <2> QED
    BY <2>1, <2>3
<1>4. \A n \in 0 .. Stages : n \in S
  BY <1>2, <1>3, StagesAssumption, DownwardInduction
<1> QED
  BY <1>4 DEF Level

LEMMA QuietLaw == TypeOK => FabricLaw
<1> SUFFICES ASSUME TypeOK, Quiet, NEW t \in Terminal
             PROVE  links[0][t] = Inputs[Xor(t, slot)]
  BY DEF FabricLaw, RoutesByXor
<1>1. slot \in Terminal /\ 0 \in Level
  BY StagesAssumption DEF TypeOK, Level
<1>2. links[0][t] = Push(Xor(t, slot))
  BY <1>1, QuietRows, OriginBottom
<1> QED
  BY <1>1, <1>2, XorType DEF Inputs

-----------------------------------------------------------------------------
(* The invariant and the refinement.                                       *)

\* Each driver of the fabric gives its signal a word.
LEMMA DrivenType ==
  ASSUME RtlTypeOK, NEW n \in Level, NEW t \in Terminal
  PROVE  Driven(links, slot, Inputs, n, t) \in Data \cup {NoData}
<1>1. CASE n = Stages
  BY <1>1, PushType DEF RtlTypeOK, Driven, Inputs
<1>2. CASE n # Stages
  <2>1. n \in Bit /\ n + 1 \in Level
    BY <1>2, StagesAssumption DEF Level, Bit
  <2>2. slot[n] \in BOOLEAN
    BY <2>1 DEF RtlTypeOK, TypeOK, Terminal
  <2>3. t[0] \in BOOLEAN
    BY StagesAssumption DEF Terminal, Bit
  <2>4. (t[0] # slot[n]) \in BOOLEAN
    OBVIOUS
  <2>5. SwitchInput(t, t[0] # slot[n]) \in Terminal
    BY <2>4, SwitchInputType
  <2>6. Driven(links, slot, Inputs, n, t)
          = links[n + 1][SwitchInput(t, t[0] # slot[n])]
    BY <1>2, <2>2, StageSelects DEF Driven
  <2> QED
    BY <2>1, <2>5, <2>6 DEF RtlTypeOK
<1> QED
  BY <1>1, <1>2

LEMMA RtlInitType == RtlInit => RtlTypeOK
  BY InitType DEF RtlInit, RtlTypeOK

\* At an edge the quiet fabric delivers what TdmaMin's does.
LEMMA QuietPulls ==
  ASSUME TypeOK, Quiet
  PROVE  [p \in Ports |-> links[0][p]] = [p \in Ports |-> Pull(p)]
<1>1. \A p \in Ports : links[0][p] = Inputs[Xor(p, slot)]
  BY QuietLaw, PortsAssumption DEF FabricLaw, RoutesByXor
<1>2. \A p \in Ports : Xor(p, slot) \in Terminal
  BY XorType, PortsAssumption DEF TypeOK
<1> QED
  BY <1>1, <1>2 DEF Inputs, Pull

\* Every step of the detailed network is a step of TdmaMin or leaves its
\* state unchanged.
LEMMA RtlStep ==
  ASSUME TypeOK, [RtlNext]_rtlVars
  PROVE  [Next]_vars
<1>1. CASE \E n \in Level, t \in Terminal : Settle(n, t)
  BY <1>1 DEF Settle
<1>2. CASE \E sends \in Traffic : RtlClock(sends)
  <2>1. PICK sends \in Traffic : RtlClock(sends)
    BY <1>2
  <2>2. Clock(sends)
    BY <2>1, QuietPulls DEF RtlClock, Clock
  <2> QED
    BY <2>2 DEF Next
<1>3. CASE UNCHANGED rtlVars
  BY <1>3 DEF rtlVars, vars
<1> QED
  BY <1>1, <1>2, <1>3 DEF RtlNext

LEMMA RtlNextType == RtlTypeOK /\ [RtlNext]_rtlVars => RtlTypeOK'
<1> SUFFICES ASSUME RtlTypeOK, [RtlNext]_rtlVars PROVE RtlTypeOK'
  OBVIOUS
<1>1. TypeOK'
  BY RtlStep, NextType DEF RtlTypeOK
<1>2. links' \in [Level -> [Terminal -> Data \cup {NoData}]]
  <2>1. CASE \E n \in Level, t \in Terminal : Settle(n, t)
    BY <2>1, DrivenType DEF Settle, RtlTypeOK
  <2>2. CASE \E sends \in Traffic : RtlClock(sends)
    BY <2>2 DEF RtlClock, RtlTypeOK
  <2>3. CASE UNCHANGED rtlVars
    BY <2>3 DEF rtlVars, RtlTypeOK
  <2> QED
    BY <2>1, <2>2, <2>3 DEF RtlNext
<1> QED
  BY <1>1, <1>2 DEF RtlTypeOK

\* The rows of the fabric and the clocked state keep their types, whatever
\* the order in which the signals of the fabric change.
THEOREM RtlTypeCorrect == RtlSpec => []RtlTypeOK
  BY RtlInitType, RtlNextType, PTL DEF RtlSpec

\* Whenever it is quiet, the shuffle of TdmaMinFabric.vhd connects every
\* terminal t with t xor slot.
THEOREM FabricRoutes == RtlSpec => []FabricLaw
<1>1. RtlTypeOK => FabricLaw
  BY QuietLaw DEF RtlTypeOK
<1> QED
  BY <1>1, RtlTypeCorrect, PTL

\* The network with its switches implements the network of TdmaMin.
THEOREM RtlRefines == RtlSpec => Implements
<1>1. RtlInit => Init
  BY DEF RtlInit
<1>2. RtlTypeOK /\ [RtlNext]_rtlVars => [Next]_vars
  BY RtlStep DEF RtlTypeOK
<1> QED
  BY <1>1, <1>2, RtlTypeCorrect, PTL DEF RtlSpec, Implements, Spec

-----------------------------------------------------------------------------
(* The fabric has no loop.                                                 *)

LEMMA IncrementMoves ==
  ASSUME NEW c \in Terminal
  PROVE  Increment(c) # c
<1> DEFINE carry == \A j \in 0 .. 0 - 1 : c[j]
<1>1. 0 \in Bit
  BY StagesAssumption DEF Bit
<1>2. carry
  <2>1. 0 .. 0 - 1 = {}
    OBVIOUS
  <2> QED
    BY <2>1, Zenon
<1>3. Increment(c)[0] = (c[0] # carry)
  BY <1>1 DEF Increment
<1>4. c[0] \in BOOLEAN
  BY <1>1 DEF Terminal
<1> HIDE DEF carry
<1>5. CASE c[0]
  BY <1>2, <1>3, <1>4, <1>5, Zenon
<1>6. CASE ~ c[0]
  BY <1>2, <1>3, <1>4, <1>6, Zenon
<1> QED
  BY <1>5, <1>6

\* The signals of a row that are about to change.
Unsettled(n) == {t \in Terminal : links[n][t] # Driven(links, slot, Inputs, n, t)}

\* Between two edges every change takes a signal out of those that are about
\* to change in its row and adds none to its row or to those above it.
Descends ==
  [][UNCHANGED vars =>
       \E n \in Level :
         /\ \E t \in Unsettled(n) : Unsettled(n)' = Unsettled(n) \ {t}
         /\ \A m \in Level : m > n => Unsettled(m)' = Unsettled(m)]_rtlVars

LEMMA SettleDescends ==
  ASSUME RtlTypeOK, NEW n \in Level, NEW t \in Terminal, Settle(n, t)
  PROVE  /\ t \in Unsettled(n) /\ Unsettled(n)' = Unsettled(n) \ {t}
         /\ \A m \in Level : m > n => Unsettled(m)' = Unsettled(m)
<1>1. /\ links[n][t] # Driven(links, slot, Inputs, n, t)
      /\ links' = [links EXCEPT ![n][t] = Driven(links, slot, Inputs, n, t)]
      /\ slot' = slot /\ Inputs' = Inputs
  BY DEF Settle, vars, Inputs, Push, Ready, Peer
<1>2. /\ \A m \in Level : m # n => links'[m] = links[m]
      /\ \A u \in Terminal : u # t => links'[n][u] = links[n][u]
      /\ links'[n][t] = Driven(links, slot, Inputs, n, t)
  BY <1>1 DEF RtlTypeOK
<1>3. ASSUME NEW m \in Level, m >= n, NEW u \in Terminal
      PROVE  Driven(links', slot, Inputs, m, u) = Driven(links, slot, Inputs, m, u)
  <2>1. CASE m = Stages
    BY <2>1 DEF Driven
  <2>2. CASE m # Stages
    <3>1. m + 1 \in Level /\ m + 1 # n
      BY <1>3, <2>2, StagesAssumption DEF Level
    <3> QED
      BY <1>2, <2>2, <3>1 DEF Driven
  <2> QED
    BY <2>1, <2>2
<1>4. \A m \in Level : Unsettled(m)' = {u \in Terminal : links'[m][u] # Driven(links', slot, Inputs, m, u)}
  BY <1>1 DEF Unsettled
<1>5. n \in Int /\ n >= n
  BY StagesAssumption DEF Level
<1>6. t \in Unsettled(n)
  BY <1>1 DEF Unsettled
<1>7. Unsettled(n)' = Unsettled(n) \ {t}
  <2>1. \A u \in Terminal : Driven(links', slot, Inputs, n, u) = Driven(links, slot, Inputs, n, u)
    BY <1>3, <1>5
  <2> QED
    BY <1>2, <1>4, <2>1 DEF Unsettled
<1>8. ASSUME NEW m \in Level, m > n
      PROVE  Unsettled(m)' = Unsettled(m)
  <2>1. m >= n /\ m # n
    BY <1>8, StagesAssumption DEF Level
  <2>2. \A u \in Terminal : Driven(links', slot, Inputs, m, u) = Driven(links, slot, Inputs, m, u)
    BY <1>3, <2>1
  <2> QED
    BY <1>2, <1>4, <2>1, <2>2 DEF Unsettled
<1> QED
  BY <1>6, <1>7, <1>8

\* What is about to change, row by row from the top, falls in the order of
\* dictionaries with every change, for every number of stages: the fabric has
\* no combinational loop, and that it becomes quiet (FabricSettles) only
\* needs its signals to propagate.
THEOREM FabricDescends == RtlSpec => Descends
<1> DEFINE Falls ==
      UNCHANGED vars =>
        \E n \in Level :
          /\ \E t \in Unsettled(n) : Unsettled(n)' = Unsettled(n) \ {t}
          /\ \A m \in Level : m > n => Unsettled(m)' = Unsettled(m)
<1>1. ASSUME RtlTypeOK, RtlNext PROVE Falls
  <2>1. CASE \E n \in Level, t \in Terminal : Settle(n, t)
    BY <1>1, <2>1, SettleDescends
  <2>2. CASE \E sends \in Traffic : RtlClock(sends)
    <3>1. slot' = Increment(slot)
      BY <2>2 DEF RtlClock, Edge
    <3>2. slot' # slot
      BY <1>1, <3>1, IncrementMoves DEF RtlTypeOK, TypeOK
    <3> QED
      BY <3>2 DEF vars
  <2> QED
    BY <1>1, <2>1, <2>2 DEF RtlNext
<1>2. RtlTypeOK /\ [RtlNext]_rtlVars => [Falls]_rtlVars
  BY <1>1
<1>3. Descends <=> [][Falls]_rtlVars
  BY DEF Descends
<1> HIDE DEF Falls
<1> QED
  BY <1>2, <1>3, RtlTypeCorrect, PTL DEF RtlSpec
=============================================================================
