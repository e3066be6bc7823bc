------------------------- MODULE AudioControl_proofs -------------------------
(***************************************************************************)
(* The codec receives the settings in their order, sees no START or STOP   *)
(* that was not meant, and is answered truly by success: proved from an    *)
(* invariant that places every state of the machine in its frame, the      *)
(* frame in the periods of the sequencer, and what the codec has sampled   *)
(* beside what was sent.                                                   *)
(***************************************************************************)
EXTENDS AudioControl, SequenceTheorems, TLAPS

-----------------------------------------------------------------------------
(* The invariant.                                                          *)

Flags == {valid, sdaBit, sclDrive, failure, ready, success, ack, open}

Vector == [0 .. 23 -> BOOLEAN]

Typed ==
  /\ quarter \in 0 .. 3 /\ count \in 0 .. 480
  /\ Flags \subseteq BOOLEAN
  /\ seen \in Seq(BOOLEAN) /\ frames \in Seq(Vector)

\* A word is offered when its count has come, and only then.
Offered ==
  /\ valid <=> OfferedAt(count) # 0
  /\ valid => word = Settings[OfferedAt(count)]

\* The state of the machine e rising edges after it accepted a word.
At(e) ==
  \/ e = 0 /\ state = "start" /\ index = 0
  \/ e \in 1 .. 8 /\ state = "devi_out" /\ index = 24 - e
  \/ e = 9 /\ state = "devi_ack" /\ index = 16
  \/ e \in 10 .. 17 /\ state = "addr_out" /\ index = 25 - e
  \/ e = 18 /\ state = "addr_ack" /\ index = 8
  \/ e \in 19 .. 26 /\ state = "data_out" /\ index = 26 - e
  \/ e = 27 /\ state = "data_ack" /\ index = 0
  \/ e = 28 /\ state = "stop" /\ index = 0

\* The clocks of the acknowledges, and the clock of bit i of the frame.
Acks == {9, 18, 27}

Place(i) == 24 - i + (23 - i) \div 8

\* What the machine puts on the two lines, and when the codec may hold sda.
Clocked(e) ==
  /\ sclDrive <=> IF quarter \in {1, 2} THEN e # 28 ELSE e # 0
  /\ sdaBit <=> e \notin Acks \cup {0, 28} /\ bits[index]
  /\ ack => (IF quarter = 2 THEN e + 1 ELSE e) \in Acks

\* The codec has sampled every bit that was clocked, each in its place.
Sampled(e) ==
  /\ Len(seen) = IF quarter = 3 /\ e > 0 THEN e - 1 ELSE e
  /\ \A i \in 0 .. 23 : Place(i) <= Len(seen) => seen[Place(i)] = bits[i]
  /\ quarter = 0 /\ e \in Acks => (seen[e] <=> ~ ack)

\* failure says what the codec answered so far, once it has been reset.
Judged(e) ==
  e > 0 \/ quarter \in {1, 2} =>
    (failure <=> \E i \in Acks : i <= (IF quarter \in {0, 3} THEN e - 1 ELSE e) /\ seen[i])

\* The machine sends the word after those the codec has, in its period.
Sending(e) ==
  /\ At(e)
  /\ Len(frames) < Len(Settings)
  /\ count = 40 * (Len(frames) + 1) + e + (IF quarter = 3 THEN 0 ELSE 1)
  /\ bits = Frame(Settings[Len(frames) + 1])
  /\ open
  /\ Clocked(e) /\ Sampled(e) /\ Judged(e)

\* The machine is idle, both lines are high and the next word is to come.
Waiting ==
  /\ state = "idle" /\ index = 0
  /\ ~ sdaBit /\ ~ sclDrive /\ ~ ack /\ ~ open /\ seen = <<>>
  /\ Len(frames) > 0 => count > 40 * Len(frames)
  /\ Len(frames) < Len(Settings) =>
       /\ count <= 40 * (Len(frames) + 1)
       /\ quarter = 3 => count < 40 * (Len(frames) + 1)

IInv == Typed /\ Offered /\ SettingsInOrder /\ (Waiting \/ \E e \in 0 .. 28 : Sending(e))

-----------------------------------------------------------------------------
(* The words and their offers.                                             *)

LEMMA SettingsType == Len(Settings) = 11 /\ DOMAIN Settings = 1 .. 11
BY DEF Settings

LEMMA FrameType == \A w : Frame(w) \in Vector
BY DEF Frame, Vector

LEMMA DecodedType == \A samples \in Seq(BOOLEAN) : Len(samples) >= 27 => Decoded(samples) \in Vector
<1> SUFFICES ASSUME NEW samples \in Seq(BOOLEAN), Len(samples) >= 27, NEW i \in 0 .. 23
             PROVE  samples[24 - i + (23 - i) \div 8] \in BOOLEAN
  BY DEF Decoded, Vector
<1>1. (23 - i) \div 8 \in 0 .. 2 /\ (i = 23 => (23 - i) \div 8 = 0)
  BY SMTT(30)
<1>2. 24 - i + (23 - i) \div 8 \in 1 .. 27
  <2>1. i <= 7 \/ (23 - i) \div 8 < 2
    BY SMTT(30)
  <2> QED
    BY <1>1, <2>1, SMTT(30)
<1> QED
  BY <1>2, ElementOfSeq

\* A word is offered at forty times its number, and stays the only one for
\* forty periods.
LEMMA OfferedNumbers ==
  /\ \A n \in Nat : OfferedAt(n) # 0 => OfferedAt(n) \in 1 .. 11 /\ n = 40 * OfferedAt(n)
  /\ \A k \in 1 .. 11 : OfferedAt(40 * k) = k
<1>1. ASSUME NEW n \in Nat, OfferedAt(n) # 0
      PROVE  OfferedAt(n) \in 1 .. 11 /\ n = 40 * OfferedAt(n)
  <2>1. n % 40 = 0 /\ n \div 40 \in 1 .. 11 /\ OfferedAt(n) = n \div 40
    BY <1>1, SettingsType DEF OfferedAt
  <2>2. n = 40 * (n \div 40)
    BY <2>1, SMTT(30)
  <2> QED
    BY <2>1, <2>2
<1>2. ASSUME NEW k \in 1 .. 11
      PROVE  OfferedAt(40 * k) = k
  <2>1. (40 * k) % 40 = 0 /\ (40 * k) \div 40 = k
    BY SMTT(30)
  <2> QED
    BY <2>1, SettingsType DEF OfferedAt
<1> QED
  BY <1>1, <1>2

\* The clocks of the bits: the three bytes, each before its acknowledge.
LEMMA Places ==
  \A i \in 0 .. 23 : Place(i) = IF i >= 16 THEN 24 - i ELSE IF i >= 8 THEN 25 - i ELSE 26 - i
<1> SUFFICES ASSUME NEW i \in 0 .. 23
             PROVE  Place(i) = IF i >= 16 THEN 24 - i ELSE IF i >= 8 THEN 25 - i ELSE 26 - i
  OBVIOUS
<1>1. CASE i >= 16
  <2>1. (23 - i) \div 8 = 0
    BY <1>1, SMTT(30)
  <2> QED
    BY <1>1, <2>1 DEF Place
<1>2. CASE i < 16 /\ i >= 8
  <2>1. (23 - i) \div 8 = 1
    BY <1>2, SMTT(30)
  <2> QED
    BY <1>2, <2>1 DEF Place
<1>3. CASE i < 8
  <2>1. (23 - i) \div 8 = 2
    BY <1>3, SMTT(30)
  <2> QED
    BY <1>3, <2>1 DEF Place
<1> QED
  BY <1>1, <1>2, <1>3

-----------------------------------------------------------------------------
(* What the codec makes of the lines.                                      *)

LEMMA ReceiveSame ==
  ASSUME NEW scl, NEW sda, NEW newScl, NEW newSda,
         Receive(scl, sda, newScl, newSda),
         scl <=> newScl, ~ scl \/ (sda /\ newSda) \/ (~ sda /\ ~ newSda),
         sda \in BOOLEAN, newSda \in BOOLEAN
  PROVE  UNCHANGED codec
BY DEF Receive

LEMMA ReceiveSample ==
  ASSUME NEW scl, NEW sda, NEW newScl, NEW newSda,
         Receive(scl, sda, newScl, newSda), ~ scl, newScl
  PROVE  seen' = (IF open THEN Append(seen, newSda) ELSE seen) /\ UNCHANGED <<ack, open, frames>>
BY DEF Receive

LEMMA ReceiveAck ==
  ASSUME NEW scl, NEW sda, NEW newScl, NEW newSda,
         Receive(scl, sda, newScl, newSda), scl, ~ newScl
  PROVE  /\ ack' \in IF open /\ Len(seen) % 9 = 8 THEN BOOLEAN ELSE {FALSE}
         /\ UNCHANGED <<open, seen, frames>>
BY DEF Receive

-----------------------------------------------------------------------------
(* What the machine does at its rising edge.                               *)

LEMMA SendingBits ==
  ASSUME NEW e \in 0 .. 28, Typed, Sending(e)
  PROVE  /\ bits \in Vector /\ index \in 0 .. 23
         /\ \A i \in 0 .. 23 : bits[i] \in BOOLEAN
<1>1. bits \in Vector
  BY FrameType DEF Sending
<1>2. At(e)
  BY DEF Sending
<1>3. index \in 0 .. 23
  BY <1>2 DEF At
<1> QED
  BY <1>1, <1>3 DEF Vector

\* Each state of a transmission allows one of the steps only.
LEMMA RiseByState ==
  ASSUME Rise
  PROVE  /\ state = "start" => Present(23, "devi_out")
         /\ state = "devi_out" => IF index = 16 THEN ByteDone ELSE Present(index - 1, "devi_out")
         /\ state = "devi_ack" => Present(index - 1, "addr_out")
         /\ state = "addr_out" => IF index = 8 THEN ByteDone ELSE Present(index - 1, "addr_out")
         /\ state = "addr_ack" => Present(index - 1, "data_out")
         /\ state = "data_out" => IF index = 0 THEN ByteDone ELSE Present(index - 1, "data_out")
         /\ state = "data_ack" => DataAck
         /\ state = "stop" => Stop
         /\ state = "idle" => Stay \/ Accept
<1>1. Last.devi_out = 16 /\ Last.addr_out = 8 /\ Last.data_out = 0
  BY DEF Last
<1>2. DOMAIN Last = {"devi_out", "addr_out", "data_out"}
  BY DEF Last
<1>3. After.devi_ack = "addr_out" /\ After.addr_ack = "data_out"
  BY DEF After
<1>4. DOMAIN After = {"devi_ack", "addr_ack"}
  BY DEF After
<1>5. CASE state \in {"start", "idle", "data_ack", "stop"}
  BY <1>2, <1>4, <1>5 DEF Rise, Stay, Accept, Start, ShiftOut, ByteDone, NextByte, DataAck, Stop
<1>6. CASE state \in {"devi_ack", "addr_ack"}
  BY <1>2, <1>3, <1>4, <1>6
  DEF Rise, Stay, Accept, Start, ShiftOut, ByteDone, NextByte, DataAck, Stop
<1>7. CASE state \in {"devi_out", "addr_out", "data_out"}
  <2>1. ShiftOut \/ ByteDone
    BY <1>2, <1>4, <1>7 DEF Rise, Stay, Accept, Start, NextByte, DataAck, Stop
  <2> QED
    BY <1>1, <1>2, <1>7, <2>1 DEF ShiftOut, ByteDone
<1> QED
  BY <1>5, <1>6, <1>7

\* It leads to the next place of the frame.
LEMMA RiseOn ==
  ASSUME NEW e \in 0 .. 27, At(e), Clocked(e), Rise
  PROVE  /\ At(e + 1)'
         /\ IF e + 1 \in Acks \cup {28} THEN ~ sdaBit' /\ sdaBit' \in {FALSE, sdaBit}
                                       ELSE sdaBit' = bits[index']
         /\ UNCHANGED <<bits, sclDrive, failure, ready, success>>
<1>1. CASE e = 0
  <2>1. Present(23, "devi_out")
    BY <1>1, RiseByState DEF At
  <2> QED
    BY <1>1, <2>1 DEF Present, At, Acks
<1>2. CASE e \in 1 .. 7 \cup 10 .. 16 \cup 19 .. 25
  <2>1. Present(index - 1, state)
    BY <1>2, RiseByState DEF At
  <2>2. At(e + 1)'
    BY <1>2, <2>1 DEF Present, At
  <2>3. e + 1 \notin Acks \cup {28}
    BY <1>2 DEF Acks
  <2> QED
    BY <2>1, <2>2, <2>3 DEF Present
<1>3. CASE e \in {9, 18}
  <2>1. Present(index - 1, IF e = 9 THEN "addr_out" ELSE "data_out")
    BY <1>3, RiseByState DEF At
  <2>2. At(e + 1)'
    BY <1>3, <2>1 DEF Present, At
  <2>3. e + 1 \notin Acks \cup {28}
    BY <1>3 DEF Acks
  <2> QED
    BY <2>1, <2>2, <2>3 DEF Present
<1>4. CASE e \in {8, 17, 26}
  <2>1. ByteDone
    BY <1>4, RiseByState DEF At
  <2>2. Then.devi_out = "devi_ack" /\ Then.addr_out = "addr_ack" /\ Then.data_out = "data_ack"
    BY DEF Then
  <2>3. At(e + 1)'
    BY <1>4, <2>1, <2>2 DEF ByteDone, At
  <2>4. e + 1 \in Acks
    BY <1>4 DEF Acks
  <2> QED
    BY <2>1, <2>3, <2>4 DEF ByteDone
<1>5. CASE e = 27
  <2>1. DataAck
    BY <1>5, RiseByState DEF At
  <2>2. ~ sdaBit
    BY <1>5 DEF Clocked, Acks
  <2>3. At(e + 1)'
    BY <1>5, <2>1 DEF DataAck, At
  <2> QED
    BY <1>5, <2>1, <2>2, <2>3 DEF DataAck
<1>6. e = 0 \/ e \in 1 .. 7 \cup 10 .. 16 \cup 19 .. 25 \/ e \in {9, 18} \/ e \in {8, 17, 26} \/ e = 27
  OBVIOUS
<1> QED
  BY <1>1, <1>2, <1>3, <1>4, <1>5, <1>6

LEMMA RiseStop ==
  ASSUME At(28), Rise
  PROVE  Stop
BY RiseByState DEF At

-----------------------------------------------------------------------------
(* Types.                                                                  *)

LEMMA AtStates ==
  ASSUME NEW e \in 0 .. 28, At(e)
  PROVE  /\ state = "start" <=> e = 0
         /\ state = "stop" <=> e = 28
         /\ state \in {"devi_ack", "addr_ack", "data_ack"} <=> e \in Acks
         /\ Driving(state) <=> e \notin Acks
         /\ state # "idle"
BY DEF At, Acks, Driving

\* The four ticks.
LEMMA TickByQuarter ==
  ASSUME Typed, Tick
  PROVE  \/ quarter = 0 /\ quarter' = 1 /\ Fall /\ UNCHANGED sequencer
         \/ quarter = 1 /\ quarter' = 2 /\ UNCHANGED <<machine, sequencer>>
         \/ quarter = 2 /\ quarter' = 3 /\ Rise /\ UNCHANGED sequencer
         \/ quarter = 3 /\ quarter' = 0 /\ Sequence /\ UNCHANGED machine
<1>1. CASE quarter = 0
  BY <1>1 DEF Tick
<1>2. CASE quarter = 1
  BY <1>2 DEF Tick
<1>3. CASE quarter = 2
  BY <1>3 DEF Tick
<1>4. CASE quarter = 3
  BY <1>4 DEF Tick
<1>5. quarter \in 0 .. 3
  BY DEF Typed
<1> QED
  BY <1>1, <1>2, <1>3, <1>4, <1>5

LEMMA CodecTyped ==
  ASSUME Typed, Tick
  PROVE  /\ ack' \in BOOLEAN /\ open' \in BOOLEAN
         /\ seen' \in Seq(BOOLEAN) /\ frames' \in Seq(Vector)
<1> DEFINE newSda == MasterSda' /\ ~ ack
<1>1. newSda \in BOOLEAN
  OBVIOUS
<1>2. Receive(Scl, Sda, Scl', newSda)
  BY DEF Tick
<1> HIDE DEF newSda
<1>3. ack \in BOOLEAN /\ open \in BOOLEAN /\ seen \in Seq(BOOLEAN) /\ frames \in Seq(Vector)
  BY DEF Typed, Flags
<1>4. seen' \in {<<>>, seen, Append(seen, newSda)}
  BY <1>2 DEF Receive, codec
<1>5. frames' = frames \/ (Len(seen) >= 27 /\ frames' = Append(frames, Decoded(seen)))
  BY <1>2 DEF Receive, codec
<1>6. ack' \in BOOLEAN /\ open' \in BOOLEAN
  BY <1>2, <1>3 DEF Receive, codec
<1>7. seen' \in Seq(BOOLEAN)
  <2>1. CASE seen' = Append(seen, newSda)
    BY <1>1, <1>3, <2>1, AppendProperties
  <2>2. CASE seen' = <<>>
    BY <2>2
  <2>3. CASE seen' = seen
    BY <1>3, <2>3
  <2> QED
    BY <1>4, <2>1, <2>2, <2>3
<1>8. frames' \in Seq(Vector)
  BY <1>3, <1>5, DecodedType
<1> QED
  BY <1>6, <1>7, <1>8

\* The flags of the machine after each of the four ticks.
LEMMA MachineTyped ==
  ASSUME Typed, Tick, Waiting \/ \E e \in 0 .. 28 : Sending(e)
  PROVE  /\ sdaBit' \in BOOLEAN /\ sclDrive' \in BOOLEAN /\ failure' \in BOOLEAN
         /\ ready' \in BOOLEAN /\ success' \in BOOLEAN
<1>1. /\ sdaBit \in BOOLEAN /\ sclDrive \in BOOLEAN /\ failure \in BOOLEAN
      /\ ready \in BOOLEAN /\ success \in BOOLEAN
  BY DEF Typed, Flags
<1>2. CASE quarter = 0
  <2>1. Fall
    BY <1>2, TickByQuarter
  <2> QED
    BY <1>1, <2>1 DEF Fall
<1>3. CASE quarter = 1
  BY <1>1, <1>3, TickByQuarter DEF machine
<1>4. CASE quarter = 2
  <2>1. Rise
    BY <1>4, TickByQuarter
  <2>2. ASSUME NEW e \in 0 .. 28, Sending(e)
        PROVE  sdaBit' \in BOOLEAN /\ UNCHANGED <<sclDrive, failure>>
               /\ ready' \in BOOLEAN /\ success' \in BOOLEAN
    <3>1. At(e) /\ Clocked(e)
      BY <2>2 DEF Sending
    <3>2. CASE e = 28
      BY <1>1, <2>1, <3>1, <3>2, RiseStop DEF Stop
    <3>3. CASE e # 28
      <4>1. e \in 0 .. 27
        BY <3>3
      <4>2. index' \in 0 .. 23 /\ bits' = bits
        <5>1. At(e + 1)' /\ bits' = bits
          BY <2>1, <3>1, <4>1, RiseOn
        <5> QED
          BY <4>1, <5>1 DEF At
      <4>3. bits[index'] \in BOOLEAN
        BY <2>2, <4>2, SendingBits
      <4> QED
        BY <1>1, <2>1, <3>1, <4>1, <4>3, RiseOn
    <3> QED
      BY <3>2, <3>3
  <2>3. CASE Waiting
    <3>1. Stay \/ Accept
      BY <2>1, <2>3, RiseByState DEF Waiting
    <3> QED
      BY <1>1, <3>1 DEF Stay, Accept, machine
  <2> QED
    BY <1>1, <2>2, <2>3
<1>5. CASE quarter = 3
  BY <1>1, <1>5, TickByQuarter DEF machine
<1> QED
  BY <1>2, <1>3, <1>4, <1>5 DEF Typed

LEMMA TypedStep ==
  ASSUME Typed, Tick, Waiting \/ \E e \in 0 .. 28 : Sending(e)
  PROVE  Typed'
<1>1. quarter' \in 0 .. 3
  BY DEF Typed, Tick
<1>2. count' \in 0 .. 480 /\ valid' \in BOOLEAN
  <2>1. count \in 0 .. 480 /\ valid \in BOOLEAN
    BY DEF Typed, Flags
  <2>2. Sequence \/ UNCHANGED <<count, valid>>
    BY TickByQuarter DEF sequencer
  <2>3. CASE Sequence
    <3>1. count' = IF count = 480 THEN 480 ELSE count + 1
      BY <2>3 DEF Sequence
    <3>2. valid' \in BOOLEAN
      BY <2>3, Zenon DEF Sequence
    <3> QED
      BY <2>1, <3>1, <3>2
  <2> QED
    BY <2>1, <2>2, <2>3
<1> QED
  BY <1>1, <1>2, CodecTyped, MachineTyped DEF Typed, Flags

-----------------------------------------------------------------------------
(* The ticks while a word is sent.                                         *)

\* Between its rising edges the machine does not move sda.
LEMMA LineKept ==
  ASSUME UNCHANGED <<state, sdaBit>>
  PROVE  MasterSda' <=> MasterSda
BY DEF MasterSda, Driving

\* At tick 31 the clock is high on the bus and the codec does nothing.
LEMMA FallCodec ==
  ASSUME Typed, Tick, quarter = 0
  PROVE  UNCHANGED codec
<1>1. Fall /\ quarter' = 1
  BY TickByQuarter
<1>2. Scl /\ Scl'
  BY <1>1 DEF Scl
<1>3. MasterSda' <=> MasterSda
  BY <1>1, LineKept DEF Fall
<1>4. Receive(Scl, Sda, Scl', MasterSda' /\ ~ ack)
  BY DEF Tick
<1> QED
  BY <1>2, <1>3, <1>4, Zenon DEF Receive, Sda

LEMMA FallSending ==
  ASSUME Typed, Tick, quarter = 0, NEW e \in 0 .. 28, Sending(e)
  PROVE  Sending(e)'
<1>1. Fall /\ quarter' = 1 /\ UNCHANGED sequencer /\ UNCHANGED codec
  BY TickByQuarter, FallCodec
<1>2. UNCHANGED <<state, index, bits, sdaBit, count, open, seen, frames, ack>>
  BY <1>1 DEF Fall, sequencer, codec
<1>3. At(e) /\ Clocked(e) /\ Sampled(e) /\ Judged(e)
  BY DEF Sending
<1>4. Clocked(e)'
  <2>1. sclDrive' <=> e # 28
    BY <1>1, <1>3, AtStates DEF Fall, Clocked
  <2> QED
    BY <1>1, <1>2, <1>3, <2>1 DEF Clocked
<1>5. Sampled(e)'
  BY <1>1, <1>2, <1>3 DEF Sampled
<1>6. Judged(e)'
  <2>1. failure' <=> \E i \in Acks : i <= e /\ seen[i]
    <3>1. CASE e = 0
      BY <1>1, <1>3, <3>1, AtStates DEF Fall, Acks
    <3>2. CASE e > 0 /\ e \in Acks
      <4>1. Sda <=> seen[e]
        BY <1>3, <3>2, AtStates DEF Sda, MasterSda, Sampled
      <4>2. failure' <=> failure \/ seen[e]
        BY <1>1, <1>3, <3>2, <4>1, AtStates DEF Fall
      <4>3. failure <=> \E i \in Acks : i <= e - 1 /\ seen[i]
        BY <1>3, <3>2 DEF Judged
      <4> QED
        BY <3>2, <4>2, <4>3 DEF Acks
    <3>3. CASE e > 0 /\ e \notin Acks
      <4>1. failure' <=> failure
        <5>1. state # "start" /\ state \notin {"devi_ack", "addr_ack", "data_ack"}
          BY <1>3, <3>3, AtStates
        <5> QED
          BY <1>1, <5>1, Zenon DEF Fall
      <4>2. failure <=> \E i \in Acks : i <= e - 1 /\ seen[i]
        BY <1>3, <3>3 DEF Judged
      <4> QED
        BY <3>3, <4>1, <4>2 DEF Acks
    <3> QED
      BY <3>1, <3>2, <3>3
  <2> QED
    BY <1>1, <1>2, <2>1 DEF Judged
<1>7. At(e)'
  BY <1>2, <1>3 DEF At
<1> QED
  BY <1>1, <1>2, <1>4, <1>5, <1>6, <1>7 DEF Sending

\* At tick 62 the clock goes low on the bus, unless it is off it, and after
\* the eighth bit of a byte the codec may take sda.
LEMMA QuietSending ==
  ASSUME Typed, Tick, quarter = 1, NEW e \in 0 .. 28, Sending(e)
  PROVE  Sending(e)' /\ UNCHANGED frames
<1>1. quarter' = 2 /\ UNCHANGED <<machine, sequencer>>
  BY TickByQuarter
<1>2. UNCHANGED <<state, index, bits, sdaBit, sclDrive, failure, count>>
  BY <1>1 DEF machine, sequencer
<1>3. At(e) /\ Clocked(e) /\ Sampled(e) /\ Judged(e) /\ open
  BY DEF Sending
<1>4. Receive(Scl, Sda, Scl', MasterSda' /\ ~ ack)
  BY DEF Tick
<1>5. Scl
  BY DEF Scl
<1>6. Scl' <=> e = 28
  BY <1>1, <1>2, <1>3 DEF Scl, Clocked
<1>7. UNCHANGED <<open, seen, frames>> /\ (ack' => e + 1 \in Acks)
  <2>1. CASE e = 28
    <3>1. MasterSda' <=> MasterSda
      BY <1>2, LineKept
    <3>2. UNCHANGED codec
      BY <1>4, <1>5, <1>6, <2>1, <3>1, Zenon DEF Receive, Sda
    <3>3. ~ ack
      BY <1>3, <2>1 DEF Clocked, Acks
    <3> QED
      BY <3>2, <3>3 DEF codec
  <2>2. CASE e # 28
    <3>1. /\ ack' \in IF open /\ Len(seen) % 9 = 8 THEN BOOLEAN ELSE {FALSE}
          /\ UNCHANGED <<open, seen, frames>>
      BY <1>4, <1>5, <1>6, <2>2, ReceiveAck
    <3>2. Len(seen) = e
      BY <1>3 DEF Sampled
    <3>3. e % 9 = 8 => e + 1 \in Acks
      BY <2>2, SMTT(30) DEF Acks
    <3> QED
      BY <3>1, <3>2, <3>3
  <2> QED
    BY <2>1, <2>2
<1>8. At(e)'
  BY <1>2, <1>3 DEF At
<1>9. Clocked(e)'
  BY <1>1, <1>2, <1>3, <1>7 DEF Clocked
<1>10. Sampled(e)'
  <2>1. Len(seen') = e
    BY <1>3, <1>7 DEF Sampled
  <2>2. \A i \in 0 .. 23 : Place(i) <= Len(seen') => seen'[Place(i)] = bits'[i]
    BY <1>2, <1>3, <1>7 DEF Sampled
  <2> QED
    BY <1>1, <2>1, <2>2 DEF Sampled
<1>11. Judged(e)'
  BY <1>1, <1>2, <1>3, <1>7 DEF Judged
<1> QED
  BY <1>1, <1>2, <1>7, <1>8, <1>9, <1>10, <1>11 DEF Sending

\* At tick 125 the clock goes high on the bus, unless it is off it, and the
\* codec takes the bit on the line: the bit of the frame whose place this
\* clock is, or its own answer.
LEMMA SampleTaken ==
  ASSUME Typed, Tick, quarter = 3, NEW e \in 1 .. 28, Sending(e)
  PROVE  /\ UNCHANGED <<ack, open, frames>>
         /\ seen' \in Seq(BOOLEAN) /\ Len(seen') = e
         /\ \A j \in 1 .. e - 1 : seen'[j] = seen[j]
         /\ seen'[e] <=> MasterSda /\ ~ ack
<1> DEFINE newSda == MasterSda' /\ ~ ack
<1>1. quarter' = 0 /\ UNCHANGED <<state, sdaBit>>
  BY TickByQuarter DEF machine
<1>2. newSda \in BOOLEAN /\ (newSda <=> MasterSda /\ ~ ack)
  BY <1>1, LineKept, Zenon
<1>3. Receive(Scl, Sda, Scl', newSda)
  BY DEF Tick
<1> HIDE DEF newSda
<1>4. ~ Scl /\ Scl'
  BY <1>1 DEF Sending, Clocked, Scl
<1>5. open /\ Len(seen) = e - 1
  BY DEF Sending, Sampled
<1>6. seen' = Append(seen, newSda) /\ UNCHANGED <<ack, open, frames>>
  BY <1>3, <1>4, <1>5 DEF Receive
<1>7. seen \in Seq(BOOLEAN)
  BY DEF Typed
<1> QED
  BY <1>2, <1>5, <1>6, <1>7, AppendProperties

LEMMA SequenceSending ==
  ASSUME Typed, Tick, quarter = 3, NEW e \in 0 .. 28, Sending(e)
  PROVE  Sending(e)' /\ UNCHANGED frames
<1>1. quarter' = 0 /\ Sequence /\ UNCHANGED machine
  BY TickByQuarter
<1>2. UNCHANGED <<state, index, bits, sdaBit, sclDrive, failure>>
  BY <1>1 DEF machine
<1>3. At(e) /\ Clocked(e) /\ Sampled(e) /\ Judged(e) /\ open
  BY DEF Sending
<1>4. At(e)'
  BY <1>2, <1>3 DEF At
<1>5. count' = count + 1
  <2>1. count = 40 * (Len(frames) + 1) + e /\ Len(frames) \in Nat /\ Len(frames) < 11
    BY SettingsType DEF Sending, Typed
  <2>2. count # 480
    BY <2>1
  <2> QED
    BY <1>1, <2>2 DEF Sequence
<1>6. CASE e = 0
  <2>1. Scl /\ Scl'
    BY <1>1, <1>2, <1>3, <1>6 DEF Scl, Clocked
  <2>2. MasterSda' <=> MasterSda
    BY <1>2, LineKept
  <2>3. Receive(Scl, Sda, Scl', MasterSda' /\ ~ ack)
    BY DEF Tick
  <2>4. UNCHANGED codec
    BY <2>1, <2>2, <2>3, Zenon DEF Receive, Sda
  <2>5. UNCHANGED <<ack, open, seen, frames>>
    BY <2>4 DEF codec
  <2>6. Clocked(e)'
    BY <1>1, <1>2, <1>3, <1>6, <2>5 DEF Clocked
  <2>7. Sampled(e)'
    BY <1>1, <1>2, <1>3, <1>6, <2>5 DEF Sampled, Acks
  <2>8. Judged(e)'
    BY <1>1, <1>6 DEF Judged
  <2>9. count' = 40 * (Len(frames) + 1) + e + 1
    BY <1>5 DEF Sending
  <2> QED
    BY <1>1, <1>2, <1>4, <2>5, <2>6, <2>7, <2>8, <2>9 DEF Sending
<1>7. CASE e \in 1 .. 28
  <2>1. /\ UNCHANGED <<ack, open, frames>>
        /\ seen' \in Seq(BOOLEAN) /\ Len(seen') = e
        /\ \A j \in 1 .. e - 1 : seen'[j] = seen[j]
        /\ seen'[e] <=> MasterSda /\ ~ ack
    BY <1>7, SampleTaken
  <2>2. Clocked(e)'
    BY <1>1, <1>2, <1>3, <1>7, <2>1 DEF Clocked
  <2>3. ASSUME NEW i \in 0 .. 23, Place(i) <= e
        PROVE  seen'[Place(i)] = bits[i]
    <3>1. CASE Place(i) < e
      <4>1. Place(i) \in 1 .. e - 1
        BY <3>1, Places
      <4>2. Place(i) <= Len(seen)
        BY <1>3, <1>7, <4>1 DEF Sampled
      <4>3. seen[Place(i)] = bits[i]
        BY <1>3, <4>2 DEF Sampled
      <4> QED
        BY <2>1, <4>1, <4>3
    <3>2. CASE Place(i) = e
      <4>1. e \notin Acks \cup {0, 28} /\ index = i
        BY <1>3, <3>2, Places DEF Acks, At
      <4>2. MasterSda <=> bits[i]
        BY <1>3, <4>1, AtStates DEF MasterSda, Clocked
      <4>3. ~ ack
        BY <1>1, <1>3, <4>1 DEF Clocked
      <4>4. seen'[e] \in BOOLEAN
        <5>1. seen' \in Seq(BOOLEAN) /\ Len(seen') = e
          BY <2>1
        <5>2. e \in 1 .. e
          BY <1>7
        <5> QED
          BY <5>1, <5>2, ElementOfSeq
      <4>5. bits[i] \in BOOLEAN
        BY SendingBits
      <4> QED
        BY <2>1, <3>2, <4>2, <4>3, <4>4, <4>5
    <3>3. Place(i) \in Int
      BY Places
    <3> QED
      BY <2>3, <3>1, <3>2, <3>3
  <2>4. e \in Acks => (seen'[e] <=> ~ ack)
    BY <1>3, <2>1, AtStates DEF MasterSda
  <2>5. Sampled(e)'
    BY <1>1, <1>2, <2>1, <2>3, <2>4 DEF Sampled
  <2>6. Judged(e)'
    <3>1. failure <=> \E i \in Acks : i <= e - 1 /\ seen[i]
      BY <1>3, <1>7 DEF Judged
    <3>2. failure <=> \E i \in Acks : i <= e - 1 /\ seen'[i]
      BY <2>1, <3>1 DEF Acks
    <3> QED
      BY <1>1, <1>2, <3>2 DEF Judged
  <2>7. count' = 40 * (Len(frames) + 1) + e + 1
    BY <1>5 DEF Sending
  <2> QED
    BY <1>1, <1>2, <1>4, <2>1, <2>2, <2>5, <2>6, <2>7 DEF Sending
<1> QED
  BY <1>6, <1>7

\* At tick 93 the machine goes on to its next state; the clock is low on the
\* bus, so that sda may move.
LEMMA RiseSending ==
  ASSUME Typed, Tick, quarter = 2, NEW e \in 0 .. 27, Sending(e)
  PROVE  Sending(e + 1)' /\ UNCHANGED codec
<1>1. quarter' = 3 /\ Rise /\ UNCHANGED sequencer
  BY TickByQuarter
<1>2. At(e) /\ Clocked(e) /\ Sampled(e) /\ Judged(e) /\ open
  BY DEF Sending
<1>3. /\ At(e + 1)'
      /\ IF e + 1 \in Acks \cup {28} THEN ~ sdaBit' /\ sdaBit' \in {FALSE, sdaBit}
                                    ELSE sdaBit' = bits[index']
      /\ UNCHANGED <<bits, sclDrive, failure, ready, success>>
  BY <1>1, <1>2, RiseOn
<1>4. ~ Scl /\ ~ Scl'
  BY <1>1, <1>2, <1>3 DEF Scl, Clocked
<1>5. UNCHANGED codec
  <2>1. Receive(Scl, Sda, Scl', MasterSda' /\ ~ ack)
    BY DEF Tick
  <2> QED
    BY <1>4, <2>1, Zenon DEF Receive
<1>6. UNCHANGED <<ack, open, seen, frames, count>>
  BY <1>1, <1>5 DEF codec, sequencer
<1>7. Clocked(e + 1)'
  <2>1. sdaBit' <=> e + 1 \notin Acks \cup {0, 28} /\ bits'[index']
    <3>1. e + 1 # 0 /\ bits' = bits
      BY <1>3
    <3>2. CASE e + 1 \in Acks \cup {28}
      BY <1>3, <3>1, <3>2
    <3>3. CASE e + 1 \notin Acks \cup {28}
      <4>1. sdaBit' = bits'[index']
        BY <1>3, <3>1, <3>3
      <4> QED
        BY <3>1, <3>3, <4>1
    <3> QED
      BY <3>2, <3>3
  <2>2. sclDrive'
    BY <1>2, <1>3 DEF Clocked
  <2>3. ack' => e + 1 \in Acks
    BY <1>2, <1>6 DEF Clocked
  <2> QED
    BY <1>1, <2>1, <2>2, <2>3 DEF Clocked
<1>8. Sampled(e + 1)'
  <2>1. Len(seen') = e
    BY <1>2, <1>6 DEF Sampled
  <2>2. \A i \in 0 .. 23 : Place(i) <= Len(seen') => seen'[Place(i)] = bits'[i]
    BY <1>2, <1>3, <1>6 DEF Sampled
  <2> QED
    BY <1>1, <2>1, <2>2 DEF Sampled
<1>9. Judged(e + 1)'
  <2>1. failure' <=> \E i \in Acks : i <= e /\ seen'[i]
    BY <1>2, <1>3, <1>6 DEF Judged
  <2> QED
    BY <1>1, <2>1 DEF Judged
<1>10. count' = 40 * (Len(frames) + 1) + (e + 1) + 0
  BY <1>6 DEF Sending
<1>11. Len(frames') < Len(Settings) /\ bits' = Frame(Settings[Len(frames') + 1])
  BY <1>3, <1>6 DEF Sending
<1> QED
  BY <1>1, <1>2, <1>3, <1>5, <1>6, <1>7, <1>8, <1>9, <1>10, <1>11 DEF Sending

\* With the last rising edge of a word the codec sees the STOP, and has
\* received the frame.
LEMMA StopSending ==
  ASSUME Typed, Tick, quarter = 2, Sending(28)
  PROVE  /\ Waiting' /\ Stop
         /\ frames' = Append(frames, Frame(Settings[Len(frames) + 1]))
<1>1. quarter' = 3 /\ Stop /\ UNCHANGED sequencer
  BY TickByQuarter, RiseStop DEF Sending
<1>2. At(28) /\ Clocked(28) /\ Sampled(28) /\ open
  BY DEF Sending
<1>3. UNCHANGED <<bits, index, sdaBit, sclDrive, count>> /\ state' = "idle"
  BY <1>1 DEF Stop, sequencer
<1>4. ~ sdaBit /\ ~ sclDrive /\ ~ ack /\ index = 0 /\ state = "stop"
  BY <1>2 DEF Clocked, Acks, At
<1>5. Scl /\ Scl'
  BY <1>3, <1>4 DEF Scl
<1>6. ~ Sda /\ MasterSda'
  BY <1>3, <1>4 DEF Sda, MasterSda, Driving
<1>7. Len(seen) = 28
  BY <1>2 DEF Sampled
<1>8. open' = FALSE /\ seen' = <<>> /\ frames' = Append(frames, Decoded(seen)) /\ UNCHANGED ack
  <2>1. Receive(Scl, Sda, Scl', MasterSda' /\ ~ ack)
    BY DEF Tick
  <2>2. /\ open' = FALSE /\ seen' = <<>> /\ UNCHANGED ack
        /\ frames' = IF open /\ Len(seen) >= 27 THEN Append(frames, Decoded(seen)) ELSE frames
    BY <1>4, <1>5, <1>6, <2>1, Zenon DEF Receive
  <2> QED
    BY <1>2, <1>7, <2>2
<1>9. Decoded(seen) = bits
  <2>1. \A i \in 0 .. 23 : seen[Place(i)] = bits[i]
    BY <1>2, <1>7, Places DEF Sampled
  <2>2. bits = [i \in 0 .. 23 |-> bits[i]]
    BY SendingBits DEF Vector
  <2> QED
    BY <2>1, <2>2 DEF Decoded, Place
<1>10. bits = Frame(Settings[Len(frames) + 1])
  BY DEF Sending
<1>11. Waiting'
  <2>1. frames \in Seq(Vector) /\ Decoded(seen) \in Vector
    BY <1>9, SendingBits DEF Typed
  <2>2. Len(frames') = Len(frames) + 1 /\ Len(frames) \in Nat
    BY <1>8, <2>1, AppendProperties
  <2>3. count' = 40 * (Len(frames) + 1) + 29
    BY <1>3 DEF Sending
  <2>4. /\ count' > 40 * Len(frames')
        /\ count' <= 40 * (Len(frames') + 1) /\ count' < 40 * (Len(frames') + 1)
    BY <2>2, <2>3
  <2> QED
    BY <1>3, <1>4, <1>8, <2>4 DEF Waiting
<1> QED
  BY <1>1, <1>8, <1>9, <1>10, <1>11

-----------------------------------------------------------------------------
(* The ticks while no word is sent.                                        *)

\* Away from its rising edge an idle machine leaves both lines high.
LEMMA StillWaiting ==
  ASSUME Typed, Tick, quarter # 2, Waiting
  PROVE  Waiting' /\ UNCHANGED codec
<1>1. state = "idle" /\ ~ sclDrive
  BY DEF Waiting
<1>2. UNCHANGED <<state, index, sdaBit, sclDrive>>
  <2>1. CASE Fall
    BY <1>1, <2>1 DEF Fall
  <2>2. CASE UNCHANGED machine
    BY <2>2 DEF machine
  <2> QED
    BY <2>1, <2>2, TickByQuarter
<1>3. Scl /\ Scl'
  BY <1>1, <1>2 DEF Scl
<1>4. MasterSda' <=> MasterSda
  BY <1>2, LineKept
<1>5. Receive(Scl, Sda, Scl', MasterSda' /\ ~ ack)
  BY DEF Tick
<1>6. UNCHANGED codec
  BY <1>3, <1>4, <1>5, Zenon DEF Receive, Sda
<1>7. UNCHANGED <<ack, open, seen, frames>>
  BY <1>6 DEF codec
<1>8. Len(frames) \in Nat /\ count \in 0 .. 480 /\ Len(Settings) = 11
  BY SettingsType DEF Typed
<1>9. CASE quarter = 3
  <2>1. quarter' = 0 /\ count' = IF count = 480 THEN 480 ELSE count + 1
    BY <1>9, TickByQuarter DEF Sequence
  <2>2. count' >= count /\ count' <= count + 1
    BY <1>8, <2>1
  <2>3. Len(frames') > 0 => count' > 40 * Len(frames')
    BY <1>7, <1>8, <2>1, <2>2 DEF Waiting
  <2>4. Len(frames') < Len(Settings) => count' <= 40 * (Len(frames') + 1)
    BY <1>7, <1>8, <1>9, <2>1, <2>2 DEF Waiting
  <2> QED
    BY <1>2, <1>6, <1>7, <2>1, <2>3, <2>4 DEF Waiting
<1>10. CASE quarter # 3
  <2>1. count' = count /\ quarter' # 3
    BY <1>10, TickByQuarter DEF sequencer
  <2> QED
    BY <1>2, <1>6, <1>7, <2>1 DEF Waiting
<1> QED
  BY <1>9, <1>10

\* The word that is offered to an idle machine is the next for the codec.
LEMMA NextOffered ==
  ASSUME Typed, Offered, SettingsInOrder, Waiting, quarter = 2, valid
  PROVE  /\ Len(frames) < Len(Settings)
         /\ count = 40 * (Len(frames) + 1)
         /\ word = Settings[Len(frames) + 1]
<1> DEFINE n == OfferedAt(count)
<1>1. n \in 1 .. 11 /\ count = 40 * n /\ word = Settings[n]
  <2>1. count \in Nat
    BY DEF Typed
  <2>2. n # 0 /\ word = Settings[n]
    BY DEF Offered
  <2> QED
    BY <2>1, <2>2, OfferedNumbers
<1>2. Len(frames) \in Nat /\ Len(frames) <= 11 /\ Len(Settings) = 11
  BY SettingsType DEF SettingsInOrder, Typed
<1> HIDE DEF n
<1>3. Len(frames) > 0 => 40 * n > 40 * Len(frames)
  BY <1>1 DEF Waiting
<1>4. Len(frames) < n
  BY <1>1, <1>2, <1>3
<1>5. Len(frames) < 11 /\ 40 * n <= 40 * (Len(frames) + 1)
  BY <1>1, <1>2, <1>4 DEF Waiting
<1>6. n = Len(frames) + 1
  BY <1>1, <1>2, <1>4, <1>5
<1> QED
  BY <1>1, <1>2, <1>5, <1>6

\* An offered word is accepted, and with it the codec sees the START.
LEMMA AcceptWaiting ==
  ASSUME Typed, Offered, SettingsInOrder, Tick, quarter = 2, Waiting, valid
  PROVE  Sending(0)' /\ Accept /\ UNCHANGED frames
<1>1. quarter' = 3 /\ UNCHANGED sequencer /\ Accept
  BY TickByQuarter, RiseByState DEF Waiting, Stay
<1>2. /\ state = "idle" /\ ~ sdaBit /\ ~ sclDrive /\ ~ ack /\ index = 0
  BY DEF Waiting
<1>3. state' = "start" /\ bits' = Frame(word) /\ UNCHANGED <<index, sdaBit, sclDrive, count>>
  BY <1>1 DEF Accept, sequencer
<1>4. Scl /\ Scl' /\ Sda /\ ~ MasterSda'
  BY <1>2, <1>3 DEF Scl, Sda, MasterSda, Driving
<1>5. open' = TRUE /\ seen' = <<>> /\ UNCHANGED <<ack, frames>>
  <2>1. Receive(Scl, Sda, Scl', MasterSda' /\ ~ ack)
    BY DEF Tick
  <2> QED
    BY <1>4, <2>1, Zenon DEF Receive
<1>6. At(0)'
  BY <1>2, <1>3 DEF At
<1>7. Clocked(0)'
  BY <1>1, <1>2, <1>3, <1>5 DEF Clocked
<1>8. Sampled(0)'
  <2>1. Len(seen') = 0
    BY <1>5
  <2>2. \A i \in 0 .. 23 : ~ (Place(i) <= 0)
    BY Places
  <2> QED
    BY <1>1, <2>1, <2>2 DEF Sampled
<1>9. Judged(0)'
  BY <1>1 DEF Judged
<1>10. Len(frames) < Len(Settings) /\ count = 40 * (Len(frames) + 1) /\ word = Settings[Len(frames) + 1]
  BY NextOffered
<1>11. count' = 40 * (Len(frames') + 1) + 0 + 0
  BY <1>3, <1>5, <1>10 DEF Typed
<1> QED
  BY <1>1, <1>3, <1>5, <1>6, <1>7, <1>8, <1>9, <1>10, <1>11 DEF Sending

\* While none is offered the machine stays where it is.
LEMMA StayWaiting ==
  ASSUME Typed, Offered, SettingsInOrder, Tick, quarter = 2, Waiting, ~ valid
  PROVE  Waiting' /\ UNCHANGED codec /\ state' = "idle"
<1>1. quarter' = 3 /\ UNCHANGED sequencer /\ UNCHANGED machine
  <2>1. quarter' = 3 /\ UNCHANGED sequencer /\ Rise
    BY TickByQuarter
  <2>2. Stay \/ Accept
    BY <2>1, RiseByState DEF Waiting
  <2> QED
    BY <2>1, <2>2 DEF Stay, Accept
<1>2. UNCHANGED <<state, index, sdaBit, sclDrive, count>>
  BY <1>1 DEF machine, sequencer
<1>3. Scl /\ Scl'
  BY <1>2 DEF Scl, Waiting
<1>4. MasterSda' <=> MasterSda
  BY <1>2, LineKept
<1>5. Receive(Scl, Sda, Scl', MasterSda' /\ ~ ack)
  BY DEF Tick
<1>6. UNCHANGED codec
  BY <1>3, <1>4, <1>5, Zenon DEF Receive, Sda
<1>7. UNCHANGED <<ack, open, seen, frames>>
  BY <1>6 DEF codec
<1>8. Len(frames) < Len(Settings) => count # 40 * (Len(frames) + 1)
  <2>1. Len(frames) \in Nat /\ Len(Settings) = 11
    BY SettingsType DEF Typed
  <2>2. OfferedAt(count) = 0
    BY DEF Offered
  <2>3. ASSUME Len(frames) < 11
        PROVE  OfferedAt(40 * (Len(frames) + 1)) = Len(frames) + 1
    <3>1. Len(frames) + 1 \in 1 .. 11
      BY <2>1, <2>3
    <3> QED
      BY <3>1, OfferedNumbers
  <2> QED
    BY <2>1, <2>2, <2>3
<1>9. Len(frames) < Len(Settings) => count < 40 * (Len(frames) + 1)
  BY <1>8, SettingsType DEF Waiting, Typed
<1> QED
  BY <1>1, <1>2, <1>6, <1>7, <1>9 DEF Waiting

-----------------------------------------------------------------------------
(* The invariant holds.                                                    *)

LEMMA OfferedStep ==
  ASSUME Typed, Offered, Tick
  PROVE  Offered'
<1>1. CASE quarter = 3
  <2>1. Sequence
    BY <1>1, TickByQuarter
  <2>2. valid' <=> OfferedAt(count') # 0
    BY <2>1, Zenon DEF Sequence
  <2>3. word' = IF OfferedAt(count') # 0 THEN Settings[OfferedAt(count')] ELSE word
    BY <2>1 DEF Sequence
  <2>4. valid' => word' = Settings[OfferedAt(count')]
    BY <2>2, <2>3
  <2> QED
    BY <2>2, <2>4, Zenon DEF Offered
<1>2. CASE quarter # 3
  <2>1. UNCHANGED <<count, valid, word>>
    BY <1>2, TickByQuarter DEF sequencer
  <2> QED
    BY <2>1 DEF Offered
<1> QED
  BY <1>1, <1>2

LEMMA KeptInOrder ==
  ASSUME SettingsInOrder, UNCHANGED frames
  PROVE  SettingsInOrder'
BY DEF SettingsInOrder

LEMMA AppendedInOrder ==
  ASSUME Typed, SettingsInOrder, Len(frames) < Len(Settings),
         frames' = Append(frames, Frame(Settings[Len(frames) + 1]))
  PROVE  SettingsInOrder'
<1> DEFINE new == Frame(Settings[Len(frames) + 1])
<1>1. frames \in Seq(Vector) /\ new \in Vector /\ Len(frames) \in Nat
  BY FrameType DEF Typed
<1>2. frames' = Append(frames, new)
  OBVIOUS
<1>3. Len(Settings) = 11
  BY SettingsType
<1> HIDE DEF new
<1>4. /\ Len(frames') = Len(frames) + 1 /\ DOMAIN frames' = 1 .. Len(frames) + 1
      /\ \A n \in 1 .. Len(frames) : frames'[n] = frames[n]
      /\ frames'[Len(frames) + 1] = new
  BY <1>1, <1>2, AppendProperties
<1>5. ASSUME NEW n \in 1 .. Len(frames) + 1
      PROVE  frames'[n] = Frame(Settings[n])
  <2>1. CASE n = Len(frames) + 1
    BY <1>4, <2>1 DEF new
  <2>2. CASE n # Len(frames) + 1
    <3>1. n \in 1 .. Len(frames) /\ n \in DOMAIN frames
      BY <1>1, <2>2
    <3> QED
      BY <1>4, <3>1 DEF SettingsInOrder
  <2> QED
    BY <2>1, <2>2
<1>6. Len(frames') <= Len(Settings)
  BY <1>1, <1>3, <1>4
<1> QED
  BY <1>4, <1>5, <1>6 DEF SettingsInOrder

LEMMA InitInvariant == ControlInit => IInv
<1> SUFFICES ASSUME ControlInit PROVE IInv
  OBVIOUS
<1>1. OfferedAt(0) = 0
  BY OfferedNumbers
<1>2. Len(frames) = 0 /\ DOMAIN frames = {} /\ Len(Settings) = 11
  BY SettingsType DEF ControlInit
<1>3. Typed
  <2>1. seen \in Seq(BOOLEAN) /\ frames \in Seq(Vector)
    BY DEF ControlInit
  <2>2. Flags \subseteq BOOLEAN
    BY DEF ControlInit, Flags
  <2>3. quarter \in 0 .. 3 /\ count \in 0 .. 480
    BY DEF ControlInit
  <2> QED
    BY <2>1, <2>2, <2>3 DEF Typed
<1>4. Offered
  BY <1>1 DEF ControlInit, Offered
<1>5. SettingsInOrder
  BY <1>2 DEF SettingsInOrder
<1>6. Waiting
  BY <1>2 DEF ControlInit, Waiting
<1> QED
  BY <1>3, <1>4, <1>5, <1>6 DEF IInv

LEMMA TickInvariant == IInv /\ Tick => IInv'
<1> SUFFICES ASSUME IInv, Tick PROVE IInv'
  OBVIOUS
<1>1. Typed /\ Offered /\ SettingsInOrder /\ (Waiting \/ \E e \in 0 .. 28 : Sending(e))
  BY DEF IInv
<1>2. Typed' /\ Offered'
  BY <1>1, TypedStep, OfferedStep
<1>3. SettingsInOrder' /\ (Waiting' \/ \E e \in 0 .. 28 : Sending(e)')
  <2>1. CASE Waiting /\ quarter = 2 /\ valid
    <3>1. Sending(0)' /\ UNCHANGED frames
      BY <1>1, <2>1, AcceptWaiting
    <3> QED
      BY <1>1, <3>1, KeptInOrder
  <2>2. CASE Waiting /\ ~ (quarter = 2 /\ valid)
    <3>1. Waiting' /\ UNCHANGED codec
      BY <1>1, <2>2, StayWaiting, StillWaiting
    <3> QED
      BY <1>1, <3>1, KeptInOrder DEF codec
  <2>3. ASSUME NEW e \in 0 .. 28, Sending(e), quarter \in {0, 1, 3}
        PROVE  Sending(e)' /\ UNCHANGED frames
    <3>1. CASE quarter = 0
      BY <1>1, <2>3, <3>1, FallSending, FallCodec DEF codec
    <3>2. CASE quarter = 1
      BY <1>1, <2>3, <3>2, QuietSending
    <3>3. CASE quarter = 3
      BY <1>1, <2>3, <3>3, SequenceSending
    <3> QED
      BY <2>3, <3>1, <3>2, <3>3
  <2>4. ASSUME NEW e \in 0 .. 27, Sending(e), quarter = 2
        PROVE  Sending(e + 1)' /\ UNCHANGED frames /\ e + 1 \in 0 .. 28
    BY <1>1, <2>4, RiseSending DEF codec
  <2>5. ASSUME Sending(28), quarter = 2
        PROVE  Waiting' /\ SettingsInOrder'
    <3>1. Waiting' /\ frames' = Append(frames, Frame(Settings[Len(frames) + 1]))
      BY <1>1, <2>5, StopSending
    <3>2. Len(frames) < Len(Settings)
      BY <2>5 DEF Sending
    <3> QED
      BY <1>1, <3>1, <3>2, AppendedInOrder
  <2>6. CASE \E e \in 0 .. 28 : Sending(e)
    <3>1. PICK e \in 0 .. 28 : Sending(e)
      BY <2>6
    <3>2. quarter \in {0, 1, 3} \/ (quarter = 2 /\ e \in 0 .. 27) \/ (quarter = 2 /\ e = 28)
      BY <1>1 DEF Typed
    <3> QED
      BY <1>1, <2>3, <2>4, <2>5, <3>1, <3>2, KeptInOrder
  <2> QED
    BY <1>1, <2>1, <2>2, <2>6
<1> QED
  BY <1>2, <1>3 DEF IInv

LEMMA StutterInvariant == IInv /\ UNCHANGED controlVars => IInv'
<1> SUFFICES ASSUME IInv, UNCHANGED controlVars PROVE IInv'
  OBVIOUS
<1> USE DEF controlVars, sequencer, machine, codec
<1>1. Typed' /\ Offered' /\ SettingsInOrder'
  BY DEF IInv, Typed, Flags, Offered, SettingsInOrder
<1>2. ASSUME NEW e \in 0 .. 28, Sending(e)
      PROVE  Sending(e)'
  <2>1. At(e)'
    BY <1>2 DEF Sending, At
  <2>2. Clocked(e)'
    BY <1>2 DEF Sending, Clocked
  <2>3. Sampled(e)'
    BY <1>2 DEF Sending, Sampled
  <2>4. Judged(e)'
    BY <1>2 DEF Sending, Judged
  <2> QED
    BY <1>2, <2>1, <2>2, <2>3, <2>4 DEF Sending
<1>3. Waiting => Waiting'
  BY DEF Waiting
<1> QED
  BY <1>1, <1>2, <1>3 DEF IInv

\* Every reachable state is idle between two words or at one place of the
\* frame of the next, with what the codec has sampled beside it.
THEOREM TransmissionPlaced == ControlSpec => []IInv
<1>1. ControlInit => IInv
  BY InitInvariant
<1>2. IInv /\ [Tick]_controlVars => IInv'
  BY TickInvariant, StutterInvariant
<1> QED
  BY <1>1, <1>2, PTL DEF ControlSpec

\* The codec receives the settings in their order and nothing else, for
\* every pattern of its answers (AudioControl.vhd sends the word although an
\* acknowledge is missing).
THEOREM SettingsArriveInOrder == ControlSpec => []SettingsInOrder
<1>1. IInv => SettingsInOrder
  BY DEF IInv
<1> QED
  BY <1>1, TransmissionPlaced, PTL

\* A word has arrived thirty periods after it was offered, answered or not.
Prompt == \A n \in DOMAIN Settings : count >= 40 * n + 30 => Len(frames) >= n

\* Every word arrives before the next is offered, so that none is offered to
\* a machine that is not idle: nobody would offer it again.  That it arrives
\* at all (AllReceived) only needs the clock to go on.
THEOREM WordsPrompt == ControlSpec => []Prompt
<1>1. IInv => Prompt
  <2> SUFFICES ASSUME IInv, NEW n \in 1 .. 11, count >= 40 * n + 30, Len(frames) < n
               PROVE  FALSE
    <3>1. Len(frames) \in Nat
      BY DEF IInv, Typed
    <3> QED
      BY <3>1, SettingsType DEF Prompt
  <2>1. Len(frames) \in Nat /\ count \in Nat /\ Len(Settings) = 11
    BY SettingsType DEF IInv, Typed
  <2>2. CASE Waiting
    <3>1. count <= 40 * (Len(frames) + 1)
      BY <2>1, <2>2 DEF Waiting
    <3> QED
      BY <2>1, <3>1
  <2>3. ASSUME NEW e \in 0 .. 28, Sending(e)
        PROVE  FALSE
    <3>1. count = 40 * (Len(frames) + 1) + e + (IF quarter = 3 THEN 0 ELSE 1)
      BY <2>3 DEF Sending
    <3>2. count <= 40 * (Len(frames) + 1) + 29
      BY <2>1, <3>1
    <3> QED
      BY <2>1, <3>2
  <2> QED
    BY <2>2, <2>3 DEF IInv
<1> QED
  BY <1>1, TransmissionPlaced, PTL

-----------------------------------------------------------------------------
(* What a tick does to sda and to success.                                 *)

LEMMA TickSteady ==
  ASSUME IInv, Tick, Scl, Scl'
  PROVE  \/ Sda' <=> Sda
         \/ state = "idle" /\ state' = "start"
         \/ state = "stop" /\ state' = "idle"
<1>1. Typed /\ Offered /\ SettingsInOrder /\ (Waiting \/ \E e \in 0 .. 28 : Sending(e))
  BY DEF IInv
<1>2. ASSUME UNCHANGED <<state, sdaBit>>, ack' <=> ack
      PROVE  Sda' <=> Sda
  BY <1>2, LineKept DEF Sda
<1>3. quarter # 2 => UNCHANGED <<state, sdaBit>>
  BY <1>1, TickByQuarter DEF Fall, machine
<1>4. CASE Waiting /\ quarter = 2 /\ valid
  BY <1>1, <1>4, AcceptWaiting DEF Accept
<1>5. CASE Waiting /\ quarter = 2 /\ ~ valid
  <2>1. Waiting'
    BY <1>1, <1>5, StayWaiting
  <2> QED
    BY <1>5, <2>1 DEF Waiting, Sda, MasterSda, Driving
<1>6. CASE Waiting /\ quarter # 2
  BY <1>1, <1>2, <1>3, <1>6, StillWaiting DEF codec
<1>7. ASSUME NEW e \in 0 .. 28, Sending(e)
      PROVE  (Sda' <=> Sda) \/ (state = "stop" /\ state' = "idle")
  <2>1. CASE quarter = 0
    BY <1>1, <1>2, <1>3, <2>1, FallCodec DEF codec
  <2>2. CASE quarter = 1
    <3>1. Sending(e)' /\ quarter' = 2
      BY <1>1, <1>7, <2>2, QuietSending, TickByQuarter
    <3>2. e = 28
      BY <3>1 DEF Sending, Clocked, Scl
    <3>3. ~ ack /\ ~ ack'
      BY <1>7, <2>2, <3>1, <3>2 DEF Sending, Clocked, Acks
    <3> QED
      BY <1>2, <1>3, <2>2, <3>3
  <2>3. CASE quarter = 2
    <3>1. e = 28
      BY <1>7, <2>3 DEF Sending, Clocked, Scl
    <3>2. Stop
      BY <1>1, <1>7, <2>3, <3>1, StopSending
    <3> QED
      BY <3>2 DEF Stop
  <2>4. CASE quarter = 3
    <3>1. e = 0
      BY <1>7, <2>4 DEF Sending, Clocked, Scl
    <3>2. Sending(e)' /\ quarter' = 0
      BY <1>1, <1>7, <2>4, SequenceSending, TickByQuarter
    <3>3. ~ ack /\ ~ ack'
      BY <1>7, <2>4, <3>1, <3>2 DEF Sending, Clocked, Acks
    <3> QED
      BY <1>2, <1>3, <2>4, <3>3
  <2> QED
    BY <1>1, <2>1, <2>2, <2>3, <2>4 DEF Typed
<1> QED
  BY <1>1, <1>4, <1>5, <1>6, <1>7

\* While scl is high sda moves for START and STOP alone, whatever the codec
\* answers.
THEOREM LineSteady == ControlSpec => SdaSteady
<1> DEFINE Meant == Scl /\ Scl' /\ Sda # Sda' =>
             (state = "idle" /\ state' = "start") \/ (state = "stop" /\ state' = "idle")
<1>1. IInv /\ [Tick]_controlVars => [Meant]_controlVars
  <2> SUFFICES ASSUME IInv, Tick, Scl, Scl', Sda # Sda'
               PROVE  (state = "idle" /\ state' = "start") \/ (state = "stop" /\ state' = "idle")
    OBVIOUS
  <2>1. ~ (Sda' <=> Sda)
    BY Zenon DEF Sda
  <2> QED
    BY <2>1, TickSteady
<1>2. SdaSteady <=> [][Meant]_controlVars
  BY DEF SdaSteady
<1> HIDE DEF Meant
<1> QED
  BY <1>1, <1>2, TransmissionPlaced, PTL DEF ControlSpec

LEMMA TickAnswered ==
  ASSUME IInv, Tick, state = "stop", state' = "idle"
  PROVE  success' = (\A i \in {9, 18, 27} : ~ seen[i])
<1>1. Typed /\ \E e \in 0 .. 28 : Sending(e)
  BY DEF IInv, Waiting
<1>2. quarter = 2
  BY <1>1, TickByQuarter DEF Fall, machine
<1>3. Sending(28)
  BY <1>1, AtStates DEF Sending
<1>4. Stop
  BY <1>1, <1>2, <1>3, StopSending
<1>5. failure \in BOOLEAN /\ success' = ~ failure
  BY <1>1, <1>4 DEF Stop, Typed, Flags
<1> DEFINE answered == \A i \in {9, 18, 27} : ~ seen[i]
<1>6. ~ failure <=> answered
  <2>1. failure <=> \E i \in Acks : i <= 28 /\ seen[i]
    BY <1>2, <1>3 DEF Sending, Judged
  <2> QED
    BY <2>1 DEF Acks
<1>7. answered \in BOOLEAN
  OBVIOUS
<1>8. success' = answered
  <2> HIDE DEF answered
  <2> QED
    BY <1>5, <1>6, <1>7
<1> QED
  BY <1>8

\* success tells whether the codec acknowledged all three bytes.
THEOREM SuccessAnswered == ControlSpec => SuccessIsAnswered
<1> DEFINE Truthful == state = "stop" /\ state' = "idle" =>
                     success' = (\A i \in {9, 18, 27} : ~ seen[i])
<1>1. IInv /\ [Tick]_controlVars => [Truthful]_controlVars
  BY TickAnswered
<1>2. SuccessIsAnswered <=> [][Truthful]_controlVars
  BY DEF SuccessIsAnswered
<1> HIDE DEF Truthful
<1> QED
  BY <1>1, <1>2, TransmissionPlaced, PTL DEF ControlSpec
=============================================================================
