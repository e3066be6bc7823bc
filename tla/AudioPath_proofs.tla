-------------------------- MODULE AudioPath_proofs --------------------------
(***************************************************************************)
(* The path of samples through the network, for any number of samples and  *)
(* commands of the program: they stay in order, none is played twice on    *)
(* the direct path, and the network keeps up.                              *)
(***************************************************************************)
EXTENDS AudioPath, TdmaMin_proofs

-----------------------------------------------------------------------------
(* The inductive invariant.                                                *)

\* The words of samples and results.
Samples(k) == {DataWord(c, n) : c \in Channel, n \in 0 .. MaxSamples[k]}

SampleWords == Samples(program)

\* What a program may hold on a send port.
HeldWords == (ConfigWords(program) \cap Data) \cup {Nothing}

\* The packets each core sends: the ADC processor only samples, and none of
\* them past the filter or into it; the filter only results, to the DAC
\* processor; the two processors only configuration words.
Legal(k, p, m) ==
  \/ p = Term[ADC_PORT] /\ m.data \in Samples(k)
                        /\ m.addr \in Terminal \ {Term[Bypassed(k)]}
  \/ p = Term[FIR_PORT] /\ k = "filtered" /\ m.data \in Samples(k)
                        /\ m.addr = Term[DAC_PORT]
  \/ p \in {Term[NIOS_PORT], Term[RECOP_PORT]} /\ m.data \in ConfigWords(k)

\* They are what the network holds, and the slot tells where a word received
\* is from.
Carried ==
  /\ \A p \in Ports : \A i \in 1 .. Len(fifo[p]) : Legal(program, p, fifo[p][i])
  /\ \A d \in Ports : recv[d].data # Nothing =>
       /\ recv[d].addr \in Ports
       /\ Legal(program, recv[d].addr, [addr |-> d, data |-> recv[d].data])
       /\ slot = Increment(Xor(d, recv[d].addr))

\* The types of the cores' registers.
Cores ==
  /\ program \in Program /\ gap \in Gaps
  /\ taken \in 0 .. MaxSamples[program] /\ pause \in Nat
  /\ adcAddr \in [Channel -> (0 .. 7) \ {Bypassed(program)}]
  /\ newData \in BOOLEAN
  /\ newData => sample \in [ch : Channel, value : 0 .. taken]
  /\ adcSend.word.header # "none" =>
       adcSend.word \in SampleWords /\ adcSend.addr \in (0 .. 7) \ {Bypassed(program)}
  /\ put # NoPut => put \in [ch : Channel, value : Nat]
  /\ dacSend.word.header = "none"
  /\ firAddr = [c \in Channel |-> DAC_PORT]
  /\ firVal = [i \in Tap |-> CASE i = 0 -> 4 [] i = 3 -> -4 [] OTHER -> 0]
  /\ line \in [Channel -> [Tap -> Nat]]
  /\ firSend.word.header # "none" =>
       program = "filtered" /\ firSend.word \in SampleWords /\ firSend.addr = DAC_PORT
  /\ dpcr \in HeldWords
  /\ outgoing \in [addr : 0 .. 7, word : HeldWords]
  /\ niosSend \in [addr : 0 .. 7, word : HeldWords]

\* The samples between codec and DAC processor or filter, each in its place:
\* the numbers in one place are above those further on.
Exit == IF program = "filtered" THEN FIR_PORT ELSE DAC_PORT

Rising ==
  LET queue == fifo[Term[ADC_PORT]] IN
  \E b \in [1 .. 4 -> Nat] :
    /\ b[1] <= b[2] /\ b[2] <= b[3] /\ b[3] <= b[4] /\ b[4] <= taken
    /\ IF program = "filtered" THEN \A c \in Channel : line[c][0] <= b[1]
       ELSE put # NoPut => put.value <= b[1]
    /\ Received(Exit).header = "data" => b[1] < Received(Exit).value /\ Received(Exit).value <= b[2]
    /\ \A i \in 1 .. Len(queue) : b[2] < queue[i].data.value /\ queue[i].data.value <= b[3]
    /\ \A i, j \in 1 .. Len(queue) : i < j => queue[i].data.value < queue[j].data.value
    /\ adcSend.word.header = "data" => b[3] < adcSend.word.value /\ adcSend.word.value <= b[4]
    /\ newData => b[4] < sample.value

\* The samples in the line of the filter, the last one first.
Lines ==
  \A c \in Channel : \A i \in 0 .. 2 : line[c][i + 1] < line[c][i] \/ line[c][i + 1] = 0

\* The results between filter and codec, in the same way, up to the sample
\* before the last one.
Resulting(c) ==
  LET queue == fifo[Term[FIR_PORT]]
      got   == Received(DAC_PORT) IN
  \E b \in [1 .. 3 -> Nat] :
    /\ b[1] <= b[2] /\ b[2] <= b[3] /\ b[3] <= line[c][1]
    /\ put # NoPut /\ put.ch = c => put.value <= b[1]
    /\ got.header = "data" /\ got.ch = c => b[1] <= got.value /\ got.value <= b[2]
    /\ \A i \in 1 .. Len(queue) : queue[i].data.ch = c =>
         b[2] <= queue[i].data.value /\ queue[i].data.value <= b[3]
    /\ \A i, j \in 1 .. Len(queue) :
         i < j /\ queue[i].data.ch = c /\ queue[j].data.ch = c =>
           queue[i].data.value <= queue[j].data.value
    /\ firSend.word.header = "data" /\ firSend.word.ch = c =>
         b[3] <= firSend.word.value /\ firSend.word.value <= line[c][1]

\* No word reaches the DAC processor right after a sample of the direct path.
Alone == program # "filtered" /\ put # NoPut => Received(DAC_PORT) = Nothing

\* With a round of slots between samples, the fifo of the ADC processor will
\* be empty again when the next sample comes to it.
Spaced ==
  LET queue == fifo[Term[ADC_PORT]] 
      wait  == Distance(slot, Target(Term[ADC_PORT])) IN
  gap >= 2 ^ Stages =>
    /\ newData => pause = gap - 1
    /\ adcSend.word.header = "data" => ~ newData /\ pause >= gap - 2
    /\ Len(queue) <= 1
    /\ Len(queue) = 1 =>
         /\ wait <= pause + 2
         /\ newData => wait <= 1
         /\ adcSend.word.header = "data" => wait = 0

PathInv ==
  /\ TypeOK /\ Carried /\ Cores
  /\ Rising /\ Lines /\ Alone /\ Spaced
  /\ program = "filtered" => \A c \in Channel : Resulting(c)

-----------------------------------------------------------------------------
(* The terminals of the ports.                                             *)

\* The digits of the numbers up to seven.
LEMMA Digits ==
  ASSUME NEW n \in 0 .. 7, NEW k \in Bit
  PROVE  /\ n \in 0 .. 2 ^ Stages - 1
         /\ Term[n][k] \in BOOLEAN
         /\ Term[n][k] <=> \/ k = 0 /\ n \in {1, 3, 5, 7}
                           \/ k = 1 /\ n \in {2, 3, 6, 7}
                           \/ k = 2 /\ n \in {4, 5, 6, 7}
<1>1. Stages \in Nat /\ Stages >= 3 /\ k \in Nat
  BY StagesAssumption, PortsWired DEF Bit
<1>2. 2 ^ 0 = 1 /\ 2 ^ 1 = 2 /\ 2 ^ 2 = 4 /\ Power(3) = 8
  BY DEF Power
<1>3. ASSUME NEW m \in Nat, m >= 3 PROVE 2 ^ m \in Nat /\ 2 ^ m >= 8
  <2>1. PICK q \in Nat : Power(m) = q * Power(3)
    BY <1>3, PowerDivides
  <2>2. Power(m) \in Nat \ {0}
    BY Powers
  <2> DEFINE a == Power(m)
  <2>3. a = q * 8 /\ a \in Nat \ {0}
    BY <1>2, <2>1, <2>2
  <2> HIDE DEF a
  <2>4. a >= 8
    BY <2>3
  <2> QED
    BY <2>2, <2>4 DEF a, Power
<1>4. n \in 0 .. 2 ^ Stages - 1
  <2> DEFINE round == 2 ^ Stages
  <2>1. round \in Nat /\ round >= 8
    BY <1>1, <1>3
  <2> HIDE DEF round
  <2>2. n \in 0 .. round - 1
    BY <2>1
  <2> QED
    BY <2>2 DEF round
<1> DEFINE digit == (n \div (2 ^ k)) % 2
           set   == \/ k = 0 /\ n \in {1, 3, 5, 7}
                    \/ k = 1 /\ n \in {2, 3, 6, 7}
                    \/ k = 2 /\ n \in {4, 5, 6, 7}
<1>5. Term[n][k] = (digit = 1)
  BY <1>4 DEF Term
<1>6. digit = 1 <=> set
  <2>1. CASE k = 0
    BY <1>2, <2>1
  <2>2. CASE k = 1
    BY <1>2, <2>2
  <2>3. CASE k = 2
    BY <1>2, <2>3
  <2>4. CASE k >= 3
    <3> DEFINE a == 2 ^ k
    <3>1. a \in Nat /\ a >= 8
      BY <1>1, <1>3, <2>4
    <3>2. digit = (n \div a) % 2
      OBVIOUS
    <3> HIDE DEF a, digit
    <3>3. n \div a = 0
      BY <3>1
    <3>4. digit = 0
      BY <3>2, <3>3
    <3> QED
      BY <2>4, <3>4
  <2> HIDE DEF digit
  <2> QED
    BY <1>1, <2>1, <2>2, <2>3, <2>4
<1> HIDE DEF digit, set
<1>7. Term[n][k] \in BOOLEAN /\ (Term[n][k] <=> set)
  BY <1>5, <1>6, Zenon
<1> QED
  BY <1>4, <1>7 DEF set

LEMMA Round == 2 ^ Stages \in Nat /\ 2 ^ Stages >= 8
<1> DEFINE round == 2 ^ Stages
<1>1. 0 \in Bit
  BY StagesAssumption DEF Bit
<1>2. 7 \in 0 .. round - 1
  BY <1>1, Digits
<1>3. round \in Nat
  BY StagesAssumption, Powers DEF Power
<1> HIDE DEF round
<1>4. round \in Nat /\ round >= 8
  BY <1>2, <1>3
<1> QED
  BY <1>4 DEF round

\* Different numbers are different terminals.
LEMMA Terminals ==
  /\ \A n \in 0 .. 7 : Term[n] \in Terminal
  /\ \A m, n \in 0 .. 7 : Term[m] = Term[n] => m = n
<1>1. {0, 1, 2} \subseteq Bit
  BY StagesAssumption, PortsWired DEF Bit
<1>2. ASSUME NEW n \in 0 .. 7 PROVE Term[n] \in Terminal
  <2>1. Term[n] = [k \in Bit |-> Term[n][k]]
    <3>1. 0 \in Bit
      BY <1>1
    <3>2. n \in 0 .. 2 ^ Stages - 1
      BY <3>1, Digits
    <3>3. Term[n] = [k \in Bit |-> (n \div (2 ^ k)) % 2 = 1]
      BY <3>2 DEF Term
    <3> QED
      BY <3>3
  <2>2. \A k \in Bit : Term[n][k] \in BOOLEAN
    BY Digits
  <2> QED
    BY <2>1, <2>2 DEF Terminal
<1>3. ASSUME NEW m \in 0 .. 7, NEW n \in 0 .. 7, Term[m] = Term[n] PROVE m = n
  <2>1. \A k \in {0, 1, 2} : Term[m][k] <=> Term[n][k]
    BY <1>3
  <2>2. /\ m \in {1, 3, 5, 7} <=> n \in {1, 3, 5, 7}
        /\ m \in {2, 3, 6, 7} <=> n \in {2, 3, 6, 7}
        /\ m \in {4, 5, 6, 7} <=> n \in {4, 5, 6, 7}
    BY <1>1, <2>1, Digits
  <2> QED
    BY <2>2
<1> QED
  BY <1>2, <1>3

LEMMA Wired ==
  /\ Term[ADC_PORT] \in Ports /\ Term[DAC_PORT] \in Ports /\ Term[NIOS_PORT] \in Ports
  /\ Term[FIR_PORT] \in Ports /\ Term[RECOP_PORT] \in Ports
  BY PortsWired

\* The slot after the one that connects ADC and DAC processor connects the
\* DAC processor with the port of the distortion, which the path leaves out.
LEMMA SlotAfter ==
  Xor(Term[DAC_PORT], Increment(Xor(Term[DAC_PORT], Term[ADC_PORT]))) = Term[DP_PORT]
<1>1. {0, 1, 2} \subseteq Bit /\ Bit \subseteq Nat
  BY StagesAssumption, PortsWired DEF Bit
<1> DEFINE s == Xor(Term[DAC_PORT], Term[ADC_PORT])
           u == Increment(s)
<1>2. s \in Terminal /\ u \in Terminal
  BY Terminals, XorType, IncrementType DEF DAC_PORT, ADC_PORT
<1>3. \A k \in Bit : s[k] = (Term[1][k] # Term[0][k])
  BY DEF Xor, DAC_PORT, ADC_PORT
<1>4. \A k \in Bit : s[k] <=> k = 0
  BY <1>2, <1>3, Digits DEF Terminal
<1>5. \A k \in Bit : u[k] = (s[k] # (\A j \in 0 .. k - 1 : s[j]))
  BY DEF Increment
<1>6. ASSUME NEW k \in Bit PROVE u[k] <=> k = 1
  <2> DEFINE carry == \A j \in 0 .. k - 1 : s[j]
  <2>1. u[k] = (s[k] # carry) /\ s[k] \in BOOLEAN /\ u[k] \in BOOLEAN /\ carry \in BOOLEAN
    BY <1>2, <1>5 DEF Terminal
  <2>2. k = 0 \/ k = 1 \/ k >= 2
    BY <1>1
  <2>3. carry <=> k = 0 \/ k = 1
    <3>1. k >= 2 => 1 \in 0 .. k - 1 /\ ~ s[1]
      BY <1>1, <1>4
    <3>2. k = 0 => 0 .. k - 1 = {}
      BY <1>1
    <3>3. k = 1 => 0 .. k - 1 = {0} /\ s[0]
      BY <1>1, <1>4
    <3> QED
      BY <2>2, <3>1, <3>2, <3>3
  <2>4. s[k] <=> k = 0
    BY <1>4
  <2> HIDE DEF carry, s, u
  <2>5. u[k] <=> (carry /\ ~ (k = 0)) \/ (~ carry /\ k = 0)
    BY <2>1, <2>4, Zenon
  <2> QED
    BY <2>2, <2>3, <2>5
<1>7. \A k \in Bit : Xor(Term[1], u)[k] = (Term[1][k] # u[k])
  BY DEF Xor
<1> HIDE DEF s, u
<1>8. \A k \in Bit : Xor(Term[1], u)[k] = Term[3][k]
  BY <1>2, <1>6, <1>7, Digits DEF Terminal
<1>9. Xor(Term[1], u) \in Terminal /\ Term[3] \in Terminal
  BY <1>2, XorType, Terminals
<1>10. Xor(Term[1], u) = Term[3]
  BY <1>8, <1>9 DEF Terminal
<1> QED
  BY <1>10 DEF s, u, DAC_PORT, DP_PORT, ADC_PORT

-----------------------------------------------------------------------------
(* What the cores offer to the network.                                    *)

\* The words by their headers.
LEMMA SampleWordType ==
  ASSUME Cores, NEW w \in SampleWords
  PROVE  /\ w \in Data /\ w.header = "data"
         /\ w.ch \in Channel /\ w.value \in 0 .. MaxSamples[program]
         /\ w = DataWord(w.ch, w.value)
<1>1. PICK c \in Channel, n \in 0 .. MaxSamples[program] : w = DataWord(c, n)
  BY DEF SampleWords, Samples
<1>2. w \in Data
  BY <1>1, SamplesAssumption DEF Cores
<1> QED
  BY <1>1, <1>2 DEF DataWord

LEMMA ConfigWordType ==
  ASSUME NEW p, NEW w \in ConfigWords(p)
  PROVE  /\ w.header \in {"adc", "dac"} /\ w.ch \in Channel
         /\ w.header = "adc" => w.addr \in (0 .. 7) \ {Bypassed(p)}
  BY DEF ConfigWords, AdcWords, DacWords

LEMMA NothingHeader == Nothing.header = "none"
  BY DEF Nothing

\* The modes of lab3 set the processors as the commands do.
LEMMA ModeWords ==
  ASSUME Cores, NEW n
  PROVE  ModeWord(n) \in [addr : 0 .. 7, word : HeldWords]
<1>1. ADC_PORT # Bypassed(program)
  BY DEF Bypassed, ADC_PORT, DAC_PORT, FIR_PORT
<1>2. CASE n = 9
  <2> DEFINE w == [header |-> "dac", ch |-> 0, rate |-> 0, enable |-> TRUE]
  <2> HIDE DEF w
  <2>0. ModeWord(9) = To(DAC_PORT, w)
    BY DEF ModeWord, w
  <2>1. ModeWord(n) = [addr |-> DAC_PORT, word |-> w] /\ w = ModeWord(9).word
    BY <1>2, <2>0 DEF To
  <2>2. w \in DacWords
    BY DEF DacWords, Channel, w
  <2>3. w \in HeldWords
    BY <2>1, <2>2, CommandsAssumption DEF HeldWords, ConfigWords
  <2> QED
    BY <2>1, <2>3 DEF DAC_PORT
<1>3. CASE n = 4
  <2> DEFINE w == [header |-> "adc", ch |-> 0, addr |-> ADC_PORT, rate |-> 0, enable |-> FALSE]
  <2> HIDE DEF w
  <2>0. ModeWord(4) = To(ADC_PORT, w)
    BY DEF ModeWord, w
  <2>1. ModeWord(n) = [addr |-> ADC_PORT, word |-> w] /\ w = ModeWord(4).word
    BY <1>3, <2>0 DEF To
  <2>2. w \in AdcWords((0 .. 7) \ {Bypassed(program)})
    BY <1>1 DEF AdcWords, Channel, ADC_PORT, w
  <2>3. w \in HeldWords
    BY <2>1, <2>2, CommandsAssumption DEF HeldWords, ConfigWords
  <2> QED
    BY <2>1, <2>3 DEF ADC_PORT
<1>4. CASE n # 9 /\ n # 4
  <2>1. ModeWord(n) = [addr |-> DAC_PORT, word |-> Nothing]
    BY <1>4 DEF ModeWord, To
  <2> QED
    BY <2>1 DEF HeldWords, DAC_PORT
<1> QED
  BY <1>2, <1>3, <1>4

\* Each interface looks at the send port of its core.
LEMMA SendsAt ==
  /\ Sends[Term[ADC_PORT]] = Offer(adcSend)
  /\ Sends[Term[DAC_PORT]] = Offer(dacSend)
  /\ Sends[Term[NIOS_PORT]] = Offer(niosSend)
  /\ Sends[Term[FIR_PORT]] = Offer(firSend)
  /\ Sends[Term[RECOP_PORT]] = Offer(To(AddressOf(dpcr), dpcr))
  /\ \A p \in Ports \ {Term[n] : n \in {ADC_PORT, DAC_PORT, NIOS_PORT, FIR_PORT, RECOP_PORT}} :
       Sends[p] = Idle
<1>1. {ADC_PORT, DAC_PORT, NIOS_PORT, FIR_PORT, RECOP_PORT} \subseteq 0 .. 7
  BY DEF ADC_PORT, DAC_PORT, NIOS_PORT, FIR_PORT, RECOP_PORT
<1>2. /\ Term[ADC_PORT] # Term[DAC_PORT] /\ Term[ADC_PORT] # Term[NIOS_PORT]
      /\ Term[ADC_PORT] # Term[FIR_PORT] /\ Term[ADC_PORT] # Term[RECOP_PORT]
      /\ Term[DAC_PORT] # Term[NIOS_PORT] /\ Term[DAC_PORT] # Term[FIR_PORT]
      /\ Term[DAC_PORT] # Term[RECOP_PORT] /\ Term[NIOS_PORT] # Term[FIR_PORT]
      /\ Term[NIOS_PORT] # Term[RECOP_PORT] /\ Term[FIR_PORT] # Term[RECOP_PORT]
  BY <1>1, Terminals DEF ADC_PORT, DAC_PORT, NIOS_PORT, FIR_PORT, RECOP_PORT
<1> QED
  BY <1>2, Wired DEF Sends

\* A word on a send port is a packet.
LEMMA OfferType ==
  ASSUME Cores, NEW send, send.word.header # "none" => send.word \in Data /\ send.addr \in 0 .. 7
  PROVE  \/ send.word.header = "none" /\ Offer(send) = Idle
         \/ /\ send.word.header # "none" /\ Offer(send) \in Packet
            /\ Offer(send) = [addr |-> Term[send.addr], data |-> send.word]
<1>1. CASE send.word.header = "none"
  BY <1>1 DEF Offer, Enqueued
<1>2. CASE send.word.header # "none"
  <2>1. Offer(send) = [addr |-> Term[send.addr], data |-> send.word]
    BY <1>2 DEF Offer, Enqueued
  <2>2. Term[send.addr] \in Address /\ send.word \in Data
    BY <1>2, Terminals DEF Address
  <2> QED
    BY <1>2, <2>1, <2>2 DEF Packet
<1> QED
  BY <1>1, <1>2

LEMMA AdcOffers ==
  ASSUME Cores
  PROVE  LET s == Sends[Term[ADC_PORT]] IN
         \/ s = Idle /\ adcSend.word.header # "data"
         \/ /\ s \in Packet /\ adcSend.word.header = "data"
            /\ s.data = adcSend.word /\ s.data \in SampleWords
            /\ s.addr # Term[Bypassed(program)] /\ s.addr \in Terminal
<1>1. Sends[Term[ADC_PORT]] = Offer(adcSend)
  BY SendsAt
<1>2. adcSend.word.header # "none" => adcSend.word \in SampleWords /\ adcSend.word.header = "data"
                                       /\ adcSend.addr \in (0 .. 7) \ {Bypassed(program)}
  BY SampleWordType DEF Cores
<1>3. adcSend.word.header # "none" => adcSend.word \in Data /\ adcSend.addr \in 0 .. 7
  BY <1>2, SampleWordType
<1>4. Bypassed(program) \in 0 .. 7
  BY DEF Bypassed, DAC_PORT, FIR_PORT
<1>5. adcSend.word.header # "none" => Term[adcSend.addr] # Term[Bypassed(program)]
                                       /\ Term[adcSend.addr] \in Terminal
  BY <1>2, <1>4, Terminals
<1> QED
  BY <1>1, <1>2, <1>3, <1>5, OfferType

LEMMA FirOffers ==
  ASSUME Cores
  PROVE  LET s == Sends[Term[FIR_PORT]] IN
         \/ s = Idle /\ firSend.word.header # "data"
         \/ /\ s \in Packet /\ firSend.word.header = "data" /\ program = "filtered"
            /\ s.data = firSend.word /\ s.data \in SampleWords /\ s.addr = Term[DAC_PORT]
<1>1. Sends[Term[FIR_PORT]] = Offer(firSend)
  BY SendsAt
<1>2. firSend.word.header # "none" => /\ program = "filtered" /\ firSend.word.header = "data"
                                      /\ firSend.word \in SampleWords /\ firSend.addr = DAC_PORT
  BY SampleWordType DEF Cores
<1>3. firSend.word.header # "none" => firSend.word \in Data /\ firSend.addr \in 0 .. 7
  BY <1>2, SampleWordType DEF DAC_PORT
<1> QED
  BY <1>1, <1>2, <1>3, OfferType

LEMMA ProgramOffers ==
  ASSUME Cores, NEW n \in {NIOS_PORT, RECOP_PORT}
  PROVE  LET s == Sends[Term[n]] IN
         s = Idle \/ (s \in Packet /\ s.data \in ConfigWords(program))
<1> DEFINE send == IF n = NIOS_PORT THEN niosSend ELSE To(AddressOf(dpcr), dpcr)
<1>1. Sends[Term[n]] = Offer(send)
  BY SendsAt DEF NIOS_PORT, RECOP_PORT
<1>2. send.word \in HeldWords
  BY DEF Cores, To
<1>3. send.word.header # "none" => send.word \in Data /\ send.word \in ConfigWords(program)
  BY <1>2, NothingHeader DEF HeldWords
<1>4. send.word.header # "none" => send.addr \in 0 .. 7
  <2>1. CASE n = NIOS_PORT
    BY <2>1 DEF Cores
  <2>2. CASE n # NIOS_PORT
    <3>1. send.addr = AddressOf(dpcr) /\ send.word = dpcr
      BY <2>2 DEF To
    <3>2. dpcr.header # "none" => dpcr.header \in {"adc", "dac"}
      BY <1>3, <3>1, ConfigWordType
    <3>3. dpcr.header \in {"adc", "dac"} => AddressOf(dpcr) \in 0 .. 7
      BY DEF AddressOf, ADC_PORT, DAC_PORT
    <3> QED
      BY <3>1, <3>2, <3>3
  <2> QED
    BY <2>1, <2>2
<1> HIDE DEF send
<1> QED
  BY <1>1, <1>3, <1>4, OfferType

\* The distortion's port and all others without a core offer nothing.
LEMMA OthersOffer ==
  ASSUME Cores, NEW p \in Ports,
         p \notin {Term[n] : n \in {ADC_PORT, NIOS_PORT, FIR_PORT, RECOP_PORT}}
  PROVE  Sends[p] = Idle
<1>1. CASE p = Term[DAC_PORT]
  BY <1>1, SendsAt, OfferType DEF Cores
<1>2. CASE p # Term[DAC_PORT]
  BY <1>2, SendsAt
<1> QED
  BY <1>1, <1>2

LEMMA SendsLegal ==
  ASSUME Cores
  PROVE  /\ Sends \in [Ports -> Packet \cup {Idle}]
         /\ \A p \in Ports : Sends[p] = Idle \/ Legal(program, p, Sends[p])
<1>1. ASSUME NEW p \in Ports
      PROVE  Sends[p] = Idle \/ (Sends[p] \in Packet /\ Legal(program, p, Sends[p]))
  <2>1. CASE p = Term[ADC_PORT]
    BY <2>1, AdcOffers DEF Legal, SampleWords
  <2>2. CASE p = Term[FIR_PORT]
    BY <2>2, FirOffers DEF Legal, SampleWords
  <2>3. CASE p = Term[NIOS_PORT]
    BY <2>3, ProgramOffers DEF Legal, SampleWords
  <2>4. CASE p = Term[RECOP_PORT]
    BY <2>4, ProgramOffers DEF Legal, SampleWords
  <2>5. CASE p \notin {Term[n] : n \in {ADC_PORT, NIOS_PORT, FIR_PORT, RECOP_PORT}}
    BY <2>5, OthersOffer
  <2> QED
    BY <2>1, <2>2, <2>3, <2>4, <2>5
<1>2. Sends = [p \in Ports |-> Sends[p]]
  BY DEF Sends
<1> QED
  BY <1>1, <1>2

-----------------------------------------------------------------------------
(* What the network holds.                                                 *)

LEMMA PathType ==
  ASSUME TypeOK, Cores, Clock(Sends)
  PROVE  TypeOK'
  BY SendsLegal, PullsType, EdgeType DEF Clock

\* A word that arrives was at the head of a fifo.
LEMMA Arriving ==
  ASSUME TypeOK, Carried, Clock(Sends), NEW d \in Ports, recv'[d].data # Nothing
  PROVE  LET s == recv'[d].addr IN
         /\ s \in Ports /\ s = Peer(d) /\ Ready(s)
         /\ Len(fifo[s]) >= 1
         /\ fifo[s][1] = [addr |-> d, data |-> recv'[d].data]
         /\ Legal(program, s, [addr |-> d, data |-> recv'[d].data])
<1> DEFINE s == Peer(d)
<1>1. recv'[d] = [addr |-> s, data |-> Pull(d)]
  BY DEF Clock, Edge
<1>2. Pull(d) # NoData
  BY <1>1, PortsWired
<1>3. s \in Ports /\ Ready(s) /\ Head(fifo[s]) = [addr |-> d, data |-> Pull(d)]
  BY <1>2, PullIsHead
<1>4. fifo[s] # <<>> /\ fifo[s] \in Seq(Packet)
  BY <1>3 DEF Ready, TypeOK
<1>5. Len(fifo[s]) >= 1 /\ Head(fifo[s]) = fifo[s][1] /\ Len(fifo[s]) \in Nat
  BY <1>4, EmptySeq, LenProperties
<1>6. Legal(program, s, fifo[s][1])
  BY <1>3, <1>5 DEF Carried
<1> QED
  BY <1>1, <1>3, <1>5, <1>6

\* The words stay those of the program.
LEMMA SameWords ==
  ASSUME program' = program
  PROVE  SampleWords' = SampleWords /\ HeldWords' = HeldWords
  BY DEF SampleWords, Samples, HeldWords

LEMMA CarriedStep ==
  ASSUME TypeOK, Carried, Cores, Clock(Sends), program' = program
  PROVE  Carried'
<1>1. ASSUME NEW p \in Ports, NEW i \in 1 .. Len(fifo'[p])
      PROVE  Legal(program, p, fifo'[p][i])
  <2> DEFINE s == Sends[p]
             gone == IF Ready(p) THEN 1 ELSE 0
             added == IF Accepts(p, s) THEN 1 ELSE 0
             n == Len(fifo[p])
  <2>1. s \in Packet \cup {Idle} /\ (s = Idle \/ Legal(program, p, s))
    BY SendsLegal
  <2>2. fifo'[p] = AfterEdge(p, s)
    BY DEF Clock, Edge
  <2>3. /\ gone <= n /\ Len(fifo'[p]) = n - gone + added
        /\ \A j \in 1 .. n - gone : fifo'[p][j] = fifo[p][j + gone]
        /\ Accepts(p, s) => fifo'[p][n - gone + 1] = s
    BY <2>1, <2>2, QueueStep
  <2>4. n \in Nat /\ (gone = 0 \/ gone = 1) /\ (added = 0 \/ added = 1)
    BY LenProperties DEF TypeOK
  <2>5. i \in 1 .. n - gone + added
    BY <2>3
  <2>6. CASE i <= n - gone
    <3>1. i \in 1 .. n - gone /\ i + gone \in 1 .. n
      BY <2>3, <2>4, <2>6
    <3> QED
      BY <2>3, <3>1 DEF Carried
  <2>7. CASE i > n - gone
    <3>1. added = 1 /\ i = n - gone + 1
      <4> HIDE DEF n, gone, added
      <4> QED
        BY <2>4, <2>5, <2>7
    <3>2. Accepts(p, s)
      BY <3>1
    <3>3. s # Idle
      BY <3>2 DEF Accepts
    <3> QED
      BY <2>1, <2>3, <3>1, <3>2, <3>3
  <2> HIDE DEF n, gone, added
  <2> QED
    BY <2>4, <2>5, <2>6, <2>7
<1>2. ASSUME NEW d \in Ports, recv'[d].data # Nothing
      PROVE  /\ recv'[d].addr \in Ports
             /\ Legal(program, recv'[d].addr, [addr |-> d, data |-> recv'[d].data])
             /\ slot' = Increment(Xor(d, recv'[d].addr))
  <2>1. /\ recv'[d].addr \in Ports /\ recv'[d].addr = Peer(d)
        /\ Legal(program, recv'[d].addr, [addr |-> d, data |-> recv'[d].data])
    BY <1>2, Arriving
  <2>2. Xor(d, Peer(d)) = slot
    <3>1. d \in Terminal /\ slot \in Terminal
      BY PortsAssumption DEF TypeOK
    <3>2. Xor(d, Xor(d, slot)) = Xor(Xor(slot, d), d)
      BY <3>1 DEF Xor, Terminal
    <3> QED
      BY <3>1, <3>2, XorCancels DEF Peer
  <2>3. slot' = Increment(slot)
    BY DEF Clock, Edge
  <2> QED
    BY <2>1, <2>2, <2>3
<1> QED
  BY <1>1, <1>2 DEF Carried

\* What a core reads: samples come to the DAC processor from the ADC
\* processor or from the filter, and to the filter from the ADC processor.
LEMMA ReceivedType ==
  ASSUME Carried, NEW n \in {ADC_PORT, DAC_PORT, NIOS_PORT, FIR_PORT, RECOP_PORT}
  PROVE  LET w == Received(n)
             s == recv[Term[n]].addr
         IN  \/ w = Nothing
             \/ /\ w \in SampleWords /\ n # Bypassed(program)
                /\ s = Term[ADC_PORT] /\ slot = Increment(Xor(Term[n], Term[ADC_PORT]))
             \/ w \in SampleWords /\ n = DAC_PORT /\ s = Term[FIR_PORT] /\ program = "filtered"
             \/ w \in ConfigWords(program)
<1> DEFINE w == Received(n)
           s == recv[Term[n]].addr
<1>1. Term[n] \in Ports
  BY Wired
<1>2. w # Nothing => /\ s \in Ports /\ Legal(program, s, [addr |-> Term[n], data |-> w])
                     /\ slot = Increment(Xor(Term[n], s))
  BY <1>1 DEF Carried, Received
<1>3. /\ n \in 0 .. 7 /\ DAC_PORT \in 0 .. 7 /\ Bypassed(program) \in 0 .. 7
      /\ Term[n] = Term[DAC_PORT] => n = DAC_PORT
  BY Terminals DEF ADC_PORT, DAC_PORT, NIOS_PORT, FIR_PORT, RECOP_PORT, Bypassed
<1> HIDE DEF w, s
<1>4. w # Nothing =>
        \/ s = Term[ADC_PORT] /\ w \in SampleWords /\ Term[n] # Term[Bypassed(program)]
        \/ s = Term[FIR_PORT] /\ program = "filtered" /\ w \in SampleWords /\ Term[n] = Term[DAC_PORT]
        \/ w \in ConfigWords(program)
  BY <1>2 DEF Legal, SampleWords
<1> QED
  BY <1>2, <1>3, <1>4 DEF w, s

-----------------------------------------------------------------------------
(* The cores at a clock edge.                                              *)

\* The ADC processor passes on the sample it has, or nothing.
LEMMA AdcMoves ==
  ASSUME Carried, Cores, program' = program, taken <= taken',
         NEW arriving, AdcClock(Received(ADC_PORT), arriving)
  PROVE  /\ adcAddr' \in [Channel -> (0 .. 7) \ {Bypassed(program)}]
         /\ adcSend'.word.header # "none" =>
              /\ newData /\ adcSend'.word = DataWord(sample.ch, sample.value)
              /\ adcSend'.word \in SampleWords
              /\ adcSend'.addr \in (0 .. 7) \ {Bypassed(program)}
<1> DEFINE w == Received(ADC_PORT)
<1>1. w.header = "adc" => w.ch \in Channel /\ w.addr \in (0 .. 7) \ {Bypassed(program)}
  <2>1. w.header = "adc" => w \in ConfigWords(program)
    BY ReceivedType, SampleWordType, NothingHeader DEF SampleWords, Samples, DataWord
  <2> QED
    BY <2>1, ConfigWordType
<1>2. adcAddr \in [Channel -> (0 .. 7) \ {Bypassed(program)}]
  BY DEF Cores
<1>3. AdcConfigure(w) \/ AdcSkip(w) \/ AdcForward(w) \/ AdcIdle(w)
  BY DEF AdcClock
<1> HIDE DEF w
<1>4. CASE AdcConfigure(w)
  <2>1. adcAddr' = [adcAddr EXCEPT ![w.ch] = w.addr] /\ w.header = "adc"
    BY <1>4 DEF AdcConfigure
  <2>2. adcSend'.word.header = "none"
    BY <1>4 DEF AdcConfigure, To, AckWord
  <2> QED
    BY <1>1, <1>2, <2>1, <2>2
<1>5. CASE AdcForward(w)
  <2>1. newData /\ adcSend' = [addr |-> adcAddr[sample.ch], word |-> DataWord(sample.ch, sample.value)]
    BY <1>5 DEF AdcForward, Offered, To
  <2>2. sample.ch \in Channel /\ sample.value \in 0 .. MaxSamples[program]
    <3>1. sample \in [ch : Channel, value : 0 .. taken] /\ taken \in 0 .. MaxSamples[program]
      BY <2>1 DEF Cores
    <3>2. MaxSamples[program] \in Nat
      BY SamplesAssumption DEF Cores
    <3> QED
      BY <3>1, <3>2
  <2>3. DataWord(sample.ch, sample.value) \in SampleWords
    BY <2>2 DEF SampleWords, Samples
  <2>4. adcAddr' = adcAddr
    BY <1>5 DEF AdcForward, adcConfig
  <2> QED
    BY <1>2, <2>1, <2>2, <2>3, <2>4
<1>6. CASE AdcSkip(w) \/ AdcIdle(w)
  <2>1. adcAddr' = adcAddr /\ adcSend' = IdlePort
    BY <1>6 DEF AdcSkip, AdcIdle, adcConfig
  <2> QED
    BY <1>2, <2>1, NothingHeader DEF IdlePort, To
<1> QED
  BY <1>3, <1>4, <1>5, <1>6

\* The codec's samples are numbered one by one.
LEMMA CodecMoves ==
  ASSUME Cores, program' = program, gap' = gap, NEW arriving \in Arrivals,
         Arrival(arriving), Read(arriving)
  PROVE  /\ taken' \in 0 .. MaxSamples[program] /\ taken <= taken' /\ pause' \in Nat
         /\ newData' \in BOOLEAN
         /\ newData' => /\ sample' \in [ch : Channel, value : 0 .. taken']
                        /\ sample'.value = taken + 1 /\ taken' = taken + 1
                        /\ pause = 0 /\ pause' = gap - 1
         /\ ~ newData' => pause' = IF pause = 0 THEN 0 ELSE pause - 1
<1>1. taken \in 0 .. MaxSamples[program] /\ MaxSamples[program] \in Nat /\ pause \in Nat
  BY SamplesAssumption DEF Cores
<1>2. gap \in Nat \ {0}
  BY SamplesAssumption DEF Cores
<1>3. /\ newData' \in BOOLEAN /\ (newData' <=> arriving # NoSample)
      /\ arriving # NoSample => sample' = arriving
  BY Zenon DEF Read
<1>4. CASE arriving = NoSample
  <2>1. taken' = taken /\ pause' = IF pause = 0 THEN 0 ELSE pause - 1
    <3>1. \A c \in Channel : NoSample # [ch |-> c, value |-> taken + 1]
      <4>1. \A c \in Channel : [ch |-> c, value |-> taken + 1] \in [ch : Channel, value : Nat]
        BY <1>1
      <4> QED
        BY <4>1, SamplesAssumption
    <3> QED
      BY <1>4, <3>1 DEF Arrival
  <2> QED
    BY <1>1, <1>3, <1>4, <2>1
<1>5. CASE arriving # NoSample
  <2>1. /\ pause = 0 /\ taken < MaxSamples[program] /\ taken' = taken + 1 /\ pause' = gap - 1
        /\ arriving \in {[ch |-> c, value |-> taken + 1] : c \in Channel}
    BY <1>5 DEF Arrival
  <2>2. arriving \in [ch : Channel, value : 0 .. taken'] /\ arriving.value = taken + 1
    BY <1>1, <2>1
  <2> QED
    BY <1>1, <1>2, <1>3, <1>5, <2>1, <2>2
<1> QED
  BY <1>4, <1>5

\* The DAC processor plays the sample it has received, or none; a
\* configuration word leaves put as it was.
LEMMA DacMoves ==
  ASSUME DacClock(Received(DAC_PORT))
  PROVE  LET w == Received(DAC_PORT) IN
         /\ dacSend'.word.header = "none"
         /\ put' # NoPut => \/ w.header = "data" /\ put' = [ch |-> w.ch, value |-> w.value]
                            \/ w.header = "dac" /\ put' = put
<1> DEFINE w == Received(DAC_PORT)
<1>1. DacConfigure(w) \/ DacSkip(w) \/ DacPlay(w) \/ DacIdle(w)
  BY DEF DacClock
<1> HIDE DEF w
<1>2. dacSend'.word.header = "none"
  BY <1>1 DEF DacConfigure, DacSkip, DacPlay, DacIdle, To, AckWord, IdlePort, Nothing
<1>3. put' # NoPut => \/ w.header = "data" /\ put' = [ch |-> w.ch, value |-> w.value]
                      \/ w.header = "dac" /\ put' = put
  BY <1>1 DEF DacConfigure, DacSkip, DacPlay, DacIdle, Playable
<1> QED
  BY <1>2, <1>3 DEF w

\* What ReCOP and lab3 hold stays a configuration word, or none.
LEMMA ProgramMoves ==
  ASSUME Cores, ProgramClock
  PROVE  /\ dpcr' \in HeldWords
         /\ outgoing' \in [addr : 0 .. 7, word : HeldWords]
         /\ niosSend' \in [addr : 0 .. 7, word : HeldWords]
<1>1. /\ dpcr \in HeldWords
      /\ outgoing \in [addr : 0 .. 7, word : HeldWords]
      /\ niosSend \in [addr : 0 .. 7, word : HeldWords]
  BY DEF Cores
<1>2. CASE program = "lab3"
  <2> DEFINE w == Received(NIOS_PORT)
  <2>1. Lab3Clock(w) /\ dpcr' = dpcr
    BY <1>2 DEF ProgramClock
  <2> HIDE DEF w
  <2>2. ASSUME NEW up, ReadInputs(w, up)
        PROVE  outgoing' \in [addr : 0 .. 7, word : HeldWords] /\ niosSend' = niosSend
    <3>1. TopNibble(w) # 8
      BY DEF TopNibble
    <3>2. ~ Forwards(w, up)
      BY <3>1 DEF Forwards
    <3>3. outgoing' = ModeWord(mode') /\ niosSend' = niosSend
      BY <2>2, <3>2 DEF ReadInputs
    <3> DEFINE n == mode'
    <3> HIDE DEF n
    <3>4. ModeWord(n) \in [addr : 0 .. 7, word : HeldWords]
      BY ModeWords
    <3> QED
      BY <3>3, <3>4 DEF n
  <2>3. ASSUME WriteAddr
        PROVE  outgoing' = outgoing /\ niosSend' \in [addr : 0 .. 7, word : HeldWords]
    BY <1>1, <2>3 DEF WriteAddr
  <2>4. ASSUME WriteData
        PROVE  outgoing' = outgoing /\ niosSend' \in [addr : 0 .. 7, word : HeldWords]
    BY <1>1, <2>4 DEF WriteData
  <2>5. ASSUME UNCHANGED lab3Vars PROVE outgoing' = outgoing /\ niosSend' = niosSend
    BY <2>5 DEF lab3Vars
  <2> QED
    BY <1>1, <2>1, <2>2, <2>3, <2>4, <2>5 DEF Lab3Clock
<1>3. CASE program # "lab3"
  <2>1. dpcr' \in Commands[program] \cup {dpcr} /\ UNCHANGED lab3Vars
    BY <1>3 DEF ProgramClock
  <2>2. Commands[program] \subseteq HeldWords
    BY CommandsAssumption DEF Cores, HeldWords
  <2> QED
    BY <1>1, <2>1, <2>2 DEF lab3Vars
<1> QED
  BY <1>2, <1>3

\* While the oldest place of the line is empty, the taps of the start make
\* the last sample the result.
LEMMA Result ==
  ASSUME NEW reg \in [Tap -> Nat], reg[3] = 0, reg[0] \in 0 .. 4,
         firVal = [i \in Tap |-> CASE i = 0 -> 4 [] i = 3 -> -4 [] OTHER -> 0]
  PROVE  Weighted(reg) = reg[0]
<1> DEFINE x == reg[0]
           sum == reg[0] * firVal[0] + reg[1] * firVal[1] + reg[2] * firVal[2] + reg[3] * firVal[3]
<1>1. firVal[0] = 4 /\ firVal[1] = 0 /\ firVal[2] = 0 /\ firVal[3] = -4
  BY DEF Tap
<1>2. reg[1] \in Nat /\ reg[2] \in Nat
  BY DEF Tap
<1>3. sum = 4 * x
  BY <1>1, <1>2
<1>4. Weighted(reg) = Signed(ShiftRight(Signed(sum, 21), 2), 16)
  BY DEF Weighted
<1>5. x \in {0, 1, 2, 3, 4}
  OBVIOUS
<1> HIDE DEF x, sum
<1>6. 2 ^ (21 - 1) = 1048576 /\ 2 ^ 21 = 2097152 /\ 2 ^ 2 = 4 /\ 2 ^ (16 - 1) = 32768 /\ 2 ^ 16 = 65536
  OBVIOUS
<1>7. Signed(4 * x, 21) = 4 * x
  <2>1. (4 * x + 1048576) % 2097152 = 4 * x + 1048576
    BY <1>5
  <2> QED
    BY <1>5, <1>6, <2>1 DEF Signed
<1>8. ShiftRight(4 * x, 2) = x
  BY <1>5, <1>6 DEF ShiftRight
<1>9. Signed(x, 16) = x
  <2>1. (x + 32768) % 65536 = x + 32768
    BY <1>5
  <2> QED
    BY <1>5, <1>6, <2>1 DEF Signed
<1> QED
  BY <1>3, <1>4, <1>7, <1>8, <1>9 DEF x

-----------------------------------------------------------------------------
(* The fifos of the ports.                                                 *)

\* The fifo of a port at an edge: gone is whether the head leaves it, added
\* whether the word on the send port finds a place.
LEMMA PortQueue ==
  ASSUME TypeOK, Cores, Clock(Sends), NEW p \in Ports
  PROVE  \E gone, added \in {0, 1} :
           /\ Len(fifo[p]) \in Nat /\ gone <= Len(fifo[p])
           /\ gone = 1 <=> Ready(p)
           /\ Len(fifo'[p]) = Len(fifo[p]) - gone + added
           /\ \A i \in 1 .. Len(fifo[p]) - gone : fifo'[p][i] = fifo[p][i + gone]
           /\ added = 1 => /\ Sends[p] # Idle
                           /\ fifo'[p][Len(fifo[p]) - gone + 1] = Sends[p]
           /\ Sends[p] # Idle /\ Len(fifo[p]) < Depth => added = 1
<1> DEFINE s == Sends[p]
           gone == IF Ready(p) THEN 1 ELSE 0
           added == IF Accepts(p, s) THEN 1 ELSE 0
<1>1. s \in Packet \cup {Idle}
  BY SendsLegal
<1>2. fifo'[p] = AfterEdge(p, s)
  BY DEF Clock, Edge
<1>3. /\ gone <= Len(fifo[p]) /\ Len(fifo'[p]) = Len(fifo[p]) - gone + added
      /\ \A i \in 1 .. Len(fifo[p]) - gone : fifo'[p][i] = fifo[p][i + gone]
      /\ Accepts(p, s) => fifo'[p][Len(fifo[p]) - gone + 1] = s
  BY <1>1, <1>2, QueueStep
<1>4. gone \in {0, 1} /\ added \in {0, 1} /\ (gone = 1 <=> Ready(p)) /\ (added = 1 <=> Accepts(p, s))
  OBVIOUS
<1>5. Accepts(p, s) <=> s # Idle /\ Len(fifo[p]) < Depth
  BY DEF Accepts
<1>6. Len(fifo[p]) \in Nat
  BY LenProperties DEF TypeOK
<1> HIDE DEF s, gone, added
<1>7. added = 1 => Sends[p] # Idle /\ fifo'[p][Len(fifo[p]) - gone + 1] = Sends[p]
  BY <1>3, <1>4, <1>5 DEF s
<1>8. Sends[p] # Idle /\ Len(fifo[p]) < Depth => added = 1
  BY <1>4, <1>5 DEF s
<1> QED
  BY <1>3, <1>4, <1>6, <1>7, <1>8

\* The fifos of ADC processor and filter hold samples; that of the
\* distortion is empty.
LEMMA QueueTypes ==
  ASSUME Carried
  PROVE  /\ \A i \in 1 .. Len(fifo[Term[ADC_PORT]]) :
              /\ fifo[Term[ADC_PORT]][i].data \in SampleWords
              /\ fifo[Term[ADC_PORT]][i].addr \in Terminal
         /\ \A i \in 1 .. Len(fifo[Term[FIR_PORT]]) :
              /\ program = "filtered"
              /\ fifo[Term[FIR_PORT]][i].data \in SampleWords
         /\ Term[DP_PORT] \in Ports => \A i \in 1 .. Len(fifo[Term[DP_PORT]]) : FALSE
<1>1. /\ Term[ADC_PORT] \notin {Term[n] : n \in {FIR_PORT, NIOS_PORT, RECOP_PORT}}
      /\ Term[FIR_PORT] \notin {Term[n] : n \in {ADC_PORT, NIOS_PORT, RECOP_PORT}}
      /\ Term[DP_PORT] \notin {Term[n] : n \in {ADC_PORT, FIR_PORT, NIOS_PORT, RECOP_PORT}}
  BY Terminals DEF ADC_PORT, DP_PORT, NIOS_PORT, FIR_PORT, RECOP_PORT
<1>2. /\ \A m : Legal(program, Term[ADC_PORT], m) =>
                  m.data \in SampleWords /\ m.addr \in Terminal
      /\ \A m : Legal(program, Term[FIR_PORT], m) =>
                  program = "filtered" /\ m.data \in SampleWords
      /\ \A m : ~ Legal(program, Term[DP_PORT], m)
  BY <1>1 DEF Legal, SampleWords
<1> QED
  BY <1>2, Wired DEF Carried

-----------------------------------------------------------------------------
(* The filter.                                                             *)

\* No more than four samples come to the filter, each later than those in
\* its line, so that the result is the sample before.
LEMMA FirMoves ==
  ASSUME PathInv, FirClock(Received(FIR_PORT))
  PROVE  LET w == Received(FIR_PORT) IN
         /\ firAddr' = firAddr /\ firVal' = firVal
         /\ w.header # "data" => line' = line /\ firSend' = firSend
         /\ w.header = "data" =>
              /\ program = "filtered" /\ w \in SampleWords
              /\ line[w.ch][0] < w.value
              /\ line' = [line EXCEPT ![w.ch] = Shift(@, w.value)]
              /\ DataWord(w.ch, line[w.ch][0]) \in SampleWords
              /\ firSend' \in {To(DAC_PORT, DataWord(w.ch, line[w.ch][0])), IdlePort}
<1> DEFINE w == Received(FIR_PORT)
<1>1. Carried /\ Cores /\ Rising /\ Lines
  BY DEF PathInv
<1>2. w.header # "fir" /\ (w.header = "data" => w \in SampleWords /\ program = "filtered")
  <2>1. w = Nothing \/ (w \in SampleWords /\ FIR_PORT # Bypassed(program)) \/ w \in ConfigWords(program)
    BY <1>1, ReceivedType DEF FIR_PORT, DAC_PORT
  <2>2. w \in ConfigWords(program) => w.header \in {"adc", "dac"}
    BY ConfigWordType
  <2>3. w \in SampleWords => w.header = "data"
    BY <1>1, SampleWordType
  <2>4. program # "filtered" => Bypassed(program) = FIR_PORT
    BY DEF Bypassed
  <2> HIDE DEF w
  <2> QED
    BY <2>1, <2>2, <2>3, <2>4, NothingHeader
<1>3. CASE w.header # "data"
  <2>1. FirOther(w)
    BY <1>2, <1>3 DEF FirClock, FirConfigure, FirData
  <2> HIDE DEF w
  <2>2. UNCHANGED <<firAddr, firEnable, firVal, line, firSend>>
    BY <2>1 DEF FirOther
  <2> QED
    BY <1>3, <2>2 DEF w
<1>4. CASE w.header = "data"
  <2> DEFINE c == w.ch
             reg == line[c]
  <2>1. FirData(w)
    BY <1>2, <1>4 DEF FirClock, FirConfigure, FirOther
  <2>2. program = "filtered" /\ w \in SampleWords /\ c \in Channel /\ reg \in [Tap -> Nat]
    BY <1>1, <1>2, <1>4, SampleWordType DEF Cores
  <2>3. reg[0] < w.value /\ w.value <= 4
    <3>1. PICK b \in [1 .. 4 -> Nat] :
             /\ b[1] <= b[2] /\ b[2] <= b[3] /\ b[3] <= b[4] /\ b[4] <= taken
             /\ reg[0] <= b[1] /\ b[1] < w.value /\ w.value <= b[2]
      BY <1>1, <1>4, <2>2 DEF Rising, Exit
    <3>2. taken \in 0 .. MaxSamples["filtered"] /\ MaxSamples["filtered"] \in Nat
          /\ MaxSamples["filtered"] <= 4
      BY <1>1, <2>2, SamplesAssumption DEF Cores
    <3>3. w.value \in Nat /\ reg[0] \in Nat
      <4>1. w.value \in 0 .. MaxSamples[program]
        BY <1>1, <2>2, SampleWordType
      <4> QED
        BY <2>2, <4>1 DEF Tap
    <3> DEFINE v == w.value
               r == reg[0]
    <3> HIDE DEF v, r
    <3>4. /\ b[1] \in Nat /\ b[2] \in Nat /\ b[3] \in Nat /\ b[4] \in Nat
      OBVIOUS
    <3>5. r < v /\ v <= 4
      BY <3>1, <3>2, <3>3, <3>4 DEF v, r
    <3> QED
      BY <3>5 DEF v, r
  <2>4. reg[3] = 0
    <3>1. \A i \in 0 .. 2 : reg[i + 1] < reg[i] \/ reg[i + 1] = 0
      BY <1>1, <2>2 DEF Lines
    <3>2. reg[0] \in Nat /\ reg[1] \in Nat /\ reg[2] \in Nat /\ reg[3] \in Nat /\ w.value \in Nat
      <4>1. w.value \in 0 .. MaxSamples[program]
        BY <1>1, <2>2, SampleWordType
      <4> QED
        BY <2>2, <4>1 DEF Tap
    <3>3. /\ reg[1] < reg[0] \/ reg[1] = 0
          /\ reg[2] < reg[1] \/ reg[2] = 0
          /\ reg[3] < reg[2] \/ reg[3] = 0
      <4>1. 0 \in 0 .. 2 /\ 1 \in 0 .. 2 /\ 2 \in 0 .. 2 /\ 0 + 1 = 1 /\ 1 + 1 = 2 /\ 2 + 1 = 3
        OBVIOUS
      <4> QED
        BY <3>1, <4>1
    <3> HIDE DEF reg, w
    <3> QED
      BY <2>3, <3>2, <3>3
  <2>5. reg[0] \in 0 .. 4
    <3>1. reg[0] \in Nat /\ w.value \in 0 .. MaxSamples[program]
      BY <1>1, <2>2, SampleWordType DEF Tap
    <3> HIDE DEF reg, w
    <3> QED
      BY <2>3, <3>1
  <2>6. Weighted(reg) = reg[0]
    BY <1>1, <2>2, <2>4, <2>5, Result DEF Cores
  <2>7. DataWord(c, reg[0]) \in SampleWords
    <3>1. reg[0] \in 0 .. MaxSamples[program]
      <4>1. reg[0] \in Nat /\ w.value \in 0 .. MaxSamples[program] /\ MaxSamples[program] \in Nat
        BY <1>1, <2>2, SampleWordType, SamplesAssumption DEF Tap, Cores
      <4> HIDE DEF reg, w
      <4> QED
        BY <2>3, <4>1
    <3> QED
      BY <2>2, <3>1 DEF SampleWords, Samples
  <2>8. /\ line' = [line EXCEPT ![c] = Shift(@, w.value)]
        /\ firAddr' = firAddr /\ firVal' = firVal
        /\ firSend' = IF firEnable[c] THEN To(firAddr[c], DataWord(c, Weighted(line[c]))) ELSE IdlePort
    BY <2>1 DEF FirData
  <2>9. firAddr[c] = DAC_PORT
    BY <1>1, <2>2 DEF Cores
  <2>10. firSend' \in {To(DAC_PORT, DataWord(c, reg[0])), IdlePort}
    BY <2>6, <2>8, <2>9
  <2> QED
    BY <1>4, <2>2, <2>3, <2>7, <2>8, <2>10
<1> QED
  BY <1>3, <1>4

-----------------------------------------------------------------------------
(* The invariant at an edge.                                               *)

\* The parts of a step.
LEMMA StepParts ==
  ASSUME PathInv, PathNext
  PROVE  /\ TypeOK /\ Carried /\ Cores /\ Clock(Sends)
         /\ program' = program /\ gap' = gap
         /\ DacClock(Received(DAC_PORT)) /\ FirClock(Received(FIR_PORT)) /\ ProgramClock
         /\ \E arriving \in Arrivals : Arrival(arriving) /\ AdcClock(Received(ADC_PORT), arriving)
  BY DEF PathInv, PathNext

\* Registers of codec and ADC processor after a step.
LEMMA SourceMoves ==
  ASSUME PathInv, PathNext
  PROVE  /\ taken' \in 0 .. MaxSamples[program] /\ taken <= taken' /\ pause' \in Nat
         /\ newData' \in BOOLEAN
         /\ newData' => /\ sample' \in [ch : Channel, value : 0 .. taken']
                        /\ sample'.value = taken + 1 /\ taken' = taken + 1
                        /\ pause = 0 /\ pause' = gap - 1
         /\ ~ newData' => pause' = IF pause = 0 THEN 0 ELSE pause - 1
         /\ adcAddr' \in [Channel -> (0 .. 7) \ {Bypassed(program)}]
         /\ adcSend'.word.header # "none" =>
              /\ newData /\ adcSend'.word = DataWord(sample.ch, sample.value)
              /\ adcSend'.word \in SampleWords
              /\ adcSend'.addr \in (0 .. 7) \ {Bypassed(program)}
<1>1. PICK arriving \in Arrivals : Arrival(arriving) /\ AdcClock(Received(ADC_PORT), arriving)
  BY StepParts
<1>2. Read(arriving)
  BY <1>1 DEF AdcClock
<1>3. Cores /\ Carried /\ program' = program /\ gap' = gap
  BY StepParts
<1>4. /\ taken' \in 0 .. MaxSamples[program] /\ taken <= taken' /\ pause' \in Nat
      /\ newData' \in BOOLEAN
      /\ newData' => /\ sample' \in [ch : Channel, value : 0 .. taken']
                     /\ sample'.value = taken + 1 /\ taken' = taken + 1
                     /\ pause = 0 /\ pause' = gap - 1
      /\ ~ newData' => pause' = IF pause = 0 THEN 0 ELSE pause - 1
  BY <1>1, <1>2, <1>3, CodecMoves
<1> QED
  BY <1>1, <1>3, <1>4, AdcMoves

LEMMA CoresStep ==
  ASSUME PathInv, PathNext
  PROVE  Cores'
<1>1. /\ TypeOK /\ Carried /\ Cores /\ Clock(Sends)
      /\ program' = program /\ gap' = gap
  BY StepParts
<1>2. SampleWords' = SampleWords /\ HeldWords' = HeldWords
  BY <1>1, SameWords
<1>3. program' \in Program /\ gap' \in Gaps
  BY <1>1 DEF Cores
<1>4. put' # NoPut => put' \in [ch : Channel, value : Nat]
  <2> DEFINE w == Received(DAC_PORT)
  <2>1. put' # NoPut => (w.header = "data" /\ put' = [ch |-> w.ch, value |-> w.value]) \/ put' = put
    BY StepParts, DacMoves
  <2>2. w.header = "data" => w \in SampleWords
    <3>1. w = Nothing \/ w \in SampleWords \/ w \in ConfigWords(program)
      BY <1>1, ReceivedType
    <3> HIDE DEF w
    <3> QED
      BY <3>1, ConfigWordType, NothingHeader
  <2>3. w.header = "data" => w.ch \in Channel /\ w.value \in Nat
    <3>1. MaxSamples[program] \in Nat
      BY <1>1, SamplesAssumption DEF Cores
    <3> HIDE DEF w
    <3>2. w \in SampleWords => w.ch \in Channel /\ w.value \in 0 .. MaxSamples[program]
      BY <1>1, SampleWordType
    <3> QED
      BY <2>2, <3>1, <3>2
  <2>4. put # NoPut => put \in [ch : Channel, value : Nat]
    BY <1>1 DEF Cores
  <2> HIDE DEF w
  <2> QED
    BY <2>1, <2>3, <2>4
<1>5. dacSend'.word.header = "none"
  BY StepParts, DacMoves
<1>6. /\ firAddr' = [c \in Channel |-> DAC_PORT]
      /\ firVal' = [i \in Tap |-> CASE i = 0 -> 4 [] i = 3 -> -4 [] OTHER -> 0]
      /\ line' \in [Channel -> [Tap -> Nat]]
      /\ firSend'.word.header # "none" =>
           program = "filtered" /\ firSend'.word \in SampleWords /\ firSend'.addr = DAC_PORT
  <2> DEFINE w == Received(FIR_PORT)
  <2>1. /\ firAddr' = firAddr /\ firVal' = firVal
        /\ w.header # "data" => line' = line /\ firSend' = firSend
        /\ w.header = "data" =>
             /\ program = "filtered" /\ w \in SampleWords
             /\ line' = [line EXCEPT ![w.ch] = Shift(@, w.value)]
             /\ DataWord(w.ch, line[w.ch][0]) \in SampleWords
             /\ firSend' \in {To(DAC_PORT, DataWord(w.ch, line[w.ch][0])), IdlePort}
    BY StepParts, FirMoves
  <2> HIDE DEF w
  <2>2. firAddr' = [c \in Channel |-> DAC_PORT]
        /\ firVal' = [i \in Tap |-> CASE i = 0 -> 4 [] i = 3 -> -4 [] OTHER -> 0]
    BY <1>1, <2>1 DEF Cores
  <2>3. line \in [Channel -> [Tap -> Nat]]
    BY <1>1 DEF Cores
  <2>4. CASE w.header = "data"
    <3>1. w.ch \in Channel /\ w.value \in Nat
      <4>1. w.ch \in Channel /\ w.value \in 0 .. MaxSamples[program] /\ MaxSamples[program] \in Nat
        BY <1>1, <2>1, <2>4, SampleWordType, SamplesAssumption DEF Cores
      <4> QED
        BY <4>1
    <3>2. Shift(line[w.ch], w.value) \in [Tap -> Nat]
      <4>1. \A i \in Tap : i # 0 => i - 1 \in Tap
        BY DEF Tap
      <4> QED
        BY <2>3, <3>1, <4>1 DEF Shift
    <3>3. line' \in [Channel -> [Tap -> Nat]]
      BY <2>1, <2>3, <2>4, <3>1, <3>2
    <3>4. firSend'.word.header # "none" =>
            firSend'.word = DataWord(w.ch, line[w.ch][0]) /\ firSend'.addr = DAC_PORT
      BY <2>1, <2>4, NothingHeader DEF To, IdlePort
    <3> QED
      BY <2>1, <2>2, <2>4, <3>3, <3>4
  <2>5. CASE w.header # "data"
    BY <1>1, <2>1, <2>2, <2>3, <2>5 DEF Cores
  <2> QED
    BY <2>4, <2>5
<1>7. /\ dpcr' \in HeldWords
      /\ outgoing' \in [addr : 0 .. 7, word : HeldWords]
      /\ niosSend' \in [addr : 0 .. 7, word : HeldWords]
  BY <1>1, StepParts, ProgramMoves
<1>8. /\ taken' \in 0 .. MaxSamples[program] /\ pause' \in Nat
      /\ newData' \in BOOLEAN
      /\ newData' => sample' \in [ch : Channel, value : 0 .. taken']
      /\ adcAddr' \in [Channel -> (0 .. 7) \ {Bypassed(program)}]
      /\ adcSend'.word.header # "none" =>
           adcSend'.word \in SampleWords /\ adcSend'.addr \in (0 .. 7) \ {Bypassed(program)}
  BY SourceMoves
<1> QED
  BY <1>1, <1>2, <1>3, <1>4, <1>5, <1>6, <1>7, <1>8 DEF Cores

\* The first n numbers of x rise from above lo to hi at most.
Rises(x, n, lo, hi) ==
  /\ \A i \in 1 .. n : x[i] \in Nat /\ lo < x[i] /\ x[i] <= hi
  /\ \A i, j \in 1 .. n : i < j => x[i] < x[j]

\* The n numbers x become y: the head leaves if gone is one, and if added
\* is one, z comes in at the end.
Moved(x, y, n, gone, added, z) ==
  /\ gone \in {0, 1} /\ added \in {0, 1} /\ n \in Nat /\ gone <= n
  /\ \A i \in 1 .. n - gone : y[i] = x[i + gone]
  /\ added = 1 => y[n - gone + 1] = z

LEMMA RisingQueue ==
  ASSUME NEW x, NEW y, NEW n, NEW gone, NEW added, NEW z, Moved(x, y, n, gone, added, z),
         NEW lo \in Nat, NEW mid \in Nat, NEW hi \in Nat, lo <= mid, mid <= hi,
         Rises(x, n, lo, mid),
         added = 1 => z \in Nat /\ mid < z /\ z <= hi
  PROVE  LET v == IF gone = 1 THEN x[1] ELSE lo IN
         /\ v \in Nat /\ lo <= v /\ v <= mid
         /\ Rises(y, n - gone + added, v, hi)
<1> USE DEF Rises, Moved
<1> DEFINE v == IF gone = 1 THEN x[1] ELSE lo
<1>0. v = IF gone = 1 THEN x[1] ELSE lo
  OBVIOUS
<1> HIDE DEF v
<1>1. gone = 1 => 1 \in 1 .. n
  OBVIOUS
<1>2. v \in Nat /\ lo <= v /\ v <= mid
  BY <1>0, <1>1
<1>3. ASSUME NEW i \in 1 .. n - gone
      PROVE  i + gone \in 1 .. n /\ (gone = 1 => 1 < i + gone)
  OBVIOUS
<1>4. \A i \in 1 .. n - gone : y[i] \in Nat /\ v < y[i] /\ y[i] <= mid
  <2> SUFFICES ASSUME NEW i \in 1 .. n - gone PROVE y[i] \in Nat /\ v < y[i] /\ y[i] <= mid
    OBVIOUS
  <2> DEFINE k == i + gone
  <2>1. y[i] = x[k] /\ k \in 1 .. n /\ (gone = 1 => 1 < k)
    BY <1>3
  <2> HIDE DEF k
  <2>2. x[k] \in Nat /\ lo < x[k] /\ x[k] <= mid
    BY <2>1
  <2>3. gone = 1 => x[1] < x[k]
    BY <1>1, <2>1
  <2> QED
    BY <1>0, <2>1, <2>2, <2>3
<1>5. \A i, j \in 1 .. n - gone : i < j => y[i] < y[j]
  <2> SUFFICES ASSUME NEW i \in 1 .. n - gone, NEW j \in 1 .. n - gone, i < j
               PROVE  y[i] < y[j]
    OBVIOUS
  <2> DEFINE k == i + gone
             m == j + gone
  <2>1. y[i] = x[k] /\ y[j] = x[m] /\ k \in 1 .. n /\ m \in 1 .. n /\ k < m
    BY <1>3
  <2> HIDE DEF k, m
  <2> QED
    BY <2>1
<1>6. \A i \in 1 .. n - gone + added : i \in 1 .. n - gone \/ (added = 1 /\ i = n - gone + 1)
  OBVIOUS
<1>7. \A i \in 1 .. n - gone + added : y[i] \in Nat /\ v < y[i] /\ y[i] <= hi
  <2> SUFFICES ASSUME NEW i \in 1 .. n - gone + added
               PROVE  y[i] \in Nat /\ v < y[i] /\ y[i] <= hi
    OBVIOUS
  <2>1. y[i] \in Nat /\ ((v < y[i] /\ y[i] <= mid) \/ (mid < y[i] /\ y[i] <= hi))
    BY <1>4, <1>6
  <2> QED
    BY <1>2, <2>1
<1>8. \A i, j \in 1 .. n - gone + added : i < j => y[i] < y[j]
  <2> SUFFICES ASSUME NEW i \in 1 .. n - gone + added, NEW j \in 1 .. n - gone + added, i < j
               PROVE  y[i] < y[j]
    OBVIOUS
  <2>1. i \in 1 .. n - gone
    BY <1>6
  <2>2. CASE j \in 1 .. n - gone
    BY <1>5, <2>1, <2>2
  <2>3. CASE added = 1 /\ j = n - gone + 1
    <3>1. y[i] \in Nat /\ y[i] <= mid /\ y[j] \in Nat /\ mid < y[j]
      BY <1>4, <2>1, <2>3
    <3> QED
      BY <3>1
  <2> QED
    BY <1>6, <2>2, <2>3
<1> QED
  BY <1>2, <1>7, <1>8 DEF v

\* The numbers between codec and exit keep rising.
LEMMA RisingStep ==
  ASSUME PathInv, PathNext
  PROVE  Rising'
<1> DEFINE A == Term[ADC_PORT]
           q == fifo[A]
           n == Len(q)
           q2 == fifo'[A]
           w == Received(Exit)
           w2 == Received(Exit)'
<1>1. /\ TypeOK /\ Carried /\ Cores /\ Clock(Sends) /\ program' = program /\ A \in Ports
  BY StepParts, Wired
<1>2. PICK b \in [1 .. 4 -> Nat] :
        /\ b[1] <= b[2] /\ b[2] <= b[3] /\ b[3] <= b[4] /\ b[4] <= taken
        /\ IF program = "filtered" THEN \A c \in Channel : line[c][0] <= b[1]
           ELSE put # NoPut => put.value <= b[1]
        /\ w.header = "data" => b[1] < w.value /\ w.value <= b[2]
        /\ \A i \in 1 .. n : b[2] < q[i].data.value /\ q[i].data.value <= b[3]
        /\ \A i, j \in 1 .. n : i < j => q[i].data.value < q[j].data.value
        /\ adcSend.word.header = "data" => b[3] < adcSend.word.value /\ adcSend.word.value <= b[4]
        /\ newData => b[4] < sample.value
  BY DEF PathInv, Rising
<1>3. PICK gone \in {0, 1}, added \in {0, 1} :
        /\ n \in Nat /\ gone <= n /\ (gone = 1 <=> Ready(A))
        /\ Len(q2) = n - gone + added
        /\ \A i \in 1 .. n - gone : q2[i] = q[i + gone]
        /\ added = 1 => Sends[A] # Idle /\ q2[n - gone + 1] = Sends[A]
  BY <1>1, PortQueue
<1>4. added = 1 => adcSend.word.header = "data" /\ q2[n - gone + 1].data = adcSend.word
  BY <1>1, <1>3, AdcOffers
<1>5. w2.header = "data" => gone = 1 /\ n >= 1 /\ q[1].data = w2
  <2>1. Term[Exit] \in Ports /\ Exit \in {FIR_PORT, DAC_PORT} /\ Exit' = Exit /\ Exit # Bypassed(program)
    BY <1>1, Wired DEF Exit, Bypassed, FIR_PORT, DAC_PORT
  <2>2. w2 = recv'[Term[Exit]].data
    BY <2>1 DEF Received
  <2> DEFINE d == Term[Exit]
             s == recv'[d].addr
  <2>3. w2.header = "data" =>
          /\ Ready(s) /\ Len(fifo[s]) >= 1 /\ fifo[s][1] = [addr |-> d, data |-> w2]
          /\ Legal(program, s, [addr |-> d, data |-> w2])
    <3>1. w2.header = "data" => recv'[d].data # Nothing
      BY <2>2, NothingHeader
    <3> QED
      BY <1>1, <2>1, <2>2, <3>1, Arriving
  <2>4. w2.header = "data" /\ Legal(program, s, [addr |-> d, data |-> w2]) => s = A
    <3>1. program = "filtered" => d # Term[DAC_PORT]
      BY Terminals DEF Exit, FIR_PORT, DAC_PORT
    <3>2. w2.header = "data" => w2 \notin ConfigWords(program)
      <4> HIDE DEF w2
      <4> QED
        BY ConfigWordType
    <3> HIDE DEF w2, d, s
    <3> QED
      BY <3>1, <3>2 DEF Legal
  <2> QED
    BY <1>3, <2>3, <2>4
<1>6. /\ taken \in Nat /\ taken' \in Nat
      /\ \A i \in 1 .. n : q[i].data.value \in Nat
      /\ adcSend.word.header = "data" => adcSend.word.value \in Nat
      /\ w.header = "data" => w.value \in Nat
  <2>1. MaxSamples[program] \in Nat /\ taken \in 0 .. MaxSamples[program]
        /\ taken' \in 0 .. MaxSamples[program]
    BY <1>1, SourceMoves, SamplesAssumption DEF Cores
  <2>2. ASSUME NEW x \in SampleWords PROVE x.value \in Nat
    BY <1>1, <2>1, <2>2, SampleWordType
  <2>3. \A i \in 1 .. n : q[i].data \in SampleWords
    BY <1>1, QueueTypes
  <2>4. adcSend.word.header = "data" => adcSend.word \in SampleWords
    BY <1>1 DEF Cores
  <2>5. w.header = "data" => w \in SampleWords
    <3>1. w = Nothing \/ w \in SampleWords \/ w \in ConfigWords(program)
      BY <1>1, ReceivedType DEF Exit
    <3> HIDE DEF w
    <3> QED
      BY <3>1, ConfigWordType, NothingHeader
  <2> QED
    BY <2>1, <2>2, <2>3, <2>4, <2>5
<1> DEFINE x == [i \in 1 .. n |-> q[i].data.value]
           y == [i \in 1 .. Len(q2) |-> q2[i].data.value]
           v == IF gone = 1 THEN x[1] ELSE b[2]
           g == [k \in 1 .. 4 |-> IF k = 1 THEN b[2] ELSE IF k = 2 THEN v
                                  ELSE IF k = 3 THEN b[4] ELSE taken]
<1>7. b[1] \in Nat /\ b[2] \in Nat /\ b[3] \in Nat /\ b[4] \in Nat
  OBVIOUS
<1>8. v \in Nat /\ b[2] <= v /\ v <= b[3] /\ Rises(y, Len(q2), v, b[4])
  <2> DEFINE z == adcSend.word.value
  <2>1. Rises(x, n, b[2], b[3])
    BY <1>2, <1>6 DEF Rises
  <2>2. \A i \in 1 .. n - gone : y[i] = x[i + gone]
    <3> SUFFICES ASSUME NEW i \in 1 .. n - gone PROVE y[i] = x[i + gone]
      OBVIOUS
    <3>1. i \in 1 .. n - gone + added /\ i + gone \in 1 .. n
      <4> HIDE DEF n, q2
      <4> QED
        BY <1>3
    <3> QED
      BY <1>3, <3>1
  <2>3. added = 1 => y[n - gone + 1] = z
    <3>1. added = 1 => n - gone + 1 \in 1 .. n - gone + added
      <4> HIDE DEF n, q2
      <4> QED
        BY <1>3
    <3> QED
      BY <1>3, <1>4, <3>1
  <2>4. Moved(x, y, n, gone, added, z)
    BY <1>3, <2>2, <2>3 DEF Moved
  <2>5. added = 1 => z \in Nat /\ b[3] < z /\ z <= b[4]
    BY <1>2, <1>4, <1>6
  <2>6. v = (IF gone = 1 THEN x[1] ELSE b[2]) /\ Len(q2) = n - gone + added
        /\ b[2] <= b[3] /\ b[3] <= b[4]
    BY <1>2, <1>3
  <2> HIDE DEF x, y, n, q2, v, z
  <2> QED
    BY <1>7, <2>1, <2>4, <2>5, <2>6, RisingQueue
<1>9. g \in [1 .. 4 -> Nat] /\ g[1] = b[2] /\ g[2] = v /\ g[3] = b[4] /\ g[4] = taken
  <2>1. v \in Nat
    BY <1>8
  <2> HIDE DEF v
  <2> QED
    BY <1>6, <1>7, <2>1
<1>10. IF program = "filtered" THEN \A c \in Channel : line'[c][0] <= b[2]
       ELSE put' # NoPut => put'.value <= b[2]
  <2>1. CASE program = "filtered"
    <3>1. w = Received(FIR_PORT)
      BY <2>1 DEF Exit
    <3>2. /\ w.header # "data" => line' = line
          /\ w.header = "data" =>
               /\ w \in SampleWords
               /\ line' = [line EXCEPT ![w.ch] = Shift(@, w.value)]
      BY <3>1, StepParts, FirMoves
    <3>3. line \in [Channel -> [Tap -> Nat]] /\ 0 \in Tap
      BY <1>1 DEF Cores, Tap
    <3>4. ASSUME NEW c \in Channel PROVE line'[c][0] <= b[2]
      <4>1. line[c][0] \in Nat /\ line[c][0] <= b[1]
        BY <1>2, <2>1, <3>3
      <4>2. line'[c][0] = line[c][0] \/ (w.header = "data" /\ line'[c][0] = w.value)
        BY <3>2, <3>3 DEF Shift
      <4> HIDE DEF w
      <4> QED
        BY <1>2, <1>6, <1>7, <4>1, <4>2
    <3> QED
      BY <2>1, <3>4
  <2>2. CASE program # "filtered"
    <3>1. w = Received(DAC_PORT)
      BY <2>2 DEF Exit
    <3>2. put' # NoPut => (w.header = "data" /\ put'.value = w.value) \/ put' = put
      BY <3>1, StepParts, DacMoves
    <3>3. put # NoPut => put.value \in Nat
      BY <1>1 DEF Cores
    <3> HIDE DEF w
    <3> QED
      BY <1>2, <1>6, <1>7, <2>2, <3>2, <3>3
  <2> QED
    BY <2>1, <2>2
<1>11. w2.header = "data" => b[2] < w2.value /\ w2.value <= v
  <2>1. w2.header = "data" => 1 \in 1 .. n /\ gone = 1 /\ q[1].data = w2
    BY <1>3, <1>5
  <2>2. w2.header = "data" => v = w2.value
    BY <2>1
  <2>3. w2.header = "data" => b[2] < w2.value /\ w2.value \in Nat
    BY <1>2, <1>6, <2>1
  <2> HIDE DEF v, w2
  <2> QED
    BY <2>2, <2>3
<1>12. \A i \in 1 .. Len(q2) : v < q2[i].data.value /\ q2[i].data.value <= b[4]
  <2> HIDE DEF v, q2
  <2> QED
    BY <1>8 DEF Rises
<1>13. \A i, j \in 1 .. Len(q2) : i < j => q2[i].data.value < q2[j].data.value
  <2> HIDE DEF v, q2
  <2> QED
    BY <1>8 DEF Rises
<1>14. adcSend'.word.header = "data" => b[4] < adcSend'.word.value /\ adcSend'.word.value <= taken
  <2>1. adcSend'.word.header = "data" => newData /\ adcSend'.word.value = sample.value
    BY SourceMoves DEF DataWord
  <2>2. newData => sample.value \in 0 .. taken
    BY <1>1 DEF Cores
  <2> QED
    BY <1>2, <1>6, <2>1, <2>2
<1>15. newData' => taken < sample'.value
  BY <1>6, SourceMoves
<1>16. b[2] <= v /\ v <= b[4] /\ b[4] <= taken /\ taken <= taken'
  <2>1. taken <= taken'
    BY SourceMoves
  <2> HIDE DEF v
  <2> QED
    BY <1>2, <1>7, <1>8, <2>1
<1> HIDE DEF g, v
<1>17. /\ g[1] <= g[2] /\ g[2] <= g[3] /\ g[3] <= g[4] /\ g[4] <= taken'
       /\ IF program' = "filtered" THEN \A c \in Channel : line'[c][0] <= g[1]
          ELSE put' # NoPut => put'.value <= g[1]
       /\ w2.header = "data" => g[1] < w2.value /\ w2.value <= g[2]
       /\ \A i \in 1 .. Len(q2) : g[2] < q2[i].data.value /\ q2[i].data.value <= g[3]
       /\ \A i, j \in 1 .. Len(q2) : i < j => q2[i].data.value < q2[j].data.value
       /\ adcSend'.word.header = "data" => g[3] < adcSend'.word.value /\ adcSend'.word.value <= g[4]
       /\ newData' => g[4] < sample'.value
  BY <1>1, <1>9, <1>10, <1>11, <1>12, <1>13, <1>14, <1>15, <1>16
<1> QED
  BY <1>9, <1>17 DEF Rising

\* The line of a channel takes a later sample at its start only.
LEMMA LinesStep ==
  ASSUME PathInv, PathNext
  PROVE  Lines'
<1> DEFINE w == Received(FIR_PORT)
<1>1. Cores /\ Lines
  BY DEF PathInv
<1>2. /\ w.header # "data" => line' = line
      /\ w.header = "data" => /\ line[w.ch][0] < w.value
                              /\ line' = [line EXCEPT ![w.ch] = Shift(@, w.value)]
  BY StepParts, FirMoves
<1> HIDE DEF w
<1>3. line \in [Channel -> [Tap -> Nat]]
  BY <1>1 DEF Cores
<1> SUFFICES ASSUME NEW c \in Channel, NEW i \in 0 .. 2
             PROVE  line'[c][i + 1] < line'[c][i] \/ line'[c][i + 1] = 0
  BY DEF Lines
<1>4. CASE w.header # "data" \/ w.ch # c
  <2>1. line'[c] = line[c]
    BY <1>2, <1>3, <1>4
  <2> QED
    BY <1>1, <2>1 DEF Lines
<1>5. CASE w.header = "data" /\ w.ch = c
  <2>1. line'[c] = Shift(line[c], w.value)
    BY <1>2, <1>3, <1>5
  <2>2. line'[c][i + 1] = line[c][i]
    <3>1. i + 1 \in Tap /\ i + 1 # 0 /\ (i + 1) - 1 = i
      BY DEF Tap
    <3> QED
      BY <2>1, <3>1 DEF Shift
  <2>3. CASE i = 0
    <3>1. line'[c][0] = w.value
      BY <2>1 DEF Shift, Tap
    <3> QED
      BY <1>2, <1>5, <2>2, <2>3, <3>1
  <2>4. CASE i # 0
    <3>1. i \in Tap /\ i - 1 \in 0 .. 2 /\ (i - 1) + 1 = i
      BY <2>4 DEF Tap
    <3>2. line'[c][i] = line[c][i - 1]
      BY <2>1, <2>4, <3>1 DEF Shift
    <3>3. line[c][(i - 1) + 1] < line[c][i - 1] \/ line[c][(i - 1) + 1] = 0
      BY <1>1, <3>1 DEF Lines
    <3> QED
      BY <2>2, <3>1, <3>2, <3>3
  <2> QED
    BY <2>3, <2>4
<1> QED
  BY <1>4, <1>5

\* The values of channel c among the first n packets of x do not fall, from
\* lo to hi.
Climbs(x, n, c, lo, hi) ==
  /\ \A i \in 1 .. n : x[i].data.ch = c =>
       x[i].data.value \in Nat /\ lo <= x[i].data.value /\ x[i].data.value <= hi
  /\ \A i, j \in 1 .. n : i < j /\ x[i].data.ch = c /\ x[j].data.ch = c =>
       x[i].data.value <= x[j].data.value

LEMMA ClimbingQueue ==
  ASSUME NEW x, NEW y, NEW n, NEW gone, NEW added, NEW z, Moved(x, y, n, gone, added, z),
         NEW lo \in Nat, NEW mid \in Nat, NEW hi \in Nat, lo <= mid, mid <= hi,
         NEW c, Climbs(x, n, c, lo, mid),
         added = 1 /\ z.data.ch = c =>
           z.data.value \in Nat /\ mid <= z.data.value /\ z.data.value <= hi
  PROVE  LET v == IF gone = 1 /\ x[1].data.ch = c THEN x[1].data.value ELSE lo IN
         /\ v \in Nat /\ lo <= v /\ v <= mid
         /\ Climbs(y, n - gone + added, c, v, hi)
<1> USE DEF Climbs, Moved
<1> DEFINE v == IF gone = 1 /\ x[1].data.ch = c THEN x[1].data.value ELSE lo
<1>0. v = IF gone = 1 /\ x[1].data.ch = c THEN x[1].data.value ELSE lo
  OBVIOUS
<1> HIDE DEF v
<1>1. gone = 1 => 1 \in 1 .. n
  OBVIOUS
<1>2. v \in Nat /\ lo <= v /\ v <= mid
  BY <1>0, <1>1
<1>3. ASSUME NEW i \in 1 .. n - gone
      PROVE  i + gone \in 1 .. n /\ (gone = 1 => 1 < i + gone)
  OBVIOUS
<1>4. ASSUME NEW i \in 1 .. n - gone, y[i].data.ch = c
      PROVE  y[i].data.value \in Nat /\ v <= y[i].data.value /\ y[i].data.value <= mid
  <2> DEFINE k == i + gone
  <2>1. y[i] = x[k] /\ k \in 1 .. n /\ (gone = 1 => 1 < k)
    BY <1>3
  <2> HIDE DEF k
  <2>2. x[k].data.value \in Nat /\ lo <= x[k].data.value /\ x[k].data.value <= mid
    BY <1>4, <2>1
  <2>3. gone = 1 /\ x[1].data.ch = c => x[1].data.value <= x[k].data.value
    BY <1>1, <1>4, <2>1
  <2> QED
    BY <1>0, <2>1, <2>2, <2>3
<1>5. ASSUME NEW i \in 1 .. n - gone, NEW j \in 1 .. n - gone, i < j,
             y[i].data.ch = c, y[j].data.ch = c
      PROVE  y[i].data.value <= y[j].data.value
  <2> DEFINE k == i + gone
             m == j + gone
  <2>1. y[i] = x[k] /\ y[j] = x[m] /\ k \in 1 .. n /\ m \in 1 .. n /\ k < m
    BY <1>3, <1>5
  <2> HIDE DEF k, m
  <2> QED
    BY <1>5, <2>1
<1>6. \A i \in 1 .. n - gone + added : i \in 1 .. n - gone \/ (added = 1 /\ i = n - gone + 1)
  OBVIOUS
<1>7. ASSUME NEW i \in 1 .. n - gone + added, y[i].data.ch = c
      PROVE  y[i].data.value \in Nat /\ v <= y[i].data.value /\ y[i].data.value <= hi
  <2>1. CASE i \in 1 .. n - gone
    <3>1. y[i].data.value \in Nat /\ v <= y[i].data.value /\ y[i].data.value <= mid
      BY <1>4, <1>7, <2>1
    <3> QED
      BY <3>1
  <2>2. CASE added = 1 /\ i = n - gone + 1
    <3>1. y[i].data.value \in Nat /\ mid <= y[i].data.value /\ y[i].data.value <= hi
      BY <1>7, <2>2
    <3> QED
      BY <1>2, <3>1
  <2> QED
    BY <1>6, <2>1, <2>2
<1>8. ASSUME NEW i \in 1 .. n - gone + added, NEW j \in 1 .. n - gone + added, i < j,
             y[i].data.ch = c, y[j].data.ch = c
      PROVE  y[i].data.value <= y[j].data.value
  <2>1. i \in 1 .. n - gone
    BY <1>6, <1>8
  <2>2. CASE j \in 1 .. n - gone
    BY <1>5, <1>8, <2>1, <2>2
  <2>3. CASE added = 1 /\ j = n - gone + 1
    <3>1. /\ y[i].data.value \in Nat /\ y[i].data.value <= mid
          /\ y[j].data.value \in Nat /\ mid <= y[j].data.value
      BY <1>4, <1>8, <2>1, <2>3
    <3> QED
      BY <3>1
  <2> QED
    BY <1>6, <2>2, <2>3
<1> QED
  BY <1>2, <1>7, <1>8 DEF v

\* The results of a channel keep their order between filter and codec.
LEMMA ResultingStep ==
  ASSUME PathInv, PathNext, program = "filtered", NEW c \in Channel
  PROVE  Resulting(c)'
<1> DEFINE F == Term[FIR_PORT]
           q == fifo[F]
           n == Len(q)
           q2 == fifo'[F]
           w == Received(DAC_PORT)
           w2 == Received(DAC_PORT)'
           f == firSend.word
           f2 == firSend'.word
           d == Received(FIR_PORT)
<1>1. /\ TypeOK /\ Carried /\ Cores /\ Lines /\ Clock(Sends) /\ program' = program /\ F \in Ports
  BY StepParts, Wired DEF PathInv
<1>2. PICK b \in [1 .. 3 -> Nat] :
        /\ b[1] <= b[2] /\ b[2] <= b[3] /\ b[3] <= line[c][1]
        /\ put # NoPut /\ put.ch = c => put.value <= b[1]
        /\ w.header = "data" /\ w.ch = c => b[1] <= w.value /\ w.value <= b[2]
        /\ \A i \in 1 .. n : q[i].data.ch = c =>
             b[2] <= q[i].data.value /\ q[i].data.value <= b[3]
        /\ \A i, j \in 1 .. n : i < j /\ q[i].data.ch = c /\ q[j].data.ch = c =>
             q[i].data.value <= q[j].data.value
        /\ f.header = "data" /\ f.ch = c => b[3] <= f.value /\ f.value <= line[c][1]
  BY DEF PathInv, Resulting
<1>3. PICK gone \in {0, 1}, added \in {0, 1} :
        /\ n \in Nat /\ gone <= n /\ (gone = 1 <=> Ready(F))
        /\ Len(q2) = n - gone + added
        /\ \A i \in 1 .. n - gone : q2[i] = q[i + gone]
        /\ added = 1 => Sends[F] # Idle /\ q2[n - gone + 1] = Sends[F]
  BY <1>1, PortQueue
<1>4. Moved(q, q2, n, gone, added, Sends[F])
  BY <1>3 DEF Moved
<1>5. added = 1 => f.header = "data" /\ Sends[F].data = f
  BY <1>1, <1>3, FirOffers
<1>6. w2.header = "data" => gone = 1 /\ n >= 1 /\ q[1].data = w2
  <2> DEFINE dac == Term[DAC_PORT]
             s == recv'[dac].addr
  <2>1. dac \in Ports /\ w2 = recv'[dac].data
    BY Wired DEF Received
  <2>2. w2.header = "data" =>
          /\ Ready(s) /\ Len(fifo[s]) >= 1 /\ fifo[s][1] = [addr |-> dac, data |-> w2]
          /\ Legal(program, s, [addr |-> dac, data |-> w2])
    <3>1. w2.header = "data" => recv'[dac].data # Nothing
      BY <2>1, NothingHeader
    <3> QED
      BY <1>1, <2>1, <3>1, Arriving
  <2>3. w2.header = "data" /\ Legal(program, s, [addr |-> dac, data |-> w2]) => s = F
    <3>1. dac = Term[Bypassed(program)]
      BY DEF Bypassed
    <3>2. w2.header = "data" => w2 \notin ConfigWords(program)
      <4> HIDE DEF w2
      <4> QED
        BY ConfigWordType
    <3> HIDE DEF w2, dac, s
    <3> QED
      BY <3>1, <3>2 DEF Legal
  <2> QED
    BY <1>3, <2>2, <2>3
<1>7. /\ b[1] \in Nat /\ b[2] \in Nat /\ b[3] \in Nat
      /\ line[c][0] \in Nat /\ line[c][1] \in Nat
      /\ line[c][1] < line[c][0] \/ line[c][1] = 0
  <2>1. line \in [Channel -> [Tap -> Nat]] /\ 0 \in Tap /\ 1 \in Tap
    BY <1>1 DEF Cores, Tap
  <2>2. line[c][0 + 1] < line[c][0] \/ line[c][0 + 1] = 0
    BY <1>1 DEF Lines
  <2> QED
    BY <2>1, <2>2
<1>8. /\ \A i \in 1 .. n : q[i].data.value \in Nat
      /\ f.header = "data" => f.value \in Nat
      /\ w.header = "data" => w.value \in Nat
      /\ put # NoPut => put.value \in Nat
  <2>1. MaxSamples[program] \in Nat
    BY <1>1, SamplesAssumption DEF Cores
  <2>2. ASSUME NEW u \in SampleWords PROVE u.value \in Nat
    BY <1>1, <2>1, <2>2, SampleWordType
  <2>3. \A i \in 1 .. n : q[i].data \in SampleWords
    BY <1>1, QueueTypes
  <2>4. f.header = "data" => f \in SampleWords
    BY <1>1 DEF Cores
  <2>5. w.header = "data" => w \in SampleWords
    <3>1. w = Nothing \/ w \in SampleWords \/ w \in ConfigWords(program)
      BY <1>1, ReceivedType
    <3> HIDE DEF w
    <3> QED
      BY <3>1, ConfigWordType, NothingHeader
  <2>6. put # NoPut => put.value \in Nat
    BY <1>1 DEF Cores
  <2> QED
    BY <2>2, <2>3, <2>4, <2>5, <2>6
<1> DEFINE z == IF f.header = "data" /\ f.ch = c THEN f.value ELSE b[3]
           v == IF gone = 1 /\ q[1].data.ch = c THEN q[1].data.value ELSE b[2]
           g == [k \in 1 .. 3 |-> IF k = 1 THEN b[2] ELSE IF k = 2 THEN v ELSE z]
<1>9. z \in Nat /\ b[3] <= z /\ z <= line[c][1]
  BY <1>2, <1>7, <1>8
<1>10. v \in Nat /\ b[2] <= v /\ v <= b[3] /\ Climbs(q2, Len(q2), c, v, z)
  <2>1. Climbs(q, n, c, b[2], b[3])
    BY <1>2, <1>8 DEF Climbs
  <2>2. added = 1 /\ Sends[F].data.ch = c =>
          /\ Sends[F].data.value \in Nat
          /\ b[3] <= Sends[F].data.value /\ Sends[F].data.value <= z
    BY <1>2, <1>5, <1>7, <1>8
  <2>3. v = (IF gone = 1 /\ q[1].data.ch = c THEN q[1].data.value ELSE b[2])
        /\ Len(q2) = n - gone + added /\ b[2] <= b[3]
    BY <1>2, <1>3
  <2> HIDE DEF q, n, q2, v, z, F
  <2> QED
    BY <1>4, <1>7, <1>9, <2>1, <2>2, <2>3, ClimbingQueue
<1>11. g \in [1 .. 3 -> Nat] /\ g[1] = b[2] /\ g[2] = v /\ g[3] = z
  <2>1. v \in Nat /\ z \in Nat
    BY <1>9, <1>10
  <2> HIDE DEF v, z
  <2> QED
    BY <1>7, <2>1
<1>12. put' # NoPut /\ put'.ch = c => put'.value <= b[2]
  <2>1. put' # NoPut => (w.header = "data" /\ put' = [ch |-> w.ch, value |-> w.value]) \/ put' = put
    BY StepParts, DacMoves
  <2>2. put' # NoPut => (w.header = "data" /\ put'.ch = w.ch /\ put'.value = w.value) \/ put' = put
    BY <2>1
  <2> HIDE DEF w
  <2> QED
    BY <1>2, <1>7, <1>8, <2>2
<1>13. w2.header = "data" /\ w2.ch = c => b[2] <= w2.value /\ w2.value <= v
  <2>1. w2.header = "data" => 1 \in 1 .. n /\ gone = 1 /\ q[1].data = w2
    BY <1>3, <1>6
  <2>2. w2.header = "data" /\ w2.ch = c => v = w2.value
    BY <2>1
  <2> HIDE DEF v, w2
  <2> QED
    BY <1>7, <1>10, <2>2
<1>14. f2.header = "data" /\ f2.ch = c => z <= f2.value /\ f2.value <= line'[c][1]
  <2>1. /\ d.header # "data" => line' = line /\ firSend' = firSend
        /\ d.header = "data" =>
             /\ line' = [line EXCEPT ![d.ch] = Shift(@, d.value)]
             /\ firSend' \in {To(DAC_PORT, DataWord(d.ch, line[d.ch][0])), IdlePort}
    BY StepParts, FirMoves
  <2>2. line \in [Channel -> [Tap -> Nat]]
    BY <1>1 DEF Cores
  <2>3. CASE d.header # "data"
    <3>1. f2 = f /\ line' = line
      BY <2>1, <2>3
    <3> QED
      BY <1>2, <1>7, <1>8, <3>1
  <2>4. CASE d.header = "data"
    <3>1. f2.header = "data" /\ f2.ch = c => d.ch = c /\ f2.value = line[c][0]
      <4>1. f2 = DataWord(d.ch, line[d.ch][0]) \/ f2 = Nothing
        BY <2>1, <2>4 DEF To, IdlePort
      <4> HIDE DEF d, f2
      <4> QED
        BY <4>1, NothingHeader DEF DataWord
    <3>2. d.ch = c => line'[c][1] = line[c][0]
      BY <2>1, <2>2, <2>4 DEF Shift, Tap
    <3> HIDE DEF z, d, f2
    <3> QED
      BY <1>7, <1>9, <3>1, <3>2
  <2> QED
    BY <2>3, <2>4
<1>15. line'[c][1] \in Nat /\ z <= line'[c][1]
  <2>1. /\ d.header # "data" => line' = line
        /\ d.header = "data" => line' = [line EXCEPT ![d.ch] = Shift(@, d.value)]
    BY StepParts, FirMoves
  <2>2. line \in [Channel -> [Tap -> Nat]]
    BY <1>1 DEF Cores
  <2> HIDE DEF d, z
  <2>3. line'[c][1] = line[c][1] \/ line'[c][1] = line[c][0]
    BY <2>1, <2>2 DEF Shift, Tap
  <2> QED
    BY <1>7, <1>9, <2>3
<1>16. /\ b[2] <= v /\ v <= z
  <2> HIDE DEF v, z
  <2> QED
    BY <1>7, <1>9, <1>10
<1>17. /\ \A i \in 1 .. Len(q2) : q2[i].data.ch = c =>
            v <= q2[i].data.value /\ q2[i].data.value <= z
       /\ \A i, j \in 1 .. Len(q2) : i < j /\ q2[i].data.ch = c /\ q2[j].data.ch = c =>
            q2[i].data.value <= q2[j].data.value
  <2> HIDE DEF v, z, q2
  <2> QED
    BY <1>10 DEF Climbs
<1> HIDE DEF g, v, z
<1>18. /\ g[1] <= g[2] /\ g[2] <= g[3] /\ g[3] <= line'[c][1]
       /\ put' # NoPut /\ put'.ch = c => put'.value <= g[1]
       /\ w2.header = "data" /\ w2.ch = c => g[1] <= w2.value /\ w2.value <= g[2]
       /\ \A i \in 1 .. Len(q2) : q2[i].data.ch = c =>
            g[2] <= q2[i].data.value /\ q2[i].data.value <= g[3]
       /\ \A i, j \in 1 .. Len(q2) : i < j /\ q2[i].data.ch = c /\ q2[j].data.ch = c =>
            q2[i].data.value <= q2[j].data.value
       /\ f2.header = "data" /\ f2.ch = c => g[3] <= f2.value /\ f2.value <= line'[c][1]
  BY <1>11, <1>12, <1>13, <1>14, <1>15, <1>16, <1>17
<1> QED
  BY <1>11, <1>18 DEF Resulting

\* After the slot that brings a sample of the direct path to the DAC
\* processor comes one that brings it nothing.
LEMMA AloneStep ==
  ASSUME PathInv, PathNext
  PROVE  Alone'
<1> DEFINE w == Received(DAC_PORT)
           d == Term[DAC_PORT]
<1>1. /\ TypeOK /\ Carried /\ Cores /\ Alone /\ Clock(Sends) /\ program' = program
  BY StepParts DEF PathInv
<1>2. d \in Ports /\ Received(DAC_PORT)' = recv'[d].data
  BY Wired DEF Received
<1> SUFFICES ASSUME program # "filtered", put' # NoPut PROVE recv'[d].data = Nothing
  BY <1>1, <1>2 DEF Alone
<1>3. w.header = "data" \/ (w.header = "dac" /\ put' = put)
  BY StepParts, DacMoves
<1>4. w.header # "dac" \/ put' # put
  <2>1. put # NoPut => w = Nothing
    BY <1>1 DEF Alone
  <2> HIDE DEF w
  <2> QED
    BY <2>1, NothingHeader
<1>5. slot = Increment(Xor(d, Term[ADC_PORT]))
  <2>1. /\ w = Nothing \/ slot = Increment(Xor(d, Term[ADC_PORT])) \/ w \in ConfigWords(program)
    BY <1>1, ReceivedType
  <2>2. w.header = "data"
    BY <1>3, <1>4
  <2> HIDE DEF w
  <2> QED
    BY <2>1, <2>2, ConfigWordType, NothingHeader
<1>6. Peer(d) = Term[DP_PORT]
  BY <1>5, SlotAfter DEF Peer
<1>7. ASSUME recv'[d].data # Nothing PROVE FALSE
  <2>1. Peer(d) \in Ports /\ Len(fifo[Peer(d)]) >= 1
    BY <1>1, <1>2, <1>7, Arriving
  <2>2. 1 \in 1 .. Len(fifo[Peer(d)])
    <3>1. Len(fifo[Peer(d)]) \in Nat
      BY <1>1, <2>1, LenProperties DEF TypeOK
    <3> QED
      BY <2>1, <3>1
  <2> QED
    BY <1>1, <1>6, <2>1, <2>2, QueueTypes
<1> QED
  BY <1>7

\* A distance of zero is that of a slot to itself.
LEMMA DistanceZero ==
  ASSUME NEW s \in Terminal, NEW t \in Terminal, Distance(s, t) = 0
  PROVE  s = t
<1> SUFFICES ASSUME s # t PROVE FALSE
  OBVIOUS
<1>1. Distance(Increment(s), t) = 0 - 1
  BY DistanceShrinks
<1>2. Distance(Increment(s), t) \in 0 .. Power(Stages) - 1
  BY IncrementType, DistanceRange
<1> QED
  BY <1>1, <1>2

\* A sample leaves the fifo of the ADC processor before the next comes.
LEMMA SpacedStep ==
  ASSUME PathInv, PathNext
  PROVE  Spaced'
<1> DEFINE A == Term[ADC_PORT]
           q == fifo[A]
           n == Len(q)
           q2 == fifo'[A]
           wait == Distance(slot, Target(A))
           wait2 == Distance(slot', Xor(A, Head(q2).addr))
           R == 2 ^ Stages
           has == adcSend.word.header = "data"
           has2 == adcSend'.word.header = "data"
<1>1. /\ TypeOK /\ Carried /\ Cores /\ Spaced /\ Clock(Sends) /\ gap' = gap /\ A \in Ports
  BY StepParts, Wired DEF PathInv
<1>2. R \in Nat /\ R >= 8 /\ gap \in Nat /\ pause \in Nat /\ pause' \in Nat
  BY <1>1, Round, SamplesAssumption, SourceMoves DEF Cores
<1> SUFFICES ASSUME gap >= R
             PROVE  /\ newData' => pause' = gap - 1
                    /\ has2 => ~ newData' /\ pause' >= gap - 2
                    /\ Len(q2) <= 1
                    /\ Len(q2) = 1 => /\ wait2 <= pause' + 2
                                      /\ newData' => wait2 <= 1
                                      /\ has2 => wait2 = 0
  BY <1>1 DEF Spaced, Target
<1>3. /\ newData => pause = gap - 1
      /\ has => ~ newData /\ pause >= gap - 2
      /\ n <= 1
      /\ n = 1 => wait <= pause + 2 /\ (newData => wait <= 1) /\ (has => wait = 0)
  BY <1>1 DEF Spaced
<1>4. /\ newData' => pause = 0 /\ pause' = gap - 1
      /\ ~ newData' => pause' = IF pause = 0 THEN 0 ELSE pause - 1
      /\ has2 => newData
  BY SourceMoves
<1>5. PICK gone \in {0, 1}, added \in {0, 1} :
        /\ n \in Nat /\ gone <= n /\ (gone = 1 <=> Ready(A))
        /\ Len(q2) = n - gone + added
        /\ \A i \in 1 .. n - gone : q2[i] = q[i + gone]
        /\ added = 1 => Sends[A] # Idle /\ q2[n - gone + 1] = Sends[A]
  BY <1>1, PortQueue
<1>6. added = 1 => has /\ Sends[A].addr \in Terminal
  BY <1>1, <1>5, AdcOffers
<1>7. slot \in Terminal /\ slot' = Increment(slot) /\ slot' \in Terminal
  BY <1>1, IncrementType DEF TypeOK, Clock, Edge
<1>8. q \in Seq(Packet) /\ q2 \in Seq(Packet)
  BY <1>1, PathType DEF TypeOK
<1>9. n = 1 => /\ q # <<>> /\ Head(q) = q[1] /\ Head(q).addr \in Terminal
               /\ Target(A) \in Terminal
  <2>1. n = 1 => q # <<>> /\ Head(q) = q[1] /\ 1 \in 1 .. n
    <3>1. Len(q) = 1 => q # <<>>
      <4>1. q = <<>> => Len(q) = 0
        BY EmptySeq
      <4> HIDE DEF q
      <4> QED
        BY <4>1
    <3> HIDE DEF q
    <3> QED
      BY <1>8, <3>1
  <2>2. n = 1 => Head(q).addr \in Terminal
    BY <1>1, <2>1, QueueTypes
  <2> QED
    BY <1>1, <2>1, <2>2, TargetType
<1>10. n = 1 /\ gone = 0 => wait \in 1 .. R - 1 /\ Distance(slot', Target(A)) = wait - 1
  <2> SUFFICES ASSUME n = 1, gone = 0
               PROVE  wait \in 1 .. R - 1 /\ Distance(slot', Target(A)) = wait - 1
    OBVIOUS
  <2>1. slot # Target(A)
    BY <1>1, <1>5, <1>9, TargetReady
  <2>2. wait \in 0 .. R - 1 /\ wait # 0 /\ Distance(slot', Target(A)) = wait - 1
    BY <1>7, <1>9, <2>1, DistanceRange, DistanceShrinks, DistanceZero DEF Power
  <2> HIDE DEF wait, R
  <2> QED
    BY <1>2, <2>2
<1>11. n = 1 /\ has => gone = 1
  <2>1. n = 1 /\ has => wait = 0
    BY <1>3
  <2> HIDE DEF wait, has, n
  <2> QED
    BY <1>2, <1>5, <1>10, <2>1
<1>12. Len(q2) = n - gone + added /\ n \in {0, 1} /\ gone <= n
  <2> HIDE DEF n, q2
  <2> QED
    BY <1>3, <1>5
<1>13. Len(q2) <= 1
  <2> HIDE DEF n, q2
  <2> QED
    BY <1>6, <1>11, <1>12
<1>14. CASE n = 1 /\ gone = 0
  <2>1. added = 0 /\ Len(q2) = 1
    <3> HIDE DEF n, q2
    <3> QED
      BY <1>12, <1>13, <1>14
  <2>2. Head(q2) = q2[1] /\ q2[1] = q[1] /\ Head(q) = q[1]
    <3>1. 1 \in 1 .. n - gone /\ 1 + gone = 1
      BY <1>14
    <3> QED
      BY <1>5, <1>8, <1>9, <1>14, <2>1, <3>1, EmptySeq
  <2>3. wait2 = wait - 1
    BY <1>10, <1>14, <2>2 DEF Target
  <2>4. wait \in 1 .. R - 1 /\ wait <= pause + 2 /\ (newData => wait <= 1)
    BY <1>3, <1>10, <1>14
  <2>5. newData \in BOOLEAN /\ newData' \in BOOLEAN
    BY <1>1, SourceMoves DEF Cores
  <2> HIDE DEF wait, wait2, R, has, has2, q2
  <2>6. wait2 <= pause' + 2
    <3>1. CASE newData'
      BY <1>2, <1>4, <2>3, <2>4, <3>1
    <3>2. CASE ~ newData'
      <4>1. pause' = IF pause = 0 THEN 0 ELSE pause - 1
        BY <1>4, <3>2
      <4>2. wait \in Nat /\ wait <= pause + 2
        BY <1>2, <2>4
      <4> QED
        BY <1>2, <2>3, <4>1, <4>2
    <3> QED
      BY <3>1, <3>2
  <2>7. newData' => wait2 <= 1
    BY <1>2, <1>4, <2>3, <2>4
  <2>8. has2 => wait2 = 0
    BY <1>2, <1>4, <2>3, <2>4
  <2>9. newData' => pause' = gap - 1
    BY <1>4
  <2>10. has2 => ~ newData' /\ pause' >= gap - 2
    BY <1>2, <1>3, <1>4
  <2> QED
    BY <1>13, <2>6, <2>7, <2>8, <2>9, <2>10
<1>15. CASE n = 0 \/ gone = 1
  <2>1. Len(q2) = 1 => added = 1
    <3> HIDE DEF n, q2
    <3> QED
      BY <1>12, <1>15
  <2>2. Len(q2) = 1 => Head(q2) = Sends[A]
    <3>1. Len(q2) = 1 => n - gone + 1 = 1
      <4> HIDE DEF n, q2
      <4> QED
        BY <1>12, <1>15
    <3> QED
      BY <1>5, <1>8, <2>1, <3>1, EmptySeq
  <2>3. Len(q2) = 1 => wait2 \in 0 .. R - 1
    <3>1. Len(q2) = 1 => Xor(A, Head(q2).addr) \in Terminal
      BY <1>1, <1>6, <2>1, <2>2, PortsAssumption, XorType
    <3> QED
      BY <1>7, <3>1, DistanceRange DEF Power
  <2>4. Len(q2) = 1 => ~ newData /\ pause >= gap - 2
    BY <1>3, <1>6, <2>1
  <2> DEFINE m == Len(q2)
  <2> HIDE DEF wait, wait2, R, has, has2, m, q2
  <2>5. m = 1 => wait2 <= pause' + 2 /\ ~ newData' /\ ~ has2
    BY <1>2, <1>4, <2>3, <2>4 DEF m
  <2>6. newData' => pause' = gap - 1
    BY <1>4
  <2>7. has2 => ~ newData' /\ pause' >= gap - 2
    BY <1>2, <1>3, <1>4
  <2> QED
    BY <1>13, <2>5, <2>6, <2>7 DEF m
<1> QED
  BY <1>12, <1>14, <1>15

-----------------------------------------------------------------------------
(* The invariant holds.                                                    *)

LEMMA PathStart ==
  ASSUME PathInit
  PROVE  PathInv
<1>1. TypeOK
  BY InitType DEF PathInit
<1>2. /\ \A p \in Ports : fifo[p] = <<>> /\ Len(fifo[p]) = 0
      /\ \A p \in Ports : recv[p].data = Nothing
  BY EmptySeq, PortsWired DEF PathInit, Init
<1>3. \A p \in Ports : \A i \in 1 .. Len(fifo[p]) : FALSE
  BY <1>2
<1>4. Carried
  BY <1>2, <1>3 DEF Carried
<1>5. /\ program \in Program /\ gap \in Gaps /\ dpcr = Nothing /\ taken = 0 /\ pause = 0
      /\ adcAddr = [c \in Channel |-> NIOS_PORT] /\ newData = FALSE /\ adcSend.word = Nothing
      /\ put = NoPut /\ dacSend.word = Nothing
      /\ firAddr = [c \in Channel |-> DAC_PORT]
      /\ firVal = [i \in Tap |-> CASE i = 0 -> 4 [] i = 3 -> -4 [] OTHER -> 0]
      /\ line = [c \in Channel |-> [i \in Tap |-> 0]] /\ firSend.word = Nothing
      /\ outgoing = To(0, Nothing) /\ niosSend = To(0, Nothing)
  BY DEF PathInit, AdcInit, DacInit, FirInit, Lab3Init, IdlePort, To
<1>6. Cores
  <2>1. NIOS_PORT \in (0 .. 7) \ {Bypassed(program)}
    BY DEF Bypassed, NIOS_PORT, DAC_PORT, FIR_PORT
  <2>2. 0 \in 0 .. MaxSamples[program]
    BY <1>5, SamplesAssumption
  <2>3. To(0, Nothing) \in [addr : 0 .. 7, word : HeldWords]
    BY DEF To, HeldWords
  <2>4. Nothing \in HeldWords /\ NoPut = put
    BY <1>5 DEF HeldWords
  <2>5. /\ adcSend.word.header = "none" /\ dacSend.word.header = "none"
        /\ firSend.word.header = "none"
    BY <1>5, NothingHeader
  <2>6. line \in [Channel -> [Tap -> Nat]]
    BY <1>5
  <2>7. adcAddr \in [Channel -> (0 .. 7) \ {Bypassed(program)}]
    BY <1>5, <2>1
  <2> QED
    BY <1>5, <2>2, <2>3, <2>4, <2>5, <2>6, <2>7 DEF Cores
<1>7. \A n \in {ADC_PORT, DAC_PORT, FIR_PORT} : Term[n] \in Ports /\ Received(n).header = "none"
  BY <1>2, Wired, NothingHeader DEF Received
<1>8. \A c \in Channel : \A i \in Tap : line[c][i] = 0
  BY <1>5
<1>9. adcSend.word.header = "none" /\ firSend.word.header = "none"
  BY <1>5, NothingHeader
<1>10. Rising
  <2> DEFINE b == [k \in 1 .. 4 |-> 0]
  <2>1. b \in [1 .. 4 -> Nat] /\ b[1] = 0 /\ b[2] = 0 /\ b[3] = 0 /\ b[4] = 0
    OBVIOUS
  <2>2. Received(Exit).header = "none" /\ 0 \in Tap
    BY <1>7 DEF Exit, Tap
  <2>3. \A i \in 1 .. Len(fifo[Term[ADC_PORT]]) : FALSE
    BY <1>3, <1>7
  <2> HIDE DEF b
  <2>4. /\ b[1] <= b[2] /\ b[2] <= b[3] /\ b[3] <= b[4] /\ b[4] <= taken
        /\ IF program = "filtered" THEN \A c \in Channel : line[c][0] <= b[1]
           ELSE put # NoPut => put.value <= b[1]
    BY <1>5, <1>8, <2>1, <2>2
  <2> QED
    BY <1>5, <1>9, <2>1, <2>2, <2>3, <2>4 DEF Rising
<1>11. Lines
  BY <1>8 DEF Lines, Tap
<1>12. Alone /\ Spaced
  <2>1. Len(fifo[Term[ADC_PORT]]) = 0
    BY <1>2, <1>7
  <2> QED
    BY <1>5, <1>9, <2>1 DEF Alone, Spaced
<1>13. ASSUME NEW c \in Channel PROVE Resulting(c)
  <2> DEFINE b == [k \in 1 .. 3 |-> 0]
  <2>1. b \in [1 .. 3 -> Nat] /\ b[1] = 0 /\ b[2] = 0 /\ b[3] = 0
    OBVIOUS
  <2>2. Received(DAC_PORT).header = "none" /\ line[c][1] = 0
    BY <1>7, <1>8 DEF Tap
  <2>3. \A i \in 1 .. Len(fifo[Term[FIR_PORT]]) : FALSE
    BY <1>3, <1>7
  <2> HIDE DEF b
  <2>4. b[1] <= b[2] /\ b[2] <= b[3] /\ b[3] <= line[c][1]
    BY <2>1, <2>2
  <2> QED
    BY <1>5, <1>9, <2>1, <2>2, <2>3, <2>4 DEF Resulting
<1> QED
  BY <1>1, <1>4, <1>6, <1>10, <1>11, <1>12, <1>13 DEF PathInv

LEMMA PathStays ==
  ASSUME PathInv, UNCHANGED pathVars
  PROVE  PathInv'
<1>1. /\ UNCHANGED <<slot, fifo, recv>> /\ UNCHANGED <<adcAddr, newData, sample, adcSend>>
      /\ UNCHANGED <<put, dacSend>> /\ UNCHANGED <<firAddr, firVal, line, firSend>>
      /\ UNCHANGED <<outgoing, niosSend>> /\ UNCHANGED <<program, dpcr, gap, taken, pause>>
  BY DEF pathVars, vars, adcVars, dacVars, firVars, lab3Vars
<1>2. \A n : Received(n)' = Received(n)
  BY <1>1 DEF Received
<1>3. Received(Exit)' = Received(Exit) /\ Received(DAC_PORT)' = Received(DAC_PORT)
  BY <1>1 DEF Received, Exit
<1>4. TypeOK'
  BY <1>1 DEF PathInv, TypeOK
<1>5. Carried'
  BY <1>1 DEF PathInv, Carried
<1>6. Cores'
  <2>1. SampleWords' = SampleWords /\ HeldWords' = HeldWords
    BY <1>1, SameWords
  <2> QED
    BY <1>1, <2>1 DEF PathInv, Cores
<1>7. Rising'
  BY <1>1, <1>3 DEF PathInv, Rising
<1>8. Lines'
  BY <1>1 DEF PathInv, Lines
<1>9. Alone'
  BY <1>1, <1>3 DEF PathInv, Alone
<1>10. Spaced'
  BY <1>1 DEF PathInv, Spaced, Target
<1>11. (program = "filtered" => \A c \in Channel : Resulting(c))'
  BY <1>1, <1>3 DEF PathInv, Resulting
<1> QED
  BY <1>4, <1>5, <1>6, <1>7, <1>8, <1>9, <1>10, <1>11 DEF PathInv

LEMMA PathStep == PathInv /\ [PathNext]_pathVars => PathInv'
<1> SUFFICES ASSUME PathInv, [PathNext]_pathVars PROVE PathInv'
  OBVIOUS
<1>1. CASE PathNext
  <2>1. TypeOK' /\ Carried'
    BY <1>1, StepParts, PathType, CarriedStep
  <2>2. Cores' /\ Rising' /\ Lines' /\ Alone' /\ Spaced'
    BY <1>1, CoresStep, RisingStep, LinesStep, AloneStep, SpacedStep
  <2>3. (program = "filtered" => \A c \in Channel : Resulting(c))'
    <3>1. program' = program
      BY <1>1, StepParts
    <3>2. ASSUME program = "filtered", NEW c \in Channel PROVE Resulting(c)'
      BY <1>1, <3>2, ResultingStep
    <3> QED
      BY <3>1, <3>2
  <2> QED
    BY <2>1, <2>2, <2>3 DEF PathInv
<1>2. CASE UNCHANGED pathVars
  BY <1>2, PathStays
<1> QED
  BY <1>1, <1>2

LEMMA PathInvariant == PathSpec => []PathInv
<1>1. PathInit => PathInv
  BY PathStart
<1> QED
  BY <1>1, PathStep, PTL DEF PathSpec

\* The network keeps up with the codec: with a round of slots between two
\* samples, none ever waits behind another (TdmaMinInterface.vhd drops what
\* comes to a full fifo, and the ADC processor would not know).
THEOREM KeepsUp == PathSpec => []PathKeepsUp
<1>1. PathInv => PathKeepsUp
  BY DEF PathInv, Spaced, PathKeepsUp
<1> QED
  BY <1>1, PathInvariant, PTL

\* On the direct path the DAC processor writes each sample it plays once,
\* although a configuration word leaves put as it is.
THEOREM PlayedOnce == PathSpec => PutOnce
<1>1. PathInv /\ [PathNext]_pathVars
        => [program # "filtered" /\ put # NoPut => put' # put]_pathVars
  <2> SUFFICES ASSUME PathInv, PathNext, program # "filtered", put # NoPut, put' = put
               PROVE  FALSE
    OBVIOUS
  <2>1. Received(DAC_PORT) = Nothing
    BY DEF PathInv, Alone
  <2>2. Received(DAC_PORT).header \in {"data", "dac"}
    BY StepParts, DacMoves
  <2> QED
    BY <2>1, <2>2, NothingHeader
<1> QED
  BY <1>1, PathInvariant, PTL DEF PathSpec, PutOnce

-----------------------------------------------------------------------------
(* The network under the path.                                             *)

\* TdmaMin with any words on its send ports.
AnyTraffic == Init /\ [][\E sends \in AnySends : Clock(sends)]_vars

\* What the processors and programs of TopLevel.vhd put on their send ports
\* is traffic the network is specified for, so that what holds of it for any
\* traffic holds in the path.
THEOREM PathOnNetwork == PathSpec => AnyTraffic
<1>1. PathInit => Init
  BY DEF PathInit
<1>2. PathInv /\ [PathNext]_pathVars => [\E sends \in AnySends : Clock(sends)]_vars
  <2>1. ASSUME PathInv, PathNext
        PROVE  \E sends \in AnySends : Clock(sends)
    BY <2>1, StepParts, SendsLegal DEF AnySends
  <2>2. UNCHANGED pathVars => UNCHANGED vars
    BY DEF pathVars
  <2> QED
    BY <2>1, <2>2
<1> QED
  BY <1>1, <1>2, PathInvariant, PTL DEF PathSpec, AnyTraffic

\* Between the processors no word is invented, misrouted, mislabelled or
\* repeated, and none that is first in a fifo is lost.
THEOREM PathDelivers == PathSpec => []NoCollision /\ DeliveredIsSent /\ SentIsDelivered
<1> DEFINE Sound == \A d \in Ports : recv'[d].data # NoData =>
        LET s == recv'[d].addr IN
        /\ s \in Ports
        /\ fifo[s] # <<>>
        /\ Head(fifo[s]) = [addr |-> d, data |-> recv'[d].data]
        /\ Extended(Tail(fifo[s]), fifo'[s])
           Complete == \A s \in Ports :
        LET head == Head(fifo[s]) IN
        fifo[s] # <<>> /\ head.addr \in Ports =>
          \/ recv'[head.addr] = [addr |-> s, data |-> head.data]
          \/ Extended(fifo[s], fifo'[s])
<1>1. PathInv => TypeOK /\ NoCollision
  BY TypeNoCollision DEF PathInv
<1>2. TypeOK /\ [\E sends \in AnySends : Clock(sends)]_vars => [Sound]_vars
  BY ClockDelivers
<1>3. TypeOK /\ [\E sends \in AnySends : Clock(sends)]_vars => [Complete]_vars
  BY ClockArrives
<1>4. (DeliveredIsSent <=> [][Sound]_vars) /\ (SentIsDelivered <=> [][Complete]_vars)
  BY DEF DeliveredIsSent, SentIsDelivered
<1> HIDE DEF Sound, Complete
<1> QED
  BY <1>1, <1>2, <1>3, <1>4, PathOnNetwork, PathInvariant, PTL DEF AnyTraffic

-----------------------------------------------------------------------------
(* The order of the samples.                                               *)

Entry == [ch : Channel, value : Nat]

\* The entries of s on the channels of C are above lo, up to hi, and each is
\* above those before it, all by step at least.
Ordered(s, C, k, lo, hi) ==
  /\ s \in Seq(Entry)
  /\ \A i \in 1 .. Len(s) : s[i].ch \in C => lo + k <= s[i].value /\ s[i].value <= hi
  /\ \A i, j \in 1 .. Len(s) :
       i < j /\ s[i].ch \in C /\ s[j].ch \in C => s[i].value + k <= s[j].value

LEMMA ConcatOrdered ==
  ASSUME NEW s, NEW t, NEW C, NEW k \in Nat,
         NEW lo \in Int, NEW mid \in Int, NEW hi \in Int, lo <= mid, mid <= hi,
         Ordered(s, C, k, lo, mid), Ordered(t, C, k, mid, hi)
  PROVE  Ordered(s \o t, C, k, lo, hi)
<1> DEFINE u == s \o t
           m == Len(s)
           n == Len(t)
<1>1. s \in Seq(Entry) /\ t \in Seq(Entry)
  BY DEF Ordered
<1>2. /\ u \in Seq(Entry) /\ Len(u) = m + n /\ m \in Nat /\ n \in Nat
      /\ \A i \in 1 .. m + n : u[i] = IF i <= m THEN s[i] ELSE t[i - m]
  BY <1>1, ConcatProperties, LenProperties
<1> HIDE DEF u, m, n
<1>3. \A i \in 1 .. m : u[i] = s[i]
  BY <1>2
<1>4. \A i \in 1 .. m + n : i > m => i - m \in 1 .. n /\ u[i] = t[i - m]
  BY <1>2
<1>5. \A i \in 1 .. m + n : u[i].value \in Nat
  <2>1. \A i \in 1 .. m + n : u[i] \in Entry
    BY <1>2, ElementOfSeq
  <2> QED
    BY <2>1 DEF Entry
<1>6. ASSUME NEW i \in 1 .. m, u[i].ch \in C
      PROVE  lo + k <= u[i].value /\ u[i].value <= mid
  BY <1>3, <1>6 DEF Ordered, m
<1>7. ASSUME NEW i \in 1 .. m + n, i > m, u[i].ch \in C
      PROVE  mid + k <= u[i].value /\ u[i].value <= hi
  BY <1>4, <1>7 DEF Ordered, n
<1>8. ASSUME NEW i \in 1 .. m + n, u[i].ch \in C
      PROVE  lo + k <= u[i].value /\ u[i].value <= hi
  <2>1. CASE i <= m
    <3>1. i \in 1 .. m
      BY <1>2, <2>1
    <3>2. lo + k <= u[i].value /\ u[i].value <= mid
      BY <1>6, <1>8, <3>1
    <3> QED
      BY <1>5, <3>2
  <2>2. CASE i > m
    <3>1. mid + k <= u[i].value /\ u[i].value <= hi
      BY <1>7, <1>8, <2>2
    <3> QED
      BY <1>5, <3>1
  <2> QED
    BY <1>2, <2>1, <2>2
<1>9. ASSUME NEW i \in 1 .. m + n, NEW j \in 1 .. m + n, i < j, u[i].ch \in C, u[j].ch \in C
      PROVE  u[i].value + k <= u[j].value
  <2>1. CASE j <= m
    <3>1. i \in 1 .. m /\ j \in 1 .. m /\ u[i] = s[i] /\ u[j] = s[j]
      BY <1>2, <1>3, <1>9, <2>1
    <3> QED
      BY <1>9, <3>1 DEF Ordered, m
  <2>2. CASE i > m
    <3> DEFINE x == i - m
               y == j - m
    <3>1. x \in 1 .. n /\ y \in 1 .. n /\ x < y /\ u[i] = t[x] /\ u[j] = t[y]
      BY <1>2, <1>4, <1>9, <2>2
    <3> HIDE DEF x, y
    <3> QED
      BY <1>9, <3>1 DEF Ordered, n
  <2>3. CASE i <= m /\ j > m
    <3>1. i \in 1 .. m
      BY <1>2, <2>3
    <3>2. u[i].value <= mid /\ mid + k <= u[j].value
      BY <1>6, <1>7, <1>9, <2>3, <3>1
    <3> QED
      BY <1>5, <3>2
  <2> QED
    BY <1>2, <2>1, <2>2, <2>3
<1> QED
  BY <1>2, <1>8, <1>9 DEF Ordered, u

LEMMA EmptyOrdered ==
  ASSUME NEW C, NEW k, NEW lo, NEW hi
  PROVE  Ordered(<<>>, C, k, lo, hi)
  BY EmptySeq DEF Ordered

LEMMA OneOrdered ==
  ASSUME NEW e \in Entry, NEW C, NEW k, NEW lo, NEW hi,
         e.ch \in C => lo + k <= e.value /\ e.value <= hi
  PROVE  Ordered(<<e>>, C, k, lo, hi)
<1>1. <<e>> \in Seq(Entry) /\ Len(<<e>>) = 1 /\ <<e>>[1] = e
  OBVIOUS
<1> QED
  BY <1>1 DEF Ordered

LEMMA WordOrdered ==
  ASSUME NEW w, NEW C, NEW k, NEW lo, NEW hi,
         w.header = "data" => w.ch \in Channel /\ w.value \in Nat,
         w.header = "data" /\ w.ch \in C => lo + k <= w.value /\ w.value <= hi
  PROVE  Ordered(SampleIn(w), C, k, lo, hi)
<1>1. CASE w.header = "data"
  <2> DEFINE e == [ch |-> w.ch, value |-> w.value]
  <2>1. SampleIn(w) = <<e>> /\ e \in Entry /\ e.ch = w.ch /\ e.value = w.value
    BY <1>1 DEF SampleIn, Entry
  <2> HIDE DEF e
  <2> QED
    BY <1>1, <2>1, OneOrdered
<1>2. CASE w.header # "data"
  BY <1>2, EmptyOrdered DEF SampleIn
<1> QED
  BY <1>1, <1>2

LEMMA QueueOrdered ==
  ASSUME NEW p, fifo[Term[p]] \in Seq(Packet), NEW C, NEW k, NEW lo, NEW hi,
         \A i \in 1 .. Len(fifo[Term[p]]) :
           LET w == fifo[Term[p]][i].data IN
           /\ w.ch \in Channel /\ w.value \in Nat
           /\ w.ch \in C => lo + k <= w.value /\ w.value <= hi,
         \A i, j \in 1 .. Len(fifo[Term[p]]) :
           i < j /\ fifo[Term[p]][i].data.ch \in C /\ fifo[Term[p]][j].data.ch \in C =>
             fifo[Term[p]][i].data.value + k <= fifo[Term[p]][j].data.value
  PROVE  Ordered(Queued(p), C, k, lo, hi)
<1> DEFINE q == fifo[Term[p]]
           n == Len(q)
           u == Queued(p)
<1>1. DOMAIN q = 1 .. n /\ n \in Nat
  BY LenProperties
<1>2. u = [i \in 1 .. n |-> [ch |-> q[i].data.ch, value |-> q[i].data.value]]
  BY <1>1 DEF Queued
<1>3. \A i \in 1 .. n : [ch |-> q[i].data.ch, value |-> q[i].data.value] \in Entry
  BY DEF Entry
<1>4. \A i \in 1 .. n : u[i].ch = q[i].data.ch /\ u[i].value = q[i].data.value
  <2> HIDE DEF u, q, n
  <2> QED
    BY <1>2
<1>5. u \in Seq(Entry) /\ Len(u) = n
  <2> HIDE DEF u, q, n
  <2>1. u \in [1 .. n -> Entry]
    BY <1>2, <1>3
  <2>2. u \in Seq(Entry)
    BY <1>1, <2>1
  <2> QED
    BY <1>1, <2>1, <2>2, LenProperties
<1> HIDE DEF u
<1> QED
  BY <1>4, <1>5 DEF Ordered, u

LEMMA PlaceOrdered ==
  ASSUME NEW s, NEW C, NEW k \in Nat,
         NEW lo \in Int, NEW mid \in Int, NEW hi \in Int, lo <= mid, mid <= hi,
         Ordered(s, C, k, mid, hi),
         put # NoPut => put \in Entry,
         put # NoPut /\ put.ch \in C => lo + k <= put.value /\ put.value <= mid
  PROVE  Ordered(Place(s), C, k, lo, hi)
<1>1. CASE put # NoPut
  <2>1. Ordered(<<put>>, C, k, lo, mid)
    BY <1>1, OneOrdered
  <2>2. Ordered(<<put>> \o s, C, k, lo, hi)
    BY <2>1, ConcatOrdered
  <2> QED
    BY <1>1, <2>2 DEF Place
<1>2. CASE put = NoPut
  <2>1. Ordered(<<>>, C, k, lo, mid)
    BY EmptyOrdered
  <2>2. Ordered(<<>> \o s, C, k, lo, hi)
    BY <2>1, ConcatOrdered
  <2>3. <<>> \o s = s
    BY ConcatEmptySeq DEF Ordered
  <2> QED
    BY <1>2, <2>2, <2>3 DEF Place
<1> QED
  BY <1>1, <1>2

\* The words under way are entries.
LEMMA WordEntries ==
  ASSUME PathInv
  PROVE  /\ put # NoPut => put \in Entry
         /\ \A n \in {DAC_PORT, FIR_PORT} :
              Received(n).header = "data" => Received(n).ch \in Channel /\ Received(n).value \in Nat
         /\ \A n \in {ADC_PORT, FIR_PORT} :
              /\ fifo[Term[n]] \in Seq(Packet)
              /\ \A i \in 1 .. Len(fifo[Term[n]]) :
                   fifo[Term[n]][i].data.ch \in Channel /\ fifo[Term[n]][i].data.value \in Nat
         /\ adcSend.word.header = "data" => adcSend.word.ch \in Channel /\ adcSend.word.value \in Nat
         /\ firSend.word.header = "data" => firSend.word.ch \in Channel /\ firSend.word.value \in Nat
         /\ newData => sample \in Entry /\ sample.value <= taken
         /\ taken \in Nat
<1>1. TypeOK /\ Carried /\ Cores
  BY DEF PathInv
<1>2. MaxSamples[program] \in Nat
  BY <1>1, SamplesAssumption DEF Cores
<1>3. ASSUME NEW u \in SampleWords PROVE u.ch \in Channel /\ u.value \in Nat
  <2>1. u.ch \in Channel /\ u.value \in 0 .. MaxSamples[program]
    BY <1>1, SampleWordType
  <2> QED
    BY <1>2, <2>1
<1>4. ASSUME NEW n \in {DAC_PORT, FIR_PORT}, Received(n).header = "data"
      PROVE  Received(n).ch \in Channel /\ Received(n).value \in Nat
  <2> DEFINE w == Received(n)
  <2>1. w = Nothing \/ w \in SampleWords \/ w \in ConfigWords(program)
    BY <1>1, ReceivedType
  <2>2. w.header = "data"
    BY <1>4
  <2> HIDE DEF w
  <2>3. w \in SampleWords
    BY <2>1, <2>2, ConfigWordType, NothingHeader
  <2> QED
    BY <1>3, <2>3 DEF w
<1>5. ASSUME NEW n \in {ADC_PORT, FIR_PORT}
      PROVE  /\ fifo[Term[n]] \in Seq(Packet)
             /\ \A i \in 1 .. Len(fifo[Term[n]]) :
                  fifo[Term[n]][i].data.ch \in Channel /\ fifo[Term[n]][i].data.value \in Nat
  <2>1. \A i \in 1 .. Len(fifo[Term[n]]) : fifo[Term[n]][i].data \in SampleWords
    BY <1>1, QueueTypes
  <2> QED
    BY <1>1, <1>3, <2>1, Wired DEF TypeOK
<1>6. /\ adcSend.word.header = "data" => adcSend.word \in SampleWords
      /\ firSend.word.header = "data" => firSend.word \in SampleWords
  BY <1>1 DEF Cores
<1>7. taken \in Nat /\ (newData => sample \in Entry /\ sample.value <= taken)
  <2>1. taken \in 0 .. MaxSamples[program] /\ (newData => sample \in [ch : Channel, value : 0 .. taken])
    BY <1>1 DEF Cores
  <2>2. taken \in Nat
    BY <1>2, <2>1
  <2> QED
    BY <2>1, <2>2 DEF Entry
<1>8. put # NoPut => put \in Entry
  BY <1>1 DEF Cores, Entry
<1> QED
  BY <1>3, <1>4, <1>5, <1>6, <1>7, <1>8

LEMMA InFlightOrdered ==
  ASSUME PathInv, program # "filtered"
  PROVE  Ordered(InFlight, Channel, 1, 0 - 1, taken)
<1> DEFINE q == fifo[Term[ADC_PORT]]
           w == Received(DAC_PORT)
           a == adcSend.word
<1>1. PICK b \in [1 .. 4 -> Nat] :
        /\ b[1] <= b[2] /\ b[2] <= b[3] /\ b[3] <= b[4] /\ b[4] <= taken
        /\ put # NoPut => put.value <= b[1]
        /\ w.header = "data" => b[1] < w.value /\ w.value <= b[2]
        /\ \A i \in 1 .. Len(q) : b[2] < q[i].data.value /\ q[i].data.value <= b[3]
        /\ \A i, j \in 1 .. Len(q) : i < j => q[i].data.value < q[j].data.value
        /\ a.header = "data" => b[3] < a.value /\ a.value <= b[4]
        /\ newData => b[4] < sample.value
  BY DEF PathInv, Rising, Exit
<1>2. b[1] \in Nat /\ b[2] \in Nat /\ b[3] \in Nat /\ b[4] \in Nat /\ taken \in Nat
  BY WordEntries
<1> DEFINE b1 == b[1]
           b2 == b[2]
           b3 == b[3]
           b4 == b[4]
<1>3. b1 \in Int /\ b2 \in Int /\ b3 \in Int /\ b4 \in Int /\ taken \in Int /\ 0 - 1 \in Int /\ 1 \in Nat
      /\ b1 <= b2 /\ b2 <= b3 /\ b3 <= b4 /\ b4 <= taken /\ 0 - 1 <= b1
  BY <1>1, <1>2
<1>4. Ordered(SampleIn(w), Channel, 1, b1, b2)
  <2>1. w.header = "data" => w.ch \in Channel /\ w.value \in Nat /\ b1 + 1 <= w.value /\ w.value <= b2
    BY <1>1, <1>2, WordEntries
  <2> HIDE DEF w, b1, b2
  <2> QED
    BY <2>1, WordOrdered
<1>5. Ordered(Queued(ADC_PORT), Channel, 1, b2, b3)
  <2>1. \A i \in 1 .. Len(q) : q[i].data.ch \in Channel /\ q[i].data.value \in Nat
    BY WordEntries
  <2>2. \A i \in 1 .. Len(q) : b2 + 1 <= q[i].data.value /\ q[i].data.value <= b3
    BY <1>1, <1>2, <2>1
  <2>3. ASSUME NEW i \in 1 .. Len(q), NEW j \in 1 .. Len(q), i < j
        PROVE  q[i].data.value + 1 <= q[j].data.value
    <3> DEFINE x == q[i].data.value
               y == q[j].data.value
    <3>1. x < y
      BY <1>1, <2>3
    <3>2. x \in Nat /\ y \in Nat
      BY <2>1
    <3> HIDE DEF x, y
    <3>3. x + 1 <= y
      BY <3>1, <3>2
    <3> QED
      BY <3>3 DEF x, y
  <2>4. q \in Seq(Packet)
    BY WordEntries
  <2> HIDE DEF b2, b3
  <2> QED
    BY <2>1, <2>2, <2>3, <2>4, QueueOrdered
<1>6. Ordered(SampleIn(a), Channel, 1, b3, b4)
  <2>1. a.header = "data" => a.ch \in Channel /\ a.value \in Nat /\ b3 + 1 <= a.value /\ a.value <= b4
    BY <1>1, <1>2, WordEntries
  <2> HIDE DEF a, b3, b4
  <2> QED
    BY <2>1, WordOrdered
<1> DEFINE new == IF newData THEN <<sample>> ELSE <<>>
<1>7. Ordered(new, Channel, 1, b4, taken)
  <2>1. newData => sample \in Entry /\ b4 + 1 <= sample.value /\ sample.value <= taken
    <3>1. newData => sample \in Entry /\ b4 < sample.value /\ sample.value <= taken
                      /\ sample.value \in Nat
      BY <1>1, WordEntries DEF Entry
    <3> QED
      BY <1>2, <3>1
  <2> HIDE DEF b4
  <2> QED
    BY <2>1, OneOrdered, EmptyOrdered
<1> HIDE DEF b1, b2, b3, b4, new, w, a
<1> DEFINE s2 == SampleIn(w) \o Queued(ADC_PORT)
           s3 == s2 \o SampleIn(a)
           s4 == s3 \o new
<1>8. Ordered(s2, Channel, 1, b1, b3)
  BY <1>3, <1>4, <1>5, ConcatOrdered
<1> HIDE DEF s2
<1>9. b1 <= b3 /\ b1 <= b4 /\ b1 <= taken
  BY <1>3
<1>10. Ordered(s3, Channel, 1, b1, b4)
  BY <1>3, <1>6, <1>8, <1>9, ConcatOrdered
<1> HIDE DEF s3
<1>11. Ordered(s4, Channel, 1, b1, taken)
  BY <1>3, <1>7, <1>9, <1>10, ConcatOrdered
<1> HIDE DEF s4
<1>12. put # NoPut => put \in Entry /\ (0 - 1) + 1 <= put.value /\ put.value <= b1
  BY <1>1, <1>2, WordEntries DEF Entry, b1
<1>13. Ordered(Place(s4), Channel, 1, 0 - 1, taken)
  BY <1>3, <1>9, <1>11, <1>12, PlaceOrdered
<1> QED
  BY <1>13 DEF InFlight, s2, s3, s4, new, w, a

LEMMA ResultsOrdered ==
  ASSUME PathInv, program = "filtered", NEW c \in Channel
  PROVE  Ordered(Results, {c}, 0, 0, line[c][1])
<1> DEFINE q == fifo[Term[FIR_PORT]]
           w == Received(DAC_PORT)
           f == firSend.word
           b4 == line[c][1]
<1>1. PICK b \in [1 .. 3 -> Nat] :
        /\ b[1] <= b[2] /\ b[2] <= b[3] /\ b[3] <= b4
        /\ put # NoPut /\ put.ch = c => put.value <= b[1]
        /\ w.header = "data" /\ w.ch = c => b[1] <= w.value /\ w.value <= b[2]
        /\ \A i \in 1 .. Len(q) : q[i].data.ch = c =>
             b[2] <= q[i].data.value /\ q[i].data.value <= b[3]
        /\ \A i, j \in 1 .. Len(q) : i < j /\ q[i].data.ch = c /\ q[j].data.ch = c =>
             q[i].data.value <= q[j].data.value
        /\ f.header = "data" /\ f.ch = c => b[3] <= f.value /\ f.value <= b4
  BY DEF PathInv, Resulting
<1>2. b[1] \in Nat /\ b[2] \in Nat /\ b[3] \in Nat /\ b4 \in Nat
  <2>1. line \in [Channel -> [Tap -> Nat]] /\ 1 \in Tap
    BY DEF PathInv, Cores, Tap
  <2> QED
    BY <2>1
<1> DEFINE b1 == b[1]
           b2 == b[2]
           b3 == b[3]
<1>3. b1 \in Int /\ b2 \in Int /\ b3 \in Int /\ b4 \in Int /\ 0 \in Int /\ 0 \in Nat
      /\ b1 <= b2 /\ b2 <= b3 /\ b3 <= b4 /\ 0 <= b1 /\ b1 <= b3 /\ b1 <= b4
  BY <1>1, <1>2
<1>4. Ordered(SampleIn(w), {c}, 0, b1, b2)
  <2>1. /\ w.header = "data" => w.ch \in Channel /\ w.value \in Nat
        /\ w.header = "data" /\ w.ch \in {c} => b1 + 0 <= w.value /\ w.value <= b2
    BY <1>1, <1>2, WordEntries
  <2> HIDE DEF w, b1, b2
  <2> QED
    BY <2>1, WordOrdered
<1>5. Ordered(Queued(FIR_PORT), {c}, 0, b2, b3)
  <2>1. \A i \in 1 .. Len(q) : q[i].data.ch \in Channel /\ q[i].data.value \in Nat
    BY WordEntries
  <2>2. \A i \in 1 .. Len(q) : q[i].data.ch \in {c} =>
          b2 + 0 <= q[i].data.value /\ q[i].data.value <= b3
    BY <1>1, <1>2, <2>1
  <2>3. \A i, j \in 1 .. Len(q) : i < j /\ q[i].data.ch \in {c} /\ q[j].data.ch \in {c} =>
          q[i].data.value + 0 <= q[j].data.value
    BY <1>1, <2>1
  <2>4. q \in Seq(Packet)
    BY WordEntries
  <2> HIDE DEF b2, b3
  <2> QED
    BY <2>1, <2>2, <2>3, <2>4, QueueOrdered
<1>6. Ordered(SampleIn(f), {c}, 0, b3, b4)
  <2>1. /\ f.header = "data" => f.ch \in Channel /\ f.value \in Nat
        /\ f.header = "data" /\ f.ch \in {c} => b3 + 0 <= f.value /\ f.value <= b4
    BY <1>1, <1>2, WordEntries
  <2> HIDE DEF f, b3, b4
  <2> QED
    BY <2>1, WordOrdered
<1>7. put # NoPut => put \in Entry /\ (put.ch \in {c} => 0 + 0 <= put.value /\ put.value <= b1)
  BY <1>1, <1>2, WordEntries DEF Entry, b1
<1> HIDE DEF b1, b2, b3, b4, w, f
<1> DEFINE s2 == SampleIn(w) \o Queued(FIR_PORT)
           s3 == s2 \o SampleIn(f)
<1>8. Ordered(s2, {c}, 0, b1, b3)
  BY <1>3, <1>4, <1>5, ConcatOrdered
<1> HIDE DEF s2
<1>9. Ordered(s3, {c}, 0, b1, b4)
  BY <1>3, <1>6, <1>8, ConcatOrdered
<1> HIDE DEF s3
<1>10. Ordered(Place(s3), {c}, 0, 0, b4)
  BY <1>3, <1>7, <1>9, PlaceOrdered
<1> QED
  BY <1>10 DEF Results, s2, s3, w, f, b4

\* Between the codec's two fifos no sample overtakes another or is in two
\* places, under all configurations of the processors, and no result of the
\* filter overtakes one of its channel.
THEOREM OrderKept == PathSpec => []SamplesInOrder
<1>1. ASSUME PathInv PROVE SamplesInOrder
  <2>1. CASE program # "filtered"
    <3> DEFINE s == InFlight
    <3>1. Ordered(s, Channel, 1, 0 - 1, taken)
      BY <1>1, <2>1, InFlightOrdered
    <3> HIDE DEF s
    <3>2. s \in Seq(Entry)
      BY <3>1 DEF Ordered
    <3>3. DOMAIN s = 1 .. Len(s) /\ \A i \in DOMAIN s : s[i] \in Entry
      BY <3>2, LenProperties, ElementOfSeq
    <3>4. ASSUME NEW i \in DOMAIN s, NEW j \in DOMAIN s, i < j PROVE s[i].value < s[j].value
      <4>1. s[i].value + 1 <= s[j].value /\ s[i].value \in Nat /\ s[j].value \in Nat
        BY <3>1, <3>3, <3>4 DEF Ordered, Entry
      <4> QED
        BY <4>1
    <3> QED
      BY <2>1, <3>4 DEF SamplesInOrder, s
  <2>2. CASE program = "filtered"
    <3> DEFINE s == Results
    <3>1. \A c \in Channel : Ordered(s, {c}, 0, 0, line[c][1])
      BY <1>1, <2>2, ResultsOrdered
    <3> HIDE DEF s
    <3>2. s \in Seq(Entry)
      BY <3>1 DEF Ordered, Channel
    <3>3. DOMAIN s = 1 .. Len(s) /\ \A i \in DOMAIN s : s[i] \in Entry
      BY <3>2, LenProperties, ElementOfSeq
    <3>4. ASSUME NEW i \in DOMAIN s, NEW j \in DOMAIN s, i < j, s[i].ch = s[j].ch
          PROVE  s[i].value <= s[j].value
      <4>1. s[i].ch \in Channel /\ s[i].value \in Nat /\ s[j].value \in Nat
        BY <3>3 DEF Entry
      <4>2. s[i].value + 0 <= s[j].value
        BY <3>1, <3>3, <3>4, <4>1 DEF Ordered
      <4> QED
        BY <4>1, <4>2
    <3> QED
      BY <2>2, <3>4 DEF SamplesInOrder, s
  <2> QED
    BY <2>1, <2>2
<1> QED
  BY <1>1, PathInvariant, PTL
=============================================================================
