--------------------------- MODULE AspBench_proofs ---------------------------
(***************************************************************************)
(* The audio processors: for every stream of samples and configuration     *)
(* words and every window, the rates are exact and each result is the one  *)
(* its history says.                                                       *)
(***************************************************************************)
EXTENDS AspBench, InductionTheorems

\* The receive register, and the send port of an ADC that is not there.
Received ==
  /\ unit \in Unit
  /\ word \in Words[unit] \cup {Nothing}
  /\ unit # "adc" => adcSend = IdlePort
  /\ heard \in Seq(SampleWords(Channel))

LEMMA ReceivedData ==
  ASSUME Received, word.header = "data"
  PROVE  word \in SampleWords(Channel)
  BY WordsAssumption DEF Received, Nothing

-----------------------------------------------------------------------------
(* The rates.                                                              *)

\* The samples still to skip, t, and those skipped, s, are those promised, p.
Balanced(t, s, p) ==
  /\ t \in [Channel -> Nat] /\ s \in [Channel -> Nat]
  /\ \A c \in Channel : t[c] + s[c] = p[c]

\* A sample in hand is one of the codec's.
InHand == newData => sample \in Samples

RatesInv ==
  /\ InHand
  /\ unit = "adc" => Balanced(adcTick, skipped, promised)
  /\ unit = "dac" => Balanced(dacTick, skipped, promised)

LEMMA SkipsNat == \A rate : Skips(rate) \in Nat
  BY DEF Skips

\* One more sample of channel c is skipped.
LEMMA SkipBalances ==
  ASSUME NEW t, NEW s, NEW p, Balanced(t, s, p), NEW c \in Channel, t[c] # 0,
         NEW s2, s2 = [d \in Channel |-> IF d = c THEN s[d] + 1 ELSE s[d]],
         NEW p2, \A d \in Channel : p2[d] = p[d]
  PROVE  Balanced([t EXCEPT ![c] = @ - 1], s2, p2)
<1>1. t[c] - 1 \in Nat /\ s[c] + 1 \in Nat /\ (t[c] - 1) + (s[c] + 1) = t[c] + s[c]
  BY DEF Balanced
<1>2. [t EXCEPT ![c] = @ - 1] \in [Channel -> Nat] /\ s2 \in [Channel -> Nat]
  BY <1>1 DEF Balanced
<1>3. ASSUME NEW d \in Channel PROVE [t EXCEPT ![c] = @ - 1][d] + s2[d] = p2[d]
  <2>1. CASE d = c
    BY <1>1, <2>1 DEF Balanced
  <2>2. CASE d # c
    BY <2>2 DEF Balanced
  <2> QED
    BY <2>1, <2>2
<1> QED
  BY <1>2, <1>3 DEF Balanced

\* A sample of channel c is passed on: r more are to be skipped.
LEMMA PassBalances ==
  ASSUME NEW t, NEW s, NEW p, Balanced(t, s, p), NEW c \in Channel, NEW r \in Nat,
         NEW s2, s2 = [d \in Channel |-> IF d = c THEN 0 ELSE s[d]],
         NEW p2, p2 = [d \in Channel |-> IF d = c THEN r ELSE p[d]]
  PROVE  Balanced([t EXCEPT ![c] = r], s2, p2)
<1>1. [t EXCEPT ![c] = r] \in [Channel -> Nat] /\ s2 \in [Channel -> Nat]
  BY DEF Balanced
<1>2. ASSUME NEW d \in Channel PROVE [t EXCEPT ![c] = r][d] + s2[d] = p2[d]
  <2>1. CASE d = c
    BY <2>1 DEF Balanced
  <2>2. CASE d # c
    BY <2>2 DEF Balanced
  <2> QED
    BY <2>1, <2>2
<1> QED
  BY <1>1, <1>2 DEF Balanced

LEMMA AdcBalances ==
  ASSUME Balanced(adcTick, skipped, promised), InHand, AdcStep
  PROVE  /\ Balanced(adcTick, skipped, promised)'
         /\ \A c \in Channel : Sent(c) => skipped[c] = promised[c]
<1>1. /\ skipped' = [c \in Channel |-> CASE Sent(c) -> 0
                                         [] ~ Sent(c) /\ Taken(c) -> skipped[c] + 1
                                         [] OTHER -> skipped[c]]
      /\ promised' = [c \in Channel |-> IF Sent(c) THEN Skips(adcRate[c]) ELSE promised[c]]
  BY DEF AdcStep, Count
<1>2. newData => sample.ch \in Channel
  BY WordsAssumption DEF InHand
<1>3. AdcConfigure(word) \/ AdcSkip(word) \/ AdcForward(word) \/ AdcIdle(word)
  BY DEF AdcStep, AdcClock
<1>4. CASE AdcConfigure(word) \/ AdcIdle(word)
  <2>1. adcTick' = adcTick /\ \A c \in Channel : ~ Sent(c) /\ ~ Taken(c)
    BY <1>2, <1>4 DEF AdcConfigure, AdcIdle, Sent, Taken, Enqueued, To, AckWord, IdlePort,
                      Nothing, Offered
  <2> QED
    BY <1>1, <2>1 DEF Balanced
<1>5. CASE AdcSkip(word)
  <2>1. PICK c \in Channel : c = sample.ch /\ adcTick[c] # 0 /\ Taken(c)
    BY <1>2, <1>5 DEF AdcSkip, Offered, Taken
  <2>2. \A d \in Channel : ~ Sent(d) /\ (Taken(d) <=> d = c)
    BY <1>5, <2>1 DEF AdcSkip, Sent, Taken, Enqueued, To, IdlePort, Nothing
  <2>3. adcTick' = [adcTick EXCEPT ![c] = @ - 1]
    BY <1>5, <2>1 DEF AdcSkip
  <2>4. skipped' = [d \in Channel |-> IF d = c THEN skipped[d] + 1 ELSE skipped[d]]
    BY <1>1, <2>2
  <2>5. \A d \in Channel : promised'[d] = promised[d]
    BY <1>1, <2>2
  <2>6. Balanced([adcTick EXCEPT ![c] = @ - 1], skipped', promised')
    BY <2>1, <2>4, <2>5, SkipBalances
  <2> QED
    BY <2>2, <2>3, <2>6 DEF Balanced
<1>6. CASE AdcForward(word)
  <2>1. PICK c \in Channel : c = sample.ch /\ adcTick[c] = 0
    BY <1>2, <1>6 DEF AdcForward, Offered
  <2>2. \A d \in Channel : (Sent(d) <=> d = c) /\ (Taken(d) => d = c)
    BY <1>6, <2>1 DEF AdcForward, Sent, Taken, Enqueued, To, DataWord
  <2>3. adcTick' = [adcTick EXCEPT ![c] = Skips(adcRate[c])]
    BY <1>6, <2>1 DEF AdcForward
  <2>4. skipped' = [d \in Channel |-> IF d = c THEN 0 ELSE skipped[d]]
    BY <1>1, <2>2
  <2>5. promised' = [d \in Channel |-> IF d = c THEN Skips(adcRate[c]) ELSE promised[d]]
    BY <1>1, <2>2
  <2>6. Balanced([adcTick EXCEPT ![c] = Skips(adcRate[c])], skipped', promised')
    BY <2>4, <2>5, PassBalances, SkipsNat
  <2>7. skipped[c] = promised[c]
    BY <2>1 DEF Balanced
  <2> QED
    BY <2>2, <2>3, <2>6, <2>7 DEF Balanced
<1> QED
  BY <1>3, <1>4, <1>5, <1>6

\* A word put to the codec is never that of an idle cycle.
LEMMA DacBalances ==
  ASSUME Balanced(dacTick, skipped, promised), Received, unit = "dac", DacStep
  PROVE  /\ Balanced(dacTick, skipped, promised)'
         /\ \A c \in Channel : Played(c) => skipped[c] = promised[c]
<1>1. /\ skipped' = [c \in Channel |-> CASE Played(c) -> 0
                                         [] ~ Played(c) /\ Playing(c) -> skipped[c] + 1
                                         [] OTHER -> skipped[c]]
      /\ promised' = [c \in Channel |-> IF Played(c) THEN Skips(dacRate[c]) ELSE promised[c]]
  BY DEF DacStep, Count
<1>2. /\ word.header = "data" => word.ch \in Channel
      /\ word.header = "data" => NoPut # [ch |-> word.ch, value |-> word.value]
  BY WordsAssumption DEF Received, Nothing, SampleWords
<1>3. DacConfigure(word) \/ DacSkip(word) \/ DacPlay(word) \/ DacIdle(word)
  BY DEF DacStep, DacClock
<1>4. CASE DacConfigure(word) \/ DacIdle(word)
  <2>1. dacTick' = dacTick /\ \A c \in Channel : ~ Played(c) /\ ~ Playing(c)
    BY <1>4 DEF DacConfigure, DacIdle, Played, Playing, Playable
  <2> QED
    BY <1>1, <2>1 DEF Balanced
<1>5. CASE DacSkip(word)
  <2>1. PICK c \in Channel : c = word.ch /\ dacTick[c] # 0
    BY <1>2, <1>5 DEF DacSkip, Playable
  <2>2. \A d \in Channel : ~ Played(d) /\ (Playing(d) <=> d = c)
    BY <1>5, <2>1 DEF DacSkip, Played, Playing
  <2>3. dacTick' = [dacTick EXCEPT ![c] = @ - 1]
    BY <1>5, <2>1 DEF DacSkip
  <2>4. skipped' = [d \in Channel |-> IF d = c THEN skipped[d] + 1 ELSE skipped[d]]
    BY <1>1, <2>2
  <2>5. \A d \in Channel : promised'[d] = promised[d]
    BY <1>1, <2>2
  <2>6. Balanced([dacTick EXCEPT ![c] = @ - 1], skipped', promised')
    BY <2>1, <2>4, <2>5, SkipBalances
  <2> QED
    BY <2>2, <2>3, <2>6 DEF Balanced
<1>6. CASE DacPlay(word)
  <2>1. PICK c \in Channel : c = word.ch /\ dacTick[c] = 0
    BY <1>2, <1>6 DEF DacPlay, Playable
  <2>2. \A d \in Channel : (Played(d) <=> d = c) /\ (Playing(d) => d = c)
    BY <1>2, <1>6, <2>1 DEF DacPlay, Played, Playing, Playable
  <2>3. dacTick' = [dacTick EXCEPT ![c] = Skips(dacRate[c])]
    BY <1>6, <2>1 DEF DacPlay
  <2>4. skipped' = [d \in Channel |-> IF d = c THEN 0 ELSE skipped[d]]
    BY <1>1, <2>2
  <2>5. promised' = [d \in Channel |-> IF d = c THEN Skips(dacRate[c]) ELSE promised[d]]
    BY <1>1, <2>2
  <2>6. Balanced([dacTick EXCEPT ![c] = Skips(dacRate[c])], skipped', promised')
    BY <2>4, <2>5, PassBalances, SkipsNat
  <2>7. skipped[c] = promised[c]
    BY <2>1 DEF Balanced
  <2> QED
    BY <2>2, <2>3, <2>6, <2>7 DEF Balanced
<1> QED
  BY <1>3, <1>4, <1>5, <1>6

-----------------------------------------------------------------------------
(* The numbers.                                                            *)

LEMMA SignedBits ==
  ASSUME NEW n \in Int
  PROVE  /\ Signed(n, 16) = ((n + 32768) % 65536) - 32768
         /\ Signed(n, 21) = ((n + 1048576) % 2097152) - 1048576
<1>1. 2 ^ (16 - 1) = 32768 /\ 2 ^ 16 = 65536 /\ 2 ^ (21 - 1) = 1048576 /\ 2 ^ 21 = 2097152
  OBVIOUS
<1> QED
  BY <1>1 DEF Signed

\* A double that has room in 16 bits is the double.
LEMMA DoubledExact ==
  ASSUME NEW x \in Int, Exact(x)
  PROVE  Doubled(x) = 2 * x
<1>1. 2 ^ 14 = 16384 /\ 2 ^ 15 = 32768
  OBVIOUS
<1>2. -16384 <= x /\ x < 16384
  BY <1>1 DEF Exact
<1>3. Unsigned(x, 14) = x % 16384
  BY <1>1 DEF Unsigned
<1>4. CASE x < 0
  <2>1. Doubled(x) = Signed(2 ^ 15 + 2 * Unsigned(x, 14), 16)
    BY <1>4 DEF Doubled
  <2>2. 2 ^ 15 + 2 * Unsigned(x, 14) = 65536 + 2 * x
    <3>1. x % 16384 = x + 16384
      BY <1>2, <1>4
    <3> QED
      BY <1>1, <1>3, <3>1
  <2>3. Signed(65536 + 2 * x, 16) = 2 * x
    <3> DEFINE n == 2 * x
    <3>1. n \in Int /\ -32768 <= n /\ n < 0
      BY <1>2, <1>4
    <3> HIDE DEF n
    <3>2. 65536 + n \in Int /\ (65536 + n + 32768) % 65536 = n + 32768
      BY <3>1
    <3>3. Signed(65536 + n, 16) = n
      BY <3>1, <3>2, SignedBits
    <3> QED
      BY <3>3 DEF n
  <2> QED
    BY <2>1, <2>2, <2>3
<1>5. CASE ~ (x < 0)
  <2>1. Doubled(x) = Signed(0 + 2 * Unsigned(x, 14), 16)
    BY <1>5 DEF Doubled
  <2>2. 0 + 2 * Unsigned(x, 14) = 2 * x
    BY <1>2, <1>3, <1>5
  <2>3. Signed(2 * x, 16) = 2 * x
    <3> DEFINE n == 2 * x
    <3>1. n \in Int /\ -32768 <= n /\ n < 32768
      BY <1>2, <1>5
    <3> HIDE DEF n
    <3>2. Signed(n, 16) = n
      BY <3>1, SignedBits
    <3> QED
      BY <3>2 DEF n
  <2> QED
    BY <2>1, <2>2, <2>3
<1> QED
  BY <1>4, <1>5

LEMMA DistortedClamps ==
  ASSUME NEW x \in Int, Exact(x)
  PROVE  Distorted(x) = Clamp(2 * x, - Limit, Limit)
<1>1. Doubled(x) = 2 * x
  BY DoubledExact
<1> QED
  BY <1>1 DEF Distorted, Clamp, Limit

\* What the sum of the filter loses above 21 bits is not in its result.
LEMMA SumCut ==
  ASSUME NEW n \in Int
  PROVE  Signed(ShiftRight(Signed(n, 21), 2), 16) = Signed(ShiftRight(n, 2), 16)
<1>1. 2 ^ 2 = 4
  OBVIOUS
<1> DEFINE q == (n + 1048576) \div 2097152
           s == Signed(n, 21)
<1>2. s \in Int /\ q \in Int /\ s = n - q * 2097152
  BY SignedBits
<1> HIDE DEF q, s
<1>3. s \div 4 = (n \div 4) - q * 524288
  BY <1>2
<1> DEFINE m == n \div 4
<1>4. m \in Int
  OBVIOUS
<1> HIDE DEF m
<1>5. (m - q * 524288 + 32768) % 65536 = (m + 32768) % 65536
  BY <1>2, <1>4
<1>6. Signed(m - q * 524288, 16) = Signed(m, 16)
  BY <1>2, <1>4, <1>5, SignedBits
<1>7. ShiftRight(s, 2) = m - q * 524288 /\ ShiftRight(n, 2) = m
  BY <1>1, <1>3 DEF ShiftRight, m
<1> QED
  BY <1>6, <1>7 DEF s

-----------------------------------------------------------------------------
(* The filter.                                                             *)

\* A new sample is the last one, and moves the others back by one.
LEMMA BackCons ==
  ASSUME NEW T, NEW samples \in Seq(T), NEW w, NEW i \in Nat
  PROVE  Back(<<w>> \o samples, i) = IF i = 0 THEN w.value ELSE Back(samples, i - 1)
<1> DEFINE more == <<w>> \o samples
<1>1. Len(samples) \in Nat /\ Len(more) = Len(samples) + 1 /\ more[1] = w
      /\ \A k \in 1 .. Len(samples) : more[k + 1] = samples[k]
  OBVIOUS
<1> HIDE DEF more
<1>2. CASE i = 0
  BY <1>1, <1>2 DEF Back, more
<1>3. CASE i # 0
  <2>1. i - 1 < Len(samples) => more[i + 1] = samples[(i - 1) + 1]
    BY <1>1, <1>3
  <2> QED
    BY <1>1, <1>3, <2>1 DEF Back, more
<1> QED
  BY <1>2, <1>3

\* The samples of a channel.
Mine(c) == Filtered(heard, SampleWords({c}))

\* The line of a channel holds its last four samples.
FirInv ==
  unit = "fir" =>
    /\ firVal \in [Tap -> Int]
    /\ line \in [Channel -> [Tap -> Int]]
    /\ \A c \in Channel, i \in Tap : line[c][i] = Back(Mine(c), i)

LEMMA FirKeeps ==
  ASSUME Received, FirInv, unit = "fir", unit' = unit, FirStep
  PROVE  FirInv' /\ heard' \in Seq(SampleWords(Channel))
<1>1. FirConfigure(word) \/ FirData(word) \/ FirOther(word)
  BY DEF FirStep, FirClock
<1>2. CASE FirConfigure(word) \/ FirOther(word)
  <2>1. line' = line /\ heard' = heard
    BY <1>2 DEF FirConfigure, FirOther, FirStep, Listen
  <2>2. firVal' \in [Tap -> Int]
    BY <1>2, WordsAssumption DEF FirConfigure, FirOther, FirInv, Received, Nothing
  <2> QED
    BY <2>1, <2>2 DEF FirInv, Mine, Received
<1>3. CASE FirData(word)
  <2>1. /\ word.header = "data" /\ word \in SampleWords(Channel) /\ word.ch \in Channel
        /\ word.value \in Int /\ heard \in Seq(SampleWords(Channel)) /\ firVal' = firVal
        /\ heard' = <<word>> \o heard
    BY <1>3, ReceivedData DEF FirData, SampleWords, FirStep, Listen, Received
  <2>2. line' = [line EXCEPT ![word.ch] = Shift(@, word.value)]
    BY <1>3 DEF FirData
  <2>3. Shift(line[word.ch], word.value) \in [Tap -> Int]
    BY <2>1 DEF FirInv, Shift, Tap
  <2>4. ASSUME NEW c \in Channel, NEW i \in Tap PROVE line'[c][i] = Back(Mine(c)', i)
    <3>1. Mine(c)' = IF word \in SampleWords({c}) THEN <<word>> \o Mine(c) ELSE Mine(c)
      BY <2>1, FilteredCons DEF Mine
    <3>2. word \in SampleWords({c}) <=> c = word.ch
      BY <2>1 DEF SampleWords
    <3>3. Mine(c) \in Seq(SampleWords(Channel) \cap SampleWords({c}))
      BY <2>1, FilteredType DEF Mine
    <3>4. CASE c = word.ch
      <4>1. line'[c][i] = IF i = 0 THEN word.value ELSE line[c][i - 1]
        BY <2>1, <2>2, <3>4 DEF FirInv, Shift
      <4>2. Back(Mine(c)', i) = IF i = 0 THEN word.value ELSE Back(Mine(c), i - 1)
        BY <3>1, <3>2, <3>3, <3>4, BackCons DEF Tap
      <4>3. i # 0 => i - 1 \in Tap
        BY DEF Tap
      <4> QED
        BY <4>1, <4>2, <4>3 DEF FirInv
    <3>5. CASE c # word.ch
      BY <2>1, <2>2, <3>1, <3>2, <3>5 DEF FirInv
    <3> QED
      BY <3>4, <3>5
  <2> QED
    BY <2>1, <2>2, <2>3, <2>4 DEF FirInv
<1> QED
  BY <1>1, <1>2, <1>3

\* The weights meet the line as it was: the samples before this one.
LEMMA FirResult ==
  ASSUME Received, FirInv, unit = "fir", FirStep, word.header = "data", Enqueued(firSend'.word)
  PROVE  firSend' = To(firAddr[word.ch],
                       DataWord(word.ch, Signed(ShiftRight(Convolution(firVal, Mine(word.ch)), 2), 16)))
<1>1. FirData(word)
  BY DEF FirStep, FirClock, FirConfigure, FirData, FirOther
<1> DEFINE c == word.ch
<1>2. c \in Channel
  BY ReceivedData DEF SampleWords
<1>3. firSend' = To(firAddr[c], DataWord(c, Weighted(line[c])))
  BY <1>1 DEF FirData, Enqueued, IdlePort, To, Nothing
<1> HIDE DEF c
<1> DEFINE reg == line[c]
           n == reg[0] * firVal[0] + reg[1] * firVal[1] + reg[2] * firVal[2] + reg[3] * firVal[3]
<1>4. \A i \in Tap : reg[i] \in Int /\ firVal[i] \in Int /\ reg[i] = Back(Mine(c), i)
  BY <1>2 DEF FirInv
<1> HIDE DEF reg
<1>5. /\ reg[0] \in Int /\ reg[1] \in Int /\ reg[2] \in Int /\ reg[3] \in Int
      /\ firVal[0] \in Int /\ firVal[1] \in Int /\ firVal[2] \in Int /\ firVal[3] \in Int
  BY <1>4 DEF Tap
<1>6. /\ reg[0] = Back(Mine(c), 0) /\ reg[1] = Back(Mine(c), 1)
      /\ reg[2] = Back(Mine(c), 2) /\ reg[3] = Back(Mine(c), 3)
  BY <1>4 DEF Tap
<1>7. n \in Int /\ Convolution(firVal, Mine(c)) = n
  BY <1>5, <1>6 DEF Convolution
<1>8. Weighted(reg) = Signed(ShiftRight(Signed(n, 21), 2), 16)
  BY DEF Weighted
<1>9. Weighted(reg) = Signed(ShiftRight(n, 2), 16)
  <2> HIDE DEF n
  <2> QED
    BY <1>7, <1>8, SumCut
<1> QED
  BY <1>3, <1>7, <1>9 DEF c, reg

-----------------------------------------------------------------------------
(* The mean.                                                               *)

LEMMA LongestIsMax ==
  /\ Longest \in {Size[k] : k \in Mode}
  /\ \A k \in Mode : Size[k] <= Longest /\ Size[k] \in Nat \ {0}
<1>1. \A k \in Mode : Size[k] \in Nat \ {0}
  BY SizeAssumption
<1>2. 0 \in Mode /\ 1 \in Mode /\ 2 \in Mode /\ 3 \in Mode /\ \A k \in Mode : k \in {0, 1, 2, 3}
  BY DEF Mode
<1>3. \E n \in {Size[k] : k \in Mode} : \A k \in Mode : Size[k] <= n
  <2>1. \E k \in {0, 1, 2, 3} : /\ Size[0] <= Size[k] /\ Size[1] <= Size[k]
                                /\ Size[2] <= Size[k] /\ Size[3] <= Size[k]
    BY <1>1, <1>2
  <2> QED
    BY <1>2, <2>1
<1> QED
  BY <1>1, <1>3 DEF Longest

\* The places of the window that have been refilled since it grew, or all of
\* them when it has not grown since the first sample, hold the last samples.
AvgInv ==
  unit = "avg" =>
    /\ window \in {Size[k] : k \in Mode}
    /\ DOMAIN shift = 0 .. Longest - 1
    /\ settled \in 0 .. Len(heard)
    /\ \A i \in 0 .. window - 1 :
         i < settled \/ settled = Len(heard) => shift[i] = Back(heard, i)
    /\ Len(heard) = 0 => \A i \in 0 .. Longest - 1 : shift[i] = 0

LEMMA WindowInShift ==
  ASSUME window \in {Size[k] : k \in Mode}
  PROVE  window \in Nat \ {0} /\ 0 .. window - 1 \subseteq 0 .. Longest - 1
  BY LongestIsMax

LEMMA RangeGrows ==
  ASSUME NEW m \in Nat, NEW n \in Nat, ~ (n > m), NEW i \in 0 .. n - 1
  PROVE  i \in 0 .. m - 1
  OBVIOUS

LEMMA AvgKeeps ==
  ASSUME Received, AvgInv, unit = "avg", unit' = unit, AvgStep
  PROVE  AvgInv' /\ heard' \in Seq(SampleWords(Channel))
<1>1. AvgConfigure(word) \/ AvgData(word) \/ AvgOther(word)
  BY DEF AvgStep, AvgClock
<1>2. /\ window \in {Size[k] : k \in Mode} /\ DOMAIN shift = 0 .. Longest - 1
      /\ settled \in 0 .. Len(heard) /\ Len(heard) \in Nat /\ Longest \in Nat
      /\ \A i \in 0 .. window - 1 :
           i < settled \/ settled = Len(heard) => shift[i] = Back(heard, i)
      /\ Len(heard) = 0 => \A i \in 0 .. Longest - 1 : shift[i] = 0
      /\ heard \in Seq(SampleWords(Channel))
  BY LongestIsMax DEF AvgInv, Received
<1>3. CASE AvgConfigure(word)
  <2>1. /\ heard' = heard /\ shift' = shift /\ window' \in {Size[k] : k \in Mode}
        /\ settled' = IF window' > window THEN 0 ELSE settled
    BY <1>2, <1>3 DEF AvgConfigure, AvgStep, Listen
  <2>2. window \in Nat /\ window' \in Nat /\ 0 .. window' - 1 \subseteq 0 .. Longest - 1
    BY <1>2, <2>1, LongestIsMax
  <2>3. ASSUME NEW i \in 0 .. window' - 1, i < settled' \/ settled' = Len(heard)
        PROVE  shift[i] = Back(heard, i)
    <3>1. CASE window' > window
      <4>1. Len(heard) = 0
        BY <2>1, <2>3, <3>1
      <4>2. shift[i] = 0
        BY <1>2, <2>2, <4>1
      <4>3. ~ (i < Len(heard))
        BY <4>1
      <4> QED
        BY <4>2, <4>3 DEF Back
    <3>2. CASE ~ (window' > window)
      <4>1. settled' = settled
        BY <2>1, <3>2
      <4>2. i \in 0 .. window - 1
        BY <2>2, <2>3, <3>2, RangeGrows
      <4> QED
        BY <1>2, <2>3, <4>1, <4>2
    <3> QED
      BY <3>1, <3>2
  <2>4. settled' \in 0 .. Len(heard)
    BY <1>2, <2>1
  <2> QED
    BY <1>2, <2>1, <2>3, <2>4 DEF AvgInv
<1>4. CASE AvgData(word)
  <2>1. /\ heard' = <<word>> \o heard /\ window' = window /\ word \in SampleWords(Channel)
        /\ shift' = Shifted(word.value)
        /\ settled' = IF window' > window THEN 0 ELSE settled + 1
    BY <1>4, ReceivedData DEF AvgData, AvgStep, Listen
  <2>2. window \in Nat /\ 0 .. window - 1 \subseteq 0 .. Longest - 1
    BY <1>2, WindowInShift
  <2>3. settled' = settled + 1
    BY <2>1, <2>2
  <2>4. Len(heard') = Len(heard) + 1 /\ heard' \in Seq(SampleWords(Channel))
    BY <1>2, <2>1
  <2>5. ASSUME NEW i \in 0 .. window - 1, i < settled' \/ settled' = Len(heard')
        PROVE  shift'[i] = Back(heard', i)
    <3>1. shift'[i] = IF i = 0 THEN word.value ELSE shift[i - 1]
      <4>1. i \in DOMAIN shift /\ i < window
        BY <1>2, <2>2
      <4> QED
        BY <2>1, <4>1 DEF Shifted
    <3>2. Back(heard', i) = IF i = 0 THEN word.value ELSE Back(heard, i - 1)
      BY <1>2, <2>1, <2>2, BackCons
    <3>3. i # 0 => i - 1 \in 0 .. window - 1 /\ (i - 1 < settled \/ settled = Len(heard))
      BY <1>2, <2>2, <2>3, <2>4, <2>5
    <3> QED
      BY <1>2, <3>1, <3>2, <3>3
  <2>6. DOMAIN shift' = 0 .. Longest - 1
    BY <1>2, <2>1 DEF Shifted
  <2>7. settled' \in 0 .. Len(heard') /\ Len(heard') # 0
    BY <1>2, <2>3, <2>4
  <2> QED
    BY <1>2, <2>1, <2>4, <2>5, <2>6, <2>7 DEF AvgInv
<1>5. CASE AvgOther(word)
  <2>1. heard' = heard /\ shift' = shift /\ window' = window
    BY <1>5 DEF AvgOther, AvgStep, Listen
  <2>2. window \in Nat
    BY <1>2, WindowInShift
  <2>3. settled' = settled
    BY <1>5, <2>1, <2>2 DEF AvgOther, AvgStep
  <2> QED
    BY <1>2, <2>1, <2>3 DEF AvgInv
<1> QED
  BY <1>1, <1>3, <1>4, <1>5

LEMMA AvgResult ==
  ASSUME AvgInv, unit = "avg", AvgStep, word.header = "data",
         settled >= window \/ settled = Len(heard)
  PROVE  avgSend'.word.value = MeanOfLast(window)
<1>1. avgSend' = To(avgAddr, [header |-> "none", value |-> Mean])
  BY DEF AvgStep, AvgClock, AvgConfigure, AvgData, AvgOther
<1>2. window \in Nat /\ settled \in Int
  BY WindowInShift DEF AvgInv
<1>3. [i \in 0 .. window - 1 |-> shift[i]] = [i \in 0 .. window - 1 |-> Back(heard, i)]
  <2>1. \A i \in 0 .. window - 1 : i < settled \/ settled = Len(heard)
    BY <1>2
  <2> QED
    BY <2>1 DEF AvgInv
<1>4. Mean = MeanOfLast(window)
  BY <1>3 DEF Mean, MeanOfLast
<1> QED
  BY <1>1, <1>4 DEF To

-----------------------------------------------------------------------------
(* The peaks.                                                              *)

LEMMA UNat == \A x \in Int : U(x) \in Nat
<1>1. 2 ^ 16 = 65536
  OBVIOUS
<1> QED
  BY <1>1 DEF U, Unsigned

\* The local peaks that were known when the last sample came.
KnownPeaks ==
  {U(heard[i].value) : i \in {i \in 3 .. Len(heard) : U(heard[i].value) > U(heard[i - 1].value)}}

LargestOf(m, levels) == m \in levels /\ \A y \in levels : y <= m

\* The registers hold the last two samples and the largest of those peaks.
PeakInv ==
  unit = "peak" /\ detecting =>
    /\ peak \in Int
    /\ xCur = Back(heard, 0) /\ previous = Back(heard, 1)
    /\ LargestOf(U(peak), {0} \cup KnownPeaks)

\* The last sample completes what is known about the one before it.
LEMMA DetectsPeak ==
  ASSUME Received, PeakInv, unit = "peak", detecting, NEW c, Detect(c, word)
  PROVE  peak' \in Int /\ LargestOf(U(peak'), {0} \cup LocalPeaks)
<1>1. /\ heard \in Seq(SampleWords(Channel)) /\ Len(heard) \in Nat /\ peak \in Int
      /\ xCur = Back(heard, 0) /\ previous = Back(heard, 1)
      /\ LargestOf(U(peak), {0} \cup KnownPeaks)
  BY DEF Received, PeakInv
<1>2. \A i \in 1 .. Len(heard) : heard[i].value \in Int
  <2>1. \A i \in 1 .. Len(heard) : heard[i] \in SampleWords(Channel)
    BY <1>1, ElementOfSeq
  <2> QED
    BY <2>1 DEF SampleWords
<1>3. peak' = IF U(previous) > U(peak) /\ U(previous) > U(xCur) THEN previous ELSE peak
  BY DEF Detect
<1>4. xCur \in Int /\ previous \in Int /\ peak' \in Int
  BY <1>1, <1>2, <1>3 DEF Back
<1>5. /\ U(peak) \in Nat /\ U(previous) \in Nat /\ U(xCur) \in Nat
      /\ \A i \in 1 .. Len(heard) : U(heard[i].value) \in Nat
  BY <1>1, <1>2, <1>4, UNat
<1>6. CASE Len(heard) >= 2 /\ U(previous) > U(xCur)
  <2>1. previous = heard[2].value /\ xCur = heard[1].value
    BY <1>1, <1>6 DEF Back
  <2>2. LocalPeaks = KnownPeaks \cup {U(previous)}
    BY <1>1, <1>6, <2>1 DEF LocalPeaks, KnownPeaks
  <2> QED
    BY <1>1, <1>3, <1>4, <1>5, <1>6, <2>2 DEF LargestOf
<1>7. CASE ~ (Len(heard) >= 2 /\ U(previous) > U(xCur))
  <2>1. LocalPeaks = KnownPeaks
    <3>1. ASSUME Len(heard) >= 2 PROVE ~ (U(heard[2].value) > U(heard[1].value))
      BY <1>1, <1>7, <3>1 DEF Back
    <3> QED
      BY <1>1, <3>1 DEF LocalPeaks, KnownPeaks
  <2>2. peak' = peak
    <3>1. CASE Len(heard) < 2
      <4>1. previous = 0 /\ U(0) = 0
        BY <1>1, <3>1 DEF Back, U, Unsigned
      <4> QED
        BY <1>3, <1>5, <4>1
    <3>2. CASE ~ (Len(heard) < 2)
      BY <1>1, <1>3, <1>7, <3>2
    <3> QED
      BY <3>1, <3>2
  <2> QED
    BY <1>1, <2>1, <2>2
<1> QED
  BY <1>4, <1>6, <1>7

\* A new sample makes all local peaks known.
LEMMA KnownNext ==
  ASSUME NEW w, heard \in Seq(SampleWords(Channel)), heard' = <<w>> \o heard
  PROVE  KnownPeaks' = LocalPeaks
<1>1. /\ Len(heard) \in Nat /\ Len(heard') = Len(heard) + 1
      /\ \A k \in 1 .. Len(heard) : heard'[k + 1] = heard[k]
  OBVIOUS
<1>2. ASSUME NEW i \in 3 .. Len(heard'), U(heard'[i].value) > U(heard'[i - 1].value)
      PROVE  U(heard'[i].value) \in LocalPeaks
  <2>1. i - 1 \in 2 .. Len(heard) /\ heard'[i] = heard[i - 1] /\ heard'[i - 1] = heard[(i - 1) - 1]
    <3>1. i - 1 \in 1 .. Len(heard) /\ (i - 1) + 1 = i /\ i - 1 \in 2 .. Len(heard)
          /\ (i - 1) - 1 \in 1 .. Len(heard) /\ ((i - 1) - 1) + 1 = i - 1
      BY <1>1
    <3> QED
      BY <1>1, <3>1
  <2> QED
    BY <1>2, <2>1 DEF LocalPeaks
<1>3. ASSUME NEW i \in 2 .. Len(heard), U(heard[i].value) > U(heard[i - 1].value)
      PROVE  U(heard[i].value) \in KnownPeaks'
  <2>1. i + 1 \in 3 .. Len(heard') /\ heard'[i + 1] = heard[i] /\ heard'[(i + 1) - 1] = heard[i - 1]
    <3>1. i \in 1 .. Len(heard) /\ i - 1 \in 1 .. Len(heard) /\ (i - 1) + 1 = (i + 1) - 1
          /\ i + 1 \in 3 .. Len(heard')
      BY <1>1
    <3> QED
      BY <1>1, <3>1
  <2> QED
    BY <1>3, <2>1 DEF KnownPeaks
<1> QED
  BY <1>2, <1>3 DEF KnownPeaks, LocalPeaks

LEMMA PeakKeeps ==
  ASSUME Received, PeakInv, unit = "peak", unit' = unit, PeakStep
  PROVE  PeakInv' /\ heard' \in Seq(SampleWords(Channel))
<1> DEFINE got == word.header = "data" /\ peakEnable[word.ch]
<1>1. /\ detecting' = (detecting /\ (got => func = "peak"))
      /\ heard' = IF ~ detecting' THEN <<>>
                  ELSE IF got THEN <<DataWord(0, word.value)>> \o heard ELSE heard
      /\ PeakClock(word)
  BY DEF PeakStep
<1>2. word.header = "data" => word.value \in Int
  BY ReceivedData DEF SampleWords
<1>3. heard \in Seq(SampleWords(Channel)) /\ DataWord(0, 0) \in SampleWords(Channel)
  BY DEF Received, DataWord, SampleWords, Channel
<1>4. CASE ~ detecting'
  BY <1>1, <1>4 DEF PeakInv
<1>5. CASE detecting' /\ got
  <2>1. PICK c \in Channel : Detect(c, word)
    BY <1>1, <1>5 DEF PeakClock, PeakConfigure, PeakOther, Pass, Invert, Filter, Sample
  <2>2. peak' \in Int /\ LargestOf(U(peak'), {0} \cup LocalPeaks)
    BY <1>1, <1>5, <2>1, DetectsPeak
  <2> DEFINE w == DataWord(0, word.value)
  <2>3. w \in SampleWords(Channel) /\ w.value = word.value
    BY <1>2, <1>5 DEF DataWord, SampleWords, Channel
  <2>4. heard' = <<w>> \o heard
    BY <1>1, <1>5
  <2> HIDE DEF w
  <2>5. KnownPeaks' = LocalPeaks
    BY <1>3, <2>4, KnownNext
  <2>6. heard' \in Seq(SampleWords(Channel))
    BY <1>3, <2>3, <2>4
  <2>7. Back(heard', 0) = word.value /\ Back(heard', 1) = Back(heard, 0)
    <3>1. \A i \in Nat : Back(heard', i) = IF i = 0 THEN w.value ELSE Back(heard, i - 1)
      BY <1>3, <2>4, BackCons
    <3>2. 1 - 1 = 0
      OBVIOUS
    <3> QED
      BY <2>3, <3>1, <3>2
  <2>8. xCur' = word.value /\ previous' = Back(heard, 0)
    BY <1>1, <1>5, <2>1 DEF Detect, Sample, PeakInv
  <2>9. LargestOf(U(peak'), {0} \cup KnownPeaks')
    BY <2>2, <2>5
  <2> QED
    BY <2>2, <2>6, <2>7, <2>8, <2>9 DEF PeakInv, LargestOf, U, Unsigned
<1>6. CASE detecting' /\ ~ got
  <2>1. UNCHANGED peakSamples
    BY <1>1, <1>6 DEF PeakClock, PeakConfigure, PeakOther, Pass, Detect, Invert, Filter, Sample
  <2>2. heard' = heard /\ detecting
    BY <1>1, <1>6
  <2> QED
    BY <1>3, <2>1, <2>2 DEF PeakInv, peakSamples, KnownPeaks, U, Unsigned
<1> QED
  BY <1>1, <1>4, <1>5, <1>6, EmptySeq

LEMMA PeakResult ==
  ASSUME Received, PeakInv, unit = "peak", PeakStep, detecting',
         word.header = "data", peakEnable[word.ch]
  PROVE  U(peak') = Largest({0} \cup LocalPeaks)
<1>1. detecting /\ func = "peak"
  BY DEF PeakStep
<1>2. PICK c \in Channel : Detect(c, word)
  BY <1>1 DEF PeakStep, PeakClock, PeakConfigure, PeakOther, Pass, Invert, Filter, Sample
<1>3. LargestOf(U(peak'), {0} \cup LocalPeaks) /\ peak' \in Int
  BY <1>1, <1>2, DetectsPeak
<1> DEFINE levels == {0} \cup LocalPeaks
<1>4. levels \subseteq Nat
  <2>1. \A i \in 1 .. Len(heard) : heard[i] \in SampleWords(Channel)
    BY ElementOfSeq DEF Received
  <2>2. \A i \in 1 .. Len(heard) : heard[i].value \in Int
    BY <2>1 DEF SampleWords
  <2>3. Len(heard) \in Nat
    BY DEF Received
  <2>4. ASSUME NEW i \in 2 .. Len(heard) PROVE U(heard[i].value) \in Nat
    <3>1. i \in 1 .. Len(heard)
      BY <2>3
    <3>2. heard[i].value \in Int
      BY <2>2, <3>1
    <3> QED
      BY <3>2, UNat
  <2>5. ASSUME NEW x \in LocalPeaks PROVE x \in Nat
    <3>1. PICK i \in 2 .. Len(heard) : x = U(heard[i].value)
      BY DEF LocalPeaks
    <3> QED
      BY <2>4, <3>1
  <2> QED
    BY <2>5
<1> HIDE DEF levels
<1>5. \A x \in levels : (\A y \in levels : y <= x) => x = U(peak')
  BY <1>3, <1>4 DEF LargestOf, levels
<1>6. U(peak') \in levels /\ \A y \in levels : y <= U(peak')
  BY <1>3 DEF LargestOf, levels
<1> QED
  BY <1>5, <1>6 DEF Largest, levels

-----------------------------------------------------------------------------
(* The bench.                                                              *)

BenchInv == Received /\ RatesInv /\ FirInv /\ AvgInv /\ PeakInv

LEMMA BenchInvInit == BenchInit => BenchInv
<1> SUFFICES ASSUME BenchInit PROVE BenchInv
  OBVIOUS
<1> USE DEF BenchInit
<1>1. /\ heard = <<>> /\ heard \in Seq(SampleWords(Channel)) /\ Len(heard) = 0
      /\ \A i \in Nat : Back(heard, i) = 0
  BY DEF Back
<1>2. Received
  BY <1>1 DEF Received, AdcInit
<1>3. RatesInv
  BY DEF RatesInv, InHand, Balanced, AdcInit, DacInit
<1>4. FirInv
  <2>1. \A c \in Channel : Mine(c) = <<>>
    BY <1>1, FilteredEmpty DEF Mine
  <2> QED
    BY <1>1, <2>1 DEF FirInv, FirInit, Tap
<1>5. AvgInv
  <2>1. 0 \in Mode
    BY DEF Mode
  <2>2. window \in {Size[k] : k \in Mode} /\ DOMAIN shift = 0 .. Longest - 1
    BY <2>1 DEF AvgInit
  <2>3. \A i \in 0 .. Longest - 1 : shift[i] = 0
    BY DEF AvgInit
  <2>4. window \in Nat /\ 0 .. window - 1 \subseteq 0 .. Longest - 1
    BY <2>2, WindowInShift
  <2> QED
    BY <1>1, <2>2, <2>3, <2>4 DEF AvgInv
<1>6. PeakInv
  <2>1. KnownPeaks = {}
    BY <1>1 DEF KnownPeaks
  <2>2. U(0) = 0
    BY DEF U, Unsigned
  <2> QED
    BY <1>1, <2>1, <2>2 DEF PeakInv, PeakInit, LargestOf
<1> QED
  BY <1>2, <1>3, <1>4, <1>5, <1>6 DEF BenchInv

LEMMA BenchInvStep == BenchInv /\ [BenchNext]_benchVars => BenchInv'
<1> SUFFICES ASSUME BenchInv, [BenchNext]_benchVars PROVE BenchInv'
  OBVIOUS
<1>1. CASE UNCHANGED benchVars
  BY <1>1 DEF benchVars, history, adcVars, dacVars, firVars, peakVars, peakConfig, peakSamples,
              avgVars, BenchInv, Received, RatesInv, InHand, Balanced, FirInv, Mine, AvgInv,
              PeakInv, KnownPeaks, LargestOf, U, Unsigned, Back
<1> SUFFICES ASSUME BenchNext PROVE BenchInv'
  BY <1>1
<1>2. unit' = unit /\ word' \in Words[unit] /\ unit \in Unit
  BY DEF BenchNext, BenchInv, Received
<1>3. ASSUME unit = "adc", AdcStep PROVE BenchInv'
  <2>1. Balanced(adcTick, skipped, promised)'
    BY <1>3, AdcBalances DEF BenchInv, RatesInv
  <2>2. InHand'
    BY <1>3 DEF AdcStep, AdcClock, Read, InHand, BenchInv, RatesInv
  <2>3. heard' = heard
    BY <1>3 DEF AdcStep, Count
  <2> QED
    BY <1>2, <1>3, <2>1, <2>2, <2>3
       DEF BenchInv, Received, RatesInv, FirInv, AvgInv, PeakInv
<1>4. ASSUME unit = "dac", DacStep PROVE BenchInv'
  <2>1. Balanced(dacTick, skipped, promised)'
    BY <1>4, DacBalances DEF BenchInv, RatesInv
  <2>2. heard' = heard /\ UNCHANGED adcVars
    BY <1>4 DEF DacStep, Count
  <2> QED
    BY <1>2, <1>4, <2>1, <2>2
       DEF BenchInv, Received, RatesInv, InHand, FirInv, AvgInv, PeakInv, adcVars
<1>5. ASSUME unit = "dp", DpStep PROVE BenchInv'
  BY <1>2, <1>5 DEF DpStep, BenchInv, Received, RatesInv, InHand, FirInv, AvgInv, PeakInv,
                    adcVars, history
<1>6. ASSUME unit = "fir", FirStep PROVE BenchInv'
  <2>1. FirInv' /\ heard' \in Seq(SampleWords(Channel))
    BY <1>2, <1>6, FirKeeps DEF BenchInv
  <2>2. UNCHANGED adcVars
    BY <1>6 DEF FirStep
  <2> QED
    BY <1>2, <1>6, <2>1, <2>2 DEF BenchInv, Received, RatesInv, InHand, AvgInv, PeakInv, adcVars
<1>7. ASSUME unit = "peak", PeakStep PROVE BenchInv'
  <2>1. PeakInv' /\ heard' \in Seq(SampleWords(Channel))
    BY <1>2, <1>7, PeakKeeps DEF BenchInv
  <2>2. UNCHANGED adcVars
    BY <1>7 DEF PeakStep
  <2> QED
    BY <1>2, <1>7, <2>1, <2>2 DEF BenchInv, Received, RatesInv, InHand, AvgInv, FirInv, adcVars
<1>8. ASSUME unit = "avg", AvgStep PROVE BenchInv'
  <2>1. AvgInv' /\ heard' \in Seq(SampleWords(Channel))
    BY <1>2, <1>8, AvgKeeps DEF BenchInv
  <2>2. UNCHANGED adcVars
    BY <1>8 DEF AvgStep
  <2> QED
    BY <1>2, <1>8, <2>1, <2>2 DEF BenchInv, Received, RatesInv, InHand, PeakInv, FirInv, adcVars
<1> QED
  BY <1>3, <1>4, <1>5, <1>6, <1>7, <1>8 DEF BenchNext

LEMMA BenchSafe == BenchSpec => []BenchInv
  BY BenchInvInit, BenchInvStep, PTL DEF BenchSpec

\* Between two samples of a channel that are passed on, ADC and DAC skip
\* exactly as many as the rate says, whatever configurations come between.
THEOREM RatesAreExact == BenchSpec => RatesExact
<1> DEFINE A == \A c \in Channel : Sent(c) \/ Played(c) => skipped[c] = promised[c]
<1>1. BenchInv /\ [BenchNext]_benchVars => [A]_benchVars
  <2> SUFFICES ASSUME BenchInv, BenchNext PROVE A
    OBVIOUS
  <2>1. CASE unit = "adc"
    <3>1. AdcStep
      BY <2>1 DEF BenchNext
    <3> QED
      BY <2>1, <3>1, AdcBalances DEF BenchInv, RatesInv, Played, Playing
  <2>2. CASE unit # "adc"
    <3>1. \A c \in Channel : ~ Sent(c)
      <4>1. adcSend' = IdlePort
        BY <2>2 DEF BenchNext, DacStep, DpStep, FirStep, PeakStep, AvgStep, adcVars, BenchInv,
                    Received
      <4> QED
        BY <4>1 DEF Sent, Enqueued, IdlePort, To, Nothing
    <3>2. CASE unit = "dac"
      <4>1. DacStep
        BY <3>2 DEF BenchNext
      <4> QED
        BY <3>1, <3>2, <4>1, DacBalances DEF BenchInv, RatesInv
    <3>3. CASE unit # "dac"
      BY <3>1, <3>3 DEF Played, Playing
    <3> QED
      BY <3>2, <3>3
  <2> QED
    BY <2>1, <2>2
<1> QED
  BY <1>1, BenchSafe, PTL DEF BenchSpec, RatesExact

\* Every sample whose double has room in 16 bits is doubled and limited.
THEOREM DistortionLimits == BenchSpec => DpLimits
<1> DEFINE A == unit = "dp" /\ word.header = "data" /\ Exact(word.value) =>
                  dpSend'.word = DataWord(word.ch, Clamp(2 * word.value, - Limit, Limit))
<1>1. BenchInv /\ [BenchNext]_benchVars => [A]_benchVars
  <2> SUFFICES ASSUME BenchInv, BenchNext, unit = "dp", word.header = "data", Exact(word.value)
               PROVE  dpSend'.word = DataWord(word.ch, Clamp(2 * word.value, - Limit, Limit))
    OBVIOUS
  <2>1. word.value \in Int
    BY ReceivedData DEF BenchInv, SampleWords
  <2>2. dpSend' = To(DAC_PORT, DataWord(word.ch, Distorted(word.value)))
    BY DEF BenchNext, DpStep, DpClock, DpData, DpOther
  <2>3. Distorted(word.value) = Clamp(2 * word.value, - Limit, Limit)
    BY <2>1, DistortedClamps
  <2> QED
    BY <2>2, <2>3 DEF To
<1> QED
  BY <1>1, BenchSafe, PTL DEF BenchSpec, DpLimits

\* Every result of the filter is the convolution of the taps with the earlier
\* samples of its channel, for all taps and samples.
THEOREM FilterConvolves == BenchSpec => FirConvolves
<1> DEFINE A == unit = "fir" /\ word.header = "data" /\ Enqueued(firSend'.word) =>
                  LET mine == Filtered(heard, SampleWords({word.ch}))
                  IN  firSend' = To(firAddr[word.ch],
                                    DataWord(word.ch, Signed(ShiftRight(Convolution(firVal, mine), 2), 16)))
<1>1. BenchInv /\ [BenchNext]_benchVars => [A]_benchVars
  <2> SUFFICES ASSUME BenchInv, BenchNext, unit = "fir", word.header = "data",
                      Enqueued(firSend'.word)
               PROVE  firSend' = To(firAddr[word.ch],
                        DataWord(word.ch, Signed(ShiftRight(Convolution(firVal, Mine(word.ch)), 2), 16)))
    BY DEF Mine
  <2>1. FirStep
    BY DEF BenchNext
  <2> QED
    BY <2>1, FirResult DEF BenchInv
<1> QED
  BY <1>1, BenchSafe, PTL DEF BenchSpec, FirConvolves

\* The peak register holds the largest local peak of all samples but the last.
THEOREM PeaksDetected == BenchSpec => PeakDetected
<1> DEFINE A == unit = "peak" /\ detecting' /\ word.header = "data" /\ peakEnable[word.ch] =>
                  U(peak') = Largest({0} \cup LocalPeaks)
<1>1. BenchInv /\ [BenchNext]_benchVars => [A]_benchVars
  <2> SUFFICES ASSUME BenchInv, BenchNext, unit = "peak", detecting', word.header = "data",
                      peakEnable[word.ch]
               PROVE  U(peak') = Largest({0} \cup LocalPeaks)
    OBVIOUS
  <2>1. PeakStep
    BY DEF BenchNext
  <2> QED
    BY <2>1, PeakResult DEF BenchInv
<1> QED
  BY <1>1, BenchSafe, PTL DEF BenchSpec, PeakDetected

\* A mean is that of the last samples before it, for windows of every length,
\* once a window that grew has been refilled.
THEOREM MeanIsRecent == BenchSpec => MeanAfterRefill
<1> DEFINE A == unit = "avg" /\ word.header = "data" /\ (settled >= window \/ settled = Len(heard)) =>
                  avgSend'.word.value = MeanOfLast(window)
<1>1. BenchInv /\ [BenchNext]_benchVars => [A]_benchVars
  <2> SUFFICES ASSUME BenchInv, BenchNext, unit = "avg", word.header = "data",
                      settled >= window \/ settled = Len(heard)
               PROVE  avgSend'.word.value = MeanOfLast(window)
    OBVIOUS
  <2>1. AvgStep
    BY DEF BenchNext
  <2> QED
    BY <2>1, AvgResult DEF BenchInv
<1> QED
  BY <1>1, BenchSafe, PTL DEF BenchSpec, MeanAfterRefill
=============================================================================
