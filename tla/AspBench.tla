------------------------------ MODULE AspBench ------------------------------
(***************************************************************************)
(* The audio processors of TopLevel.vhd, each alone on a bench: one of     *)
(* them, the unit, gets any of its words in its receive register at every  *)
(* edge, and the bench keeps the history that its results are checked      *)
(* against.                                                                *)
(***************************************************************************)
EXTENDS AspAdc, AspDac, AspDp, AspDpFIR, AspPeak, AverageAsp, SequenceFilter

CONSTANTS
  Words,        \* per unit, the words the network may deliver
  Samples,      \* the samples the codec may deliver to the ADC
  MaxSamples    \* bound: the samples the filter and the mean may get

Unit == {"adc", "dac", "dp", "fir", "peak", "avg"}

\* The sample words of the channels cs.
SampleWords(cs) == [header : {"data"}, ch : cs, value : Int]

\* Bit 16 is the channel of a sample, and a filter word has four taps.
ASSUME WordsAssumption ==
  /\ \A u \in Unit : \A w \in Words[u] : w.header = "data" => w \in SampleWords(Channel)
  /\ \A w \in Words["fir"] : w.header = "fir" => w.taps \in [Tap -> Int]
  /\ \A w \in Words["dac"] : w.header = "data" => NoPut # [ch |-> w.ch, value |-> w.value]
  /\ \A s \in Samples : s.ch \in Channel

VARIABLES
  unit,         \* the processor on the bench
  word,         \* its receive register
  skipped,      \* per channel, samples skipped since the last one passed on
  promised,     \* per channel, the number that was to be skipped then
  heard,        \* the samples filter, mean and peak got, the newest first
  settled,      \* samples since the window of the mean last grew
  detecting     \* every sample so far was one of peak detection

history   == <<skipped, promised, heard, settled, detecting>>
benchVars == <<unit, word, adcVars, dacVars, dpSend, firVars, peakVars, avgVars, history>>

BenchInit ==
  /\ AdcInit /\ DacInit /\ DpInit /\ FirInit /\ PeakInit /\ AvgInit
  /\ unit \in Unit
  /\ word = Nothing
  /\ skipped = [c \in Channel |-> 0] /\ promised = [c \in Channel |-> 0]
  /\ heard = <<>> /\ settled = 0 /\ detecting = TRUE

-----------------------------------------------------------------------------
(* What happens to a sample of channel c at this edge.                     *)

\* The ADC sends it, or takes it from the codec and does not.
Sent(c)  == Enqueued(adcSend'.word) /\ adcSend'.word.ch = c
Taken(c) == newData /\ sample.ch = c /\ word.header # "adc" /\ adcEnable[c]

\* The DAC gets it, and puts it or does not.
Playing(c) == unit = "dac" /\ Playable(word) /\ word.ch = c
Played(c)  == Playing(c) /\ put' # NoPut

\* The history of a rate: passed and seen say which channels pass a sample
\* on, and see one.
Count(passed(_), seen(_), rate) ==
  /\ skipped'  = [c \in Channel |-> CASE passed(c) -> 0
                                      [] ~ passed(c) /\ seen(c) -> skipped[c] + 1
                                      [] OTHER -> skipped[c]]
  /\ promised' = [c \in Channel |-> IF passed(c) THEN Skips(rate[c]) ELSE promised[c]]
  /\ UNCHANGED <<heard, settled, detecting>>

Listen == heard' = IF word.header = "data" THEN <<word>> \o heard ELSE heard

AdcStep ==
  /\ \E arriving \in Samples \cup {NoSample} : AdcClock(word, arriving)
  /\ Count(Sent, Taken, adcRate)
  /\ UNCHANGED <<dacVars, dpSend, firVars, peakVars, avgVars>>

DacStep ==
  /\ DacClock(word)
  /\ Count(Played, Playing, dacRate)
  /\ UNCHANGED <<adcVars, dpSend, firVars, peakVars, avgVars>>

DpStep ==
  /\ DpClock(word)
  /\ UNCHANGED <<adcVars, dacVars, firVars, peakVars, avgVars, history>>

FirStep ==
  /\ FirClock(word)
  /\ Listen
  /\ UNCHANGED <<adcVars, dacVars, dpSend, peakVars, avgVars, skipped, promised, settled, detecting>>

PeakStep ==
  /\ PeakClock(word)
  /\ LET got == word.header = "data" /\ peakEnable[word.ch] IN
     /\ detecting' = (detecting /\ (got => func = "peak"))
     /\ heard' = IF ~ detecting' THEN <<>>
                 ELSE IF got THEN <<DataWord(0, word.value)>> \o heard ELSE heard
  /\ UNCHANGED <<adcVars, dacVars, dpSend, firVars, avgVars, skipped, promised, settled>>

AvgStep ==
  /\ AvgClock(word)
  /\ Listen
  /\ settled' = IF window' > window THEN 0
                ELSE IF word.header = "data" THEN settled + 1 ELSE settled
  /\ UNCHANGED <<adcVars, dacVars, dpSend, firVars, peakVars, skipped, promised, detecting>>

BenchNext ==
  /\ \/ unit = "adc"  /\ AdcStep
     \/ unit = "dac"  /\ DacStep
     \/ unit = "dp"   /\ DpStep
     \/ unit = "fir"  /\ FirStep
     \/ unit = "peak" /\ PeakStep
     \/ unit = "avg"  /\ AvgStep
  /\ word' \in Words[unit]
  /\ word'.header = "data" => Len(heard') < MaxSamples
  /\ UNCHANGED unit

BenchSpec == BenchInit /\ [][BenchNext]_benchVars

-----------------------------------------------------------------------------
(* The rates.                                                              *)

\* Between two samples of a channel that the ADC sends, or the DAC plays,
\* exactly as many are skipped as the rate in force at the first says:
\* however the rate changes in between, the channel is disabled for a while,
\* or the other one counts.
RatesExact ==
  [][\A c \in Channel : Sent(c) \/ Played(c) => skipped[c] = promised[c]]_benchVars

-----------------------------------------------------------------------------
(* The results.                                                            *)

\* The samples whose double survives the cut to 14 bits.
Exact(x) == - (2 ^ 14) <= x /\ x < 2 ^ 14

\* A sample below that cut leaves the distortion processor on its own
\* channel, doubled and limited to +-4096.
DpLimits ==
  [][unit = "dp" /\ word.header = "data" /\ Exact(word.value) =>
       dpSend'.word = DataWord(word.ch, Clamp(2 * word.value, - Limit, Limit))]_benchVars

\* The i-th sample before the last one of a sequence, the newest first, that
\* follows zeros.
Back(samples, i) == IF i < Len(samples) THEN samples[i + 1].value ELSE 0

\* The convolution of the taps with such a sequence.
Convolution(taps, samples) ==
  taps[0] * Back(samples, 0) + taps[1] * Back(samples, 1)
  + taps[2] * Back(samples, 2) + taps[3] * Back(samples, 3)

\* Every result of the filter is the convolution of the taps with the
\* samples its own channel received before this one, in 16 bits, whatever
\* arrived on the other channel and whether or not the channel was enabled.
FirConvolves ==
  [][unit = "fir" /\ word.header = "data" /\ Enqueued(firSend'.word) =>
       LET mine == Filtered(heard, SampleWords({word.ch}))
       IN  firSend' = To(firAddr[word.ch],
                         DataWord(word.ch, Signed(ShiftRight(Convolution(firVal, mine), 2), 16)))
    ]_benchVars

\* The largest, as unsigned, of those samples that a smaller one followed.
LocalPeaks == {U(heard[i].value) : i \in
                 {i \in 2 .. Len(heard) : U(heard[i].value) > U(heard[i - 1].value)}}
Largest(levels) == CHOOSE x \in levels : \A y \in levels : y <= x

\* As long as all samples are for peak detection, each of them leaves in the
\* peak register the largest of the local peaks before it, zero if there was
\* none: over both channels together, and through disabled channels and new
\* configurations.
PeakDetected ==
  [][unit = "peak" /\ detecting' /\ word.header = "data" /\ peakEnable[word.ch] =>
       U(peak') = Largest({0} \cup LocalPeaks)]_benchVars

\* The mean of the last n samples received, zeros before the first.
MeanOfLast(n) == SumFunction([i \in 0 .. n - 1 |-> Back(heard, i)]) \div n

\* The value computed for a sample is the mean of the last samples before
\* it, as many as the window has, once a window that grew has been refilled.
MeanAfterRefill ==
  [][unit = "avg" /\ word.header = "data" /\ (settled >= window \/ settled = Len(heard)) =>
       avgSend'.word.value = MeanOfLast(window)]_benchVars

\* What the comments at the windows say: so many values are averaged, those
\* received last, at all times.
MeanAlways ==
  [][unit = "avg" /\ word.header = "data" =>
       avgSend'.word.value = MeanOfLast(window)]_benchVars
=============================================================================
