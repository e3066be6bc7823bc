----------------------------- MODULE MCAspBench -----------------------------
(* Instance of AspBench: what each processor may receive.                  *)
EXTENDS AspBench

\* Rates 0, 1 and 3 on channel 0, whose 255 skips are counted out, rate 1 on
\* channel 1, and channel 0 disabled.
Rates(header, c, rate, on) ==
  [header |-> header, ch |-> c, addr |-> DAC_PORT, rate |-> rate, enable |-> on]
RateWords(header, rates) ==
  {Rates(header, 0, 0, FALSE), Rates(header, 1, 1, TRUE)}
  \cup {Rates(header, 0, r, TRUE) : r \in rates}

\* Samples of the two channels at given levels.
Levels(xs) == {DataWord(c, x) : c \in Channel, x \in xs}

\* Samples around the limit, the cut and the extremes.
DpLevels == {-32768, -16385, -16384, -2049, -2048, -1,
             0, 1, 2048, 2049, 16383, 16384, 32767}

\* Words that disable, redirect and load the largest taps.
FirWord(c, port, on, load, taps) ==
  [header |-> "fir", ch |-> c, addr |-> port, enable |-> on, load |-> load,
   taps |-> [i \in Tap |-> taps[i + 1]]]
FirWords ==
  {FirWord(0, DAC_PORT, FALSE, FALSE, <<0, 0, 0, 0>>),
   FirWord(0, PEAK_PORT, TRUE, TRUE, <<-8, -8, -8, -8>>),
   FirWord(1, DAC_PORT, TRUE, TRUE, <<1, 2, -3, 7>>)}

\* Every function on either channel.
PeakWord(c, on, f, port) ==
  [header |-> "peak", ch |-> c, addr |-> DAC_PORT, enable |-> on, dest |-> port,
   func |-> f, weights |-> <<64, -64>>]
PeakWords ==
  {PeakWord(0, FALSE, "pass", DAC_PORT), PeakWord(1, TRUE, "iir", DAC_PORT)}
  \cup {PeakWord(0, TRUE, f, AVG_PORT) : f \in {"pass", "peak", "invert", "iir"}}

\* Windows of 1 to 4 samples in the order of those of the code, which are 8,
\* 4, 16 and 32, and a mode without one.
SmallSizes == [k \in Mode |-> CASE k = 0 -> 2 [] k = 1 -> 1 [] k = 2 -> 3 [] k = 3 -> 4]
AvgWord(k) == [header |-> "avg", addr |-> DAC_PORT, mode |-> k]

UnitWords ==
  [u \in Unit |->
     {Nothing} \cup
     CASE u = "adc"  -> RateWords("adc", {0, 1, 3})
       [] u = "dac"  -> RateWords("dac", {0, 1, 2}) \cup Levels({7, 8})
       [] u = "dp"   -> Levels(DpLevels)
       [] u = "fir"  -> FirWords \cup Levels({-32768, 5})
       [] u = "peak" -> PeakWords \cup Levels({2, 0, -2})
       [] u = "avg"  -> {AvgWord(k) : k \in 0 .. 4} \cup {DataWord(0, 1), DataWord(1, 60001)}]

TwoChannels == {[ch |-> c, value |-> 7] : c \in Channel}
=============================================================================
