------------------------------ MODULE AspPeak ------------------------------
(***************************************************************************)
(* The peak processor (asp_peak.vhd): direct pass, peak detection,         *)
(* inversion or a first-order IIR filter, by func_0.  Function, weights,   *)
(* destination and all sample registers are shared by the two channels,    *)
(* and every result is computed from the registers as they were before     *)
(* this sample, x_cur included.                                            *)
(***************************************************************************)
EXTENDS AspWords, AspNumbers

VARIABLES
  peakAddr, peakEnable,        \* per channel: the configuration
  func, destination, weights,  \* shared: func_0, destination, un_used_val
  peak, previous, inverted,    \* s_peak, s_previous, inverted
  xCur, yCur, yPrev,           \* the sample and the filter's outputs
  ab,                          \* a and b, the weights in use
  peakSend                     \* the send port

peakConfig  == <<peakAddr, peakEnable, func, destination, weights>>
peakSamples == <<peak, previous, inverted, xCur, yCur, yPrev, ab>>
peakVars    == <<peakConfig, peakSamples, peakSend>>

U(x) == Unsigned(x, 16)

PeakInit ==
  /\ peakAddr = [c \in Channel |-> DAC_PORT]
  /\ peakEnable = [c \in Channel |-> FALSE]
  /\ func = "pass" /\ destination = DAC_PORT /\ weights = <<-4, 15>>
  /\ peak = 0 /\ previous = 0 /\ inverted = 0
  /\ xCur = 0 /\ yCur = 0 /\ yPrev = 0
  /\ ab = <<0, 0>>
  /\ peakSend = IdlePort

PeakConfigure(w) ==
  /\ w.header = "peak"
  /\ peakAddr'   = [peakAddr   EXCEPT ![w.ch] = w.addr]
  /\ peakEnable' = [peakEnable EXCEPT ![w.ch] = w.enable]
  /\ destination' = w.dest
  /\ func'        = w.func
  /\ weights'     = w.weights
  /\ peakSend'    = To(RECOP_PORT, AckWord(PEAK_PORT))
  /\ UNCHANGED peakSamples

\* A sample of an enabled channel: it is registered, as are the weights.
Sample(c, w) ==
  /\ w.header = "data" /\ w.ch = c /\ peakEnable[c]
  /\ xCur' = w.value
  /\ ab' = weights
  /\ UNCHANGED peakConfig

\* Every result is labelled with channel 0, that of channel 1 as well.
Result(port, value) == To(port, DataWord(0, value))

\* Direct pass, to the destination instead of the channel's address.
Pass(c, w) ==
  /\ Sample(c, w) /\ func = "pass"
  /\ peakSend' = Result(destination, xCur)
  /\ UNCHANGED <<peak, previous, inverted, yCur, yPrev>>

\* Mutant: the largest sample is kept as the peak, but the comparison with
\* the peak so far is missing.
DetectAny(c, w) ==
  /\ Sample(c, w) /\ func = "peak"
  /\ peak' = IF U(previous) > U(xCur) THEN previous ELSE peak
  /\ previous' = xCur
  /\ peakSend' = Result(peakAddr[c], peak)
  /\ UNCHANGED <<inverted, yCur, yPrev>>

\* A local maximum above the peak so far, both read as unsigned, becomes it.
Detect(c, w) ==
  /\ Sample(c, w) /\ func = "peak"
  /\ peak' = IF U(previous) > U(peak) /\ U(previous) > U(xCur) THEN previous ELSE peak
  /\ previous' = xCur
  /\ peakSend' = Result(peakAddr[c], peak)
  /\ UNCHANGED <<inverted, yCur, yPrev>>

Invert(c, w) ==
  /\ Sample(c, w) /\ func = "invert"
  /\ peak' = IF U(xCur) > U(peak) THEN xCur ELSE peak
  /\ inverted' = Signed(U(peak) - U(xCur), 16)
  /\ peakSend' = Result(peakAddr[c], inverted)
  /\ UNCHANGED <<previous, yCur, yPrev>>

\* Only channel 0 moves the filter's last output on.
Filter(c, w) ==
  /\ Sample(c, w) /\ func = "iir"
  /\ yCur' = Signed(ShiftRight(ab[1] * xCur, 8) + ShiftRight(ab[2] * yPrev, 8), 16)
  /\ yPrev' = IF c = 0 THEN yCur ELSE yPrev
  /\ peakSend' = Result(peakAddr[c], yCur)
  /\ UNCHANGED <<peak, previous, inverted>>

PeakOther(w) ==
  /\ \/ w.header \notin {"peak", "data"}
     \/ w.header = "data" /\ ~ peakEnable[w.ch]
  /\ peakSend' = IdlePort
  /\ UNCHANGED <<peakConfig, peakSamples>>

\* One rising edge with the word w in the receive register.
PeakClock(w) ==
  \/ PeakConfigure(w)
  \/ \E c \in Channel : Pass(c, w) \/ Detect(c, w) \/ Invert(c, w) \/ Filter(c, w)
  \/ PeakOther(w)
=============================================================================
