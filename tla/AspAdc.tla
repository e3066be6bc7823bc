------------------------------- MODULE AspAdc -------------------------------
(***************************************************************************)
(* The ADC processor (AspAdc.vhd): takes the samples of the codec, skips   *)
(* as many as the rate of their channel says, and sends the others to the  *)
(* channel's destination.  A configuration word takes the place of the     *)
(* sample of its cycle.                                                    *)
(***************************************************************************)
EXTENDS AspWords

CONSTANT NoSample     \* an empty codec fifo

VARIABLES
  adcAddr, adcRate, adcEnable,   \* per channel: the configuration
  adcTick,                       \* per channel: samples still to skip
  newData,                       \* the codec fifo was read at the last edge
  sample,                        \* data: the word it delivered
  adcSend                        \* the send port

adcConfig == <<adcAddr, adcRate, adcEnable>>
adcVars   == <<adcAddr, adcRate, adcEnable, adcTick, newData, sample, adcSend>>

AdcInit ==
  /\ adcAddr   = [c \in Channel |-> NIOS_PORT]
  /\ adcRate   = [c \in Channel |-> 0]
  /\ adcEnable = [c \in Channel |-> FALSE]
  /\ adcTick   = [c \in Channel |-> 0]
  /\ newData   = FALSE
  /\ sample    = NoSample
  /\ adcSend   = IdlePort

\* get is raised whenever the codec fifo is not empty, and its word is on
\* data after the next edge; arriving is that word, or NoSample.
Read(arriving) ==
  /\ newData' = (arriving # NoSample)
  /\ sample'  = IF arriving = NoSample THEN sample ELSE arriving

\* A configuration word: the sample in hand, if any, is lost.
AdcConfigure(w) ==
  /\ w.header = "adc"
  /\ adcAddr'   = [adcAddr   EXCEPT ![w.ch] = w.addr]
  /\ adcRate'   = [adcRate   EXCEPT ![w.ch] = w.rate]
  /\ adcEnable' = [adcEnable EXCEPT ![w.ch] = w.enable]
  /\ adcSend'   = To(RECOP_PORT, AckWord(DAC_PORT))
  /\ UNCHANGED adcTick

\* A new sample of an enabled channel.
Offered(w) == w.header # "adc" /\ newData /\ adcEnable[sample.ch]

\* Mutant: the rate counter is not reloaded.
AdcForwardNoReload(w) ==
  /\ Offered(w) /\ adcTick[sample.ch] = 0
  /\ adcSend' = To(adcAddr[sample.ch], DataWord(sample.ch, sample.value))
  /\ UNCHANGED <<adcConfig, adcTick>>

AdcSkip(w) ==
  /\ Offered(w) /\ adcTick[sample.ch] # 0
  /\ adcTick' = [adcTick EXCEPT ![sample.ch] = @ - 1]
  /\ adcSend' = IdlePort
  /\ UNCHANGED adcConfig

AdcForward(w) ==
  /\ Offered(w) /\ adcTick[sample.ch] = 0
  /\ adcTick' = [adcTick EXCEPT ![sample.ch] = Skips(adcRate[sample.ch])]
  /\ adcSend' = To(adcAddr[sample.ch], DataWord(sample.ch, sample.value))
  /\ UNCHANGED adcConfig

AdcIdle(w) ==
  /\ w.header # "adc" /\ ~ Offered(w)
  /\ adcSend' = IdlePort
  /\ UNCHANGED <<adcConfig, adcTick>>

\* One rising edge with the word w in the receive register.
AdcClock(w, arriving) ==
  /\ Read(arriving)
  /\ AdcConfigure(w) \/ AdcSkip(w) \/ AdcForward(w) \/ AdcIdle(w)
=============================================================================
