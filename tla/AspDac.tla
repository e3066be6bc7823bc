------------------------------- MODULE AspDac -------------------------------
(***************************************************************************)
(* The DAC processor (AspDac.vhd): puts the samples it receives into the   *)
(* codec fifo, skipping as many as the rate of their channel says.  It     *)
(* does not look at the fifo's full signal, and a configuration word       *)
(* leaves put and data as they are, so that a sample put in the cycle      *)
(* before is put again.                                                    *)
(***************************************************************************)
EXTENDS AspWords

CONSTANT NoPut        \* put = '0'

VARIABLES
  dacRate, dacEnable,   \* per channel: the configuration
  dacTick,              \* per channel: samples still to skip
  put,                  \* put and data: the sample written to the codec fifo
  dacSend               \* the send port

dacConfig == <<dacRate, dacEnable>>
dacVars   == <<dacRate, dacEnable, dacTick, put, dacSend>>

DacInit ==
  /\ dacRate   = [c \in Channel |-> 0]
  /\ dacEnable = [c \in Channel |-> FALSE]
  /\ dacTick   = [c \in Channel |-> 0]
  /\ put       = NoPut
  /\ dacSend   = IdlePort

DacConfigure(w) ==
  /\ w.header = "dac"
  /\ dacRate'   = [dacRate   EXCEPT ![w.ch] = w.rate]
  /\ dacEnable' = [dacEnable EXCEPT ![w.ch] = w.enable]
  /\ dacSend'   = To(RECOP_PORT, AckWord(ADC_PORT))
  /\ UNCHANGED <<dacTick, put>>

\* A sample of an enabled channel.
Playable(w) == w.header = "data" /\ dacEnable[w.ch]

DacSkip(w) ==
  /\ Playable(w) /\ dacTick[w.ch] # 0
  /\ dacTick' = [dacTick EXCEPT ![w.ch] = @ - 1]
  /\ put'     = NoPut
  /\ dacSend' = IdlePort
  /\ UNCHANGED dacConfig

\* Mutant: the rate counter takes the rate of the other channel.
DacPlayOther(w) ==
  /\ Playable(w) /\ dacTick[w.ch] = 0
  /\ dacTick' = [dacTick EXCEPT ![w.ch] = Skips(dacRate[1 - w.ch])]
  /\ put'     = [ch |-> w.ch, value |-> w.value]
  /\ dacSend' = IdlePort
  /\ UNCHANGED dacConfig

DacPlay(w) ==
  /\ Playable(w) /\ dacTick[w.ch] = 0
  /\ dacTick' = [dacTick EXCEPT ![w.ch] = Skips(dacRate[w.ch])]
  /\ put'     = [ch |-> w.ch, value |-> w.value]
  /\ dacSend' = IdlePort
  /\ UNCHANGED dacConfig

\* Mutant: an idle cycle leaves put as it is.
DacIdleHolds(w) ==
  /\ w.header # "dac" /\ ~ Playable(w)
  /\ dacSend' = IdlePort
  /\ UNCHANGED <<dacConfig, dacTick, put>>

DacIdle(w) ==
  /\ w.header # "dac" /\ ~ Playable(w)
  /\ put'     = NoPut
  /\ dacSend' = IdlePort
  /\ UNCHANGED <<dacConfig, dacTick>>

\* One rising edge with the word w in the receive register.
DacClock(w) == DacConfigure(w) \/ DacSkip(w) \/ DacPlay(w) \/ DacIdle(w)
=============================================================================
