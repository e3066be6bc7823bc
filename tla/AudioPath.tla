----------------------------- MODULE AudioPath -----------------------------
(***************************************************************************)
(* The path of a sample through TopLevel.vhd: codec, ADC processor,        *)
(* network, DAC processor, codec, directly or through the filter, while a  *)
(* program configures the processors.  It is one of ReCOP, whose word is   *)
(* the register dpcr (toptoplevel.bdf wires dpcr_out to send_recop_data),  *)
(* or lab3 on the Nios computer, whose word is in two output ports: either *)
(* word stays on the send port until the next, and the network enqueues it *)
(* again in every cycle.  The filter's send port keeps its result as well. *)
(*                                                                         *)
(* Samples are numbered in the order the codec delivers them and come at   *)
(* least gap cycles apart, which a behaviour chooses once, as it does the  *)
(* program.                                                                *)
(***************************************************************************)
EXTENDS AspAdc, AspDac, AspDpFIR, Lab3, TdmaMin

CONSTANTS
  Gaps,         \* cycles there may be between two samples of the codec
  MaxSamples,   \* bound: the samples a behaviour may have, per program
  Commands      \* per program, the configuration words it issues

Program == {"direct", "filtered", "lab3"}

\* The terminals by their numbers.
Term == [n \in 0 .. 2 ^ Stages - 1 |-> [k \in Bit |-> (n \div (2 ^ k)) % 2 = 1]]

\* The configuration words of the two codec processors, with the samples
\* sent to some of the ports.
AdcWords(ports) ==
  [header : {"adc"}, ch : Channel, addr : ports, rate : 0 .. 3, enable : BOOLEAN]

DacWords == [header : {"dac"}, ch : Channel, rate : 0 .. 3, enable : BOOLEAN]

\* The direct path leaves out the filter, and the other one goes through it.
Bypassed(p) == IF p = "filtered" THEN DAC_PORT ELSE FIR_PORT

ConfigWords(p) == AdcWords((0 .. 7) \ {Bypassed(p)}) \cup DacWords

ASSUME PortsWired ==
  /\ Stages >= 3
  /\ {Term[n] : n \in {ADC_PORT, DAC_PORT, NIOS_PORT, FIR_PORT, RECOP_PORT}} \subseteq Ports
  /\ NoData = Nothing

ASSUME CommandsAssumption ==
  /\ Commands \in [Program -> SUBSET Data]
  /\ \A p \in Program : Commands[p] \subseteq ConfigWords(p)
  /\ {ModeWord(9).word, ModeWord(4).word} \subseteq Data

\* The taps of the start take the sample of four before from each result, so
\* that the results of a fifth sample on would not rise with the samples.
ASSUME SamplesAssumption ==
  /\ Gaps \subseteq Nat \ {0}
  /\ MaxSamples \in [Program -> Nat] /\ MaxSamples["filtered"] <= 4
  /\ \A p \in Program, c \in Channel :
       {DataWord(c, n) : n \in 0 .. MaxSamples[p]} \subseteq Data
  /\ NoSample \notin [ch : Channel, value : Nat]
  /\ NoPut \notin [ch : Channel, value : Nat]

VARIABLES
  program,      \* the program of this behaviour
  dpcr,         \* the word on ReCOP's send port
  gap,          \* cycles between two samples of this behaviour
  taken,        \* the samples the codec has delivered
  pause         \* cycles until the codec may deliver the next one

pathVars == <<vars, adcVars, dacVars, firVars, lab3Vars, program, dpcr, gap, taken, pause>>

Received(n) == recv[Term[n]].data

\* What a send port presents to its interface.
Offer(send) ==
  IF Enqueued(send.word) THEN [addr |-> Term[send.addr], data |-> send.word]
  ELSE Idle

Sends ==
  [p \in Ports |->
     CASE p = Term[ADC_PORT]   -> Offer(adcSend)
       [] p = Term[DAC_PORT]   -> Offer(dacSend)
       [] p = Term[NIOS_PORT]  -> Offer(niosSend)
       [] p = Term[FIR_PORT]   -> Offer(firSend)
       [] p = Term[RECOP_PORT] -> Offer(To(AddressOf(dpcr), dpcr))
       [] OTHER                -> Idle]

PathInit ==
  /\ Init /\ AdcInit /\ DacInit /\ FirInit /\ Lab3Init
  /\ program \in Program
  /\ dpcr = Nothing
  /\ gap \in Gaps
  /\ taken = 0
  /\ pause = 0

\* The codec delivers its next sample, on either channel, or none.
Arrival(arriving) ==
  \/ /\ arriving = NoSample
     /\ pause' = IF pause = 0 THEN 0 ELSE pause - 1
     /\ UNCHANGED taken
  \/ /\ pause = 0 /\ taken < MaxSamples[program]
     /\ arriving \in {[ch |-> c, value |-> taken + 1] : c \in Channel}
     /\ taken' = taken + 1
     /\ pause' = gap - 1

Arrivals == {NoSample} \cup [ch : Channel, value : 1 .. MaxSamples[program]]

\* A program changes its word, or does not.
ProgramClock ==
  IF program = "lab3" THEN Lab3Clock(Received(NIOS_PORT)) /\ UNCHANGED dpcr
  ELSE dpcr' \in Commands[program] \cup {dpcr} /\ UNCHANGED lab3Vars

\* One rising edge of the clock.
PathNext ==
  /\ Clock(Sends)
  /\ DacClock(Received(DAC_PORT))
  /\ FirClock(Received(FIR_PORT))
  /\ \E arriving \in Arrivals : Arrival(arriving) /\ AdcClock(Received(ADC_PORT), arriving)
  /\ ProgramClock
  /\ UNCHANGED <<gap, program>>

PathSpec == PathInit /\ [][PathNext]_pathVars

PathFairSpec == PathSpec /\ WF_pathVars(PathNext)

-----------------------------------------------------------------------------
\* The samples between the codec's two fifos, the one furthest on first.
SampleIn(word) ==
  IF word.header = "data" THEN <<[ch |-> word.ch, value |-> word.value]>> ELSE <<>>

Place(data) == IF put = NoPut THEN data ELSE <<put>> \o data

Queued(port) ==
  [i \in DOMAIN fifo[Term[port]] |->
     LET word == fifo[Term[port]][i].data IN [ch |-> word.ch, value |-> word.value]]

InFlight ==
  Place(SampleIn(Received(DAC_PORT)) \o Queued(ADC_PORT) \o SampleIn(adcSend.word)
        \o (IF newData THEN <<sample>> ELSE <<>>))

\* The results between filter and codec.
Results ==
  Place(SampleIn(Received(DAC_PORT)) \o Queued(FIR_PORT) \o SampleIn(firSend.word))

\* Samples stay in the order of the codec, and none is in two places, in
\* whatever slots and under whatever configurations they travel.  Through
\* the filter they are repeated, but on a channel never overtake each other.
SamplesInOrder ==
  IF program = "filtered"
  THEN \A i, j \in DOMAIN Results :
         i < j /\ Results[i].ch = Results[j].ch => Results[i].value <= Results[j].value
  ELSE \A i, j \in DOMAIN InFlight : i < j => InFlight[i].value < InFlight[j].value

\* On the direct path a sample is written to the codec's fifo in one cycle
\* only.  It would be written twice if a configuration word reached the DAC
\* in the cycle after its sample: slot 1 of the ADC is neither next to slot 6
\* of ReCOP nor to slot 3 of the Nios computer.
PutOnce == [][program # "filtered" /\ put # NoPut => put' # put]_pathVars

\* The ADC's fifo never holds a second sample when the codec leaves a round
\* of slots between two samples: the network keeps up, so nothing is dropped.
PathKeepsUp == gap >= 2 ^ Stages => Len(fifo[Term[ADC_PORT]]) <= 1

\* The filter's send fifo is full of old results, as the network enqueues
\* each of them in every cycle; yet with a round of slots between samples
\* every result finds a place in it and arrives at the DAC.  With the taps
\* of the start, four on the sample before, a result is that sample.
FilteredArrives ==
  \A n \in 1 .. MaxSamples["filtered"] - 1 :
    gap >= 2 ^ Stages /\ firSend.word = DataWord(0, n)
      ~> Received(DAC_PORT) = DataWord(0, n)

\* A configuration word that a program holds for ever is applied in the end,
\* although the fifo is full of the words it held before, and of those that
\* have the address of one word of lab3 and the data of the other.
Held(w) == dpcr = w \/ niosSend = To(AddressOf(w), w)

Applied(w) ==
  \/ w.header = "adc" /\ adcRate[w.ch] = w.rate /\ adcEnable[w.ch] = w.enable
                      /\ adcAddr[w.ch] = w.addr
  \/ w.header = "dac" /\ dacRate[w.ch] = w.rate /\ dacEnable[w.ch] = w.enable

HeldCommandApplies ==
  \A w \in UNION {Commands[p] : p \in Program} : <>[]Held(w) => <>[]Applied(w)
=============================================================================
