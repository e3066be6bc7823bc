---------------------------- MODULE MCAudioPath ----------------------------
(* Instance of AudioPath: the five ports of the eight that the paths use,  *)
(* one command for each processor on the path, samples in bursts or a      *)
(* round of slots apart.                                                   *)
EXTENDS AudioPath

CONSTANTS far

PathPorts == {Term[n] : n \in {ADC_PORT, DAC_PORT, NIOS_PORT, FIR_PORT, RECOP_PORT}}

\* Channel 0 at full rate, from the ADC to a port.
AdcTo(port) == [header |-> "adc", ch |-> 0, addr |-> port, rate |-> 0, enable |-> TRUE]
DacOn       == [header |-> "dac", ch |-> 0, rate |-> 0, enable |-> TRUE]

ProgramWords ==
  [p \in Program |->
     CASE p = "direct"   -> {AdcTo(DAC_PORT), DacOn}
       [] p = "filtered" -> {AdcTo(FIR_PORT), DacOn}
       [] p = "lab3"     -> {ModeWord(9).word, ModeWord(4).word}]

\* lab3 never enables the ADC.
ProgramSamples == [p \in Program |-> IF p = "lab3" THEN 0 ELSE 3]

PathWords == UNION {ProgramWords[p] : p \in Program}
             \cup {DataWord(c, n) : c \in Channel, n \in 0 .. 3}

NoTraffic == {}
=============================================================================
