------------------------------ MODULE AspWords ------------------------------
(***************************************************************************)
(* The 32-bit words the cores exchange (port_locations.vhd and the fields  *)
(* the audio processors read), as records.  The header is what bits 31..28 *)
(* select; "none" stands for every word with bit 31 clear, which no core   *)
(* reacts to and no send port enqueues.                                    *)
(***************************************************************************)
EXTENDS Naturals

Channel == {0, 1}           \* bit 16

\* The ports of the cores.
ADC_PORT   == 0
DAC_PORT   == 1
NIOS_PORT  == 2
DP_PORT    == 3
FIR_PORT   == 4
PEAK_PORT  == 5
AVG_PORT   == 6
RECOP_PORT == 7

Nothing == [header |-> "none"]

\* A sample on its way: x"8000" or x"8001" above its 16 bits.
DataWord(ch, value) == [header |-> "data", ch |-> ch, value |-> value]

\* The reply to a configuration word: x"000000" above a port number.  Its
\* bit 31 is clear.
AckWord(port) == [header |-> "none", port |-> port]

\* req: the send port of the network enqueues a word with bit 31 set.
Enqueued(word) == word.header # "none"

\* A send port.
To(port, word) == [addr |-> port, word |-> word]

IdlePort == To(0, Nothing)

\* tdma_addr_circuit: the port a word of ReCOP's dpcr is addressed to.  A
\* data word names it in bits 27..24; other headers go to port 0.
AddressOf(word) ==
  CASE word.header = "adc"  -> ADC_PORT
    [] word.header = "dac"  -> DAC_PORT
    [] word.header = "fir"  -> FIR_PORT
    [] word.header = "peak" -> PEAK_PORT
    [] word.header = "avg"  -> AVG_PORT
    [] word.header = "data" -> word.dest
    [] OTHER -> 0

\* The number of samples skipped after each one passed on, by rate.
Skips(rate) == CASE rate = 3 -> 255 [] rate = 2 -> 15 [] rate = 1 -> 3 [] OTHER -> 0
=============================================================================
