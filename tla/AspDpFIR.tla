------------------------------ MODULE AspDpFIR ------------------------------
(***************************************************************************)
(* The filter processor (AspDpFIR.vhd): per channel a line of the last     *)
(* four samples, weighted with four 4-bit taps.  The weights meet the line *)
(* as it was before the new sample: the result lags by one sample.         *)
(***************************************************************************)
EXTENDS AspWords, AspNumbers, Sequences

VARIABLES
  firAddr, firEnable,    \* per channel: the configuration
  firVal,                \* the four taps, tap[i] for bits 4i+3 .. 4i
  line,                  \* per channel: ch0_reg, ch1_reg
  firSend                \* the send port

firVars == <<firAddr, firEnable, firVal, line, firSend>>

Tap == 0 .. 3

FirInit ==
  /\ firAddr   = [c \in Channel |-> DAC_PORT]
  /\ firEnable = [c \in Channel |-> TRUE]
  /\ firVal    = [i \in Tap |-> CASE i = 0 -> 4 [] i = 3 -> -4 [] OTHER -> 0]
  /\ line      = [c \in Channel |-> [i \in Tap |-> 0]]
  /\ firSend   = IdlePort

\* A configuration word: the taps change only if bit 19 (load) is set.
FirConfigure(w) ==
  /\ w.header = "fir"
  /\ firAddr'   = [firAddr   EXCEPT ![w.ch] = w.addr]
  /\ firEnable' = [firEnable EXCEPT ![w.ch] = w.enable]
  /\ firVal'    = IF w.load THEN w.taps ELSE firVal
  /\ firSend'   = To(RECOP_PORT, AckWord(FIR_PORT))
  /\ UNCHANGED line

\* The sum of four products in 21 bits, shifted by two, cut to 16 bits.
Weighted(reg) ==
  LET sum == reg[0] * firVal[0] + reg[1] * firVal[1]
             + reg[2] * firVal[2] + reg[3] * firVal[3]
  IN  Signed(ShiftRight(Signed(sum, 21), 2), 16)

\* Mutant: the line is shifted from its new end, so all four follow.
ShiftAll(reg, x) == [i \in Tap |-> x]

Shift(reg, x) == [i \in Tap |-> IF i = 0 THEN x ELSE reg[i - 1]]

\* A sample enters the line of its channel, also while that is disabled.
FirData(w) ==
  LET c == w.ch IN
  /\ w.header = "data"
  /\ line' = [line EXCEPT ![c] = Shift(@, w.value)]
  /\ firSend' = IF firEnable[c] THEN To(firAddr[c], DataWord(c, Weighted(line[c])))
                ELSE IdlePort
  /\ UNCHANGED <<firAddr, firEnable, firVal>>

\* Mutant: the address of the send port is cleared, its data are not.
FirOtherNowhere(w) ==
  /\ w.header \notin {"fir", "data"}
  /\ firSend' = To(0, firSend.word)
  /\ UNCHANGED <<firAddr, firEnable, firVal, line>>

\* Any other word: nothing changes, the word on the send port included.
FirOther(w) ==
  /\ w.header \notin {"fir", "data"}
  /\ UNCHANGED <<firAddr, firEnable, firVal, line, firSend>>

\* One rising edge with the word w in the receive register.
FirClock(w) == FirConfigure(w) \/ FirData(w) \/ FirOther(w)
=============================================================================
