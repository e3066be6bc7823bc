----------------------------- MODULE AverageAsp -----------------------------
(***************************************************************************)
(* The averaging processor (Average_ASP.vhd): the mean of the last samples,*)
(* by a shift register of which the first Size(state) places move.  Both   *)
(* channels share it.  The four sizes of the code, 8, 4, 16 and 32 for the *)
(* modes 0 to 3, are the constant Size, so that TLC can take smaller ones. *)
(***************************************************************************)
EXTENDS AspWords, Sequences, Functions

CONSTANT Size         \* the window of each mode

Mode == 0 .. 3

ASSUME SizeAssumption == Size \in [Mode -> Nat \ {0}]

VARIABLES
  avgAddr,    \* addr_0
  window,     \* state: the number of samples averaged
  shift,      \* shift_data
  avgSend     \* the address and the low 16 bits of the send port

avgVars == <<avgAddr, window, shift, avgSend>>

Longest == CHOOSE n \in {Size[k] : k \in Mode} : \A k \in Mode : Size[k] <= n

AvgInit ==
  /\ avgAddr = 0
  /\ window = Size[0]
  /\ shift = [i \in 0 .. Longest - 1 |-> 0]
  /\ avgSend = IdlePort

\* A configuration word; modes 4 to 15 keep the window.
AvgConfigure(w) ==
  /\ w.header = "avg"
  /\ window' = IF w.mode \in Mode THEN Size[w.mode] ELSE window
  /\ avgAddr' = w.addr
  /\ avgSend' = To(RECOP_PORT, AckWord(AVG_PORT))
  /\ UNCHANGED shift

\* The mean of the window, rounded down: without the sample just received.
Mean == SumFunction([i \in 0 .. window - 1 |-> shift[i]]) \div window

\* Mutant: the shift starts one place late.
ShiftedLate(x) ==
  [i \in DOMAIN shift |-> IF i = 0 THEN x
                          ELSE IF i + 1 < window THEN shift[i - 1] ELSE shift[i]]

\* The places below the window move on by one; those above it stay.
Shifted(x) ==
  [i \in DOMAIN shift |-> IF i = 0 THEN x
                          ELSE IF i < window THEN shift[i - 1] ELSE shift[i]]

\* A sample of either channel.  Only the low 16 bits of the send port are
\* assigned: bit 31 keeps the zero it has from the start or from a reply.
AvgData(w) ==
  /\ w.header = "data"
  /\ shift' = Shifted(w.value)
  /\ avgSend' = To(avgAddr, [header |-> "none", value |-> Mean])
  /\ UNCHANGED <<avgAddr, window>>

AvgOther(w) ==
  /\ w.header \notin {"avg", "data"}
  /\ UNCHANGED <<avgAddr, window, shift, avgSend>>

\* One rising edge with the word w in the receive register.
AvgClock(w) == AvgConfigure(w) \/ AvgData(w) \/ AvgOther(w)
=============================================================================
