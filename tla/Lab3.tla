-------------------------------- MODULE Lab3 --------------------------------
(***************************************************************************)
(* The program lab3/main.c on the Nios computer: a polling loop that reads *)
(* the keys and the receive port, and writes one configuration word to the *)
(* send port, the address and the data one after the other.  The display   *)
(* and the numbers on it are left out.                                     *)
(***************************************************************************)
EXTENDS AspWords, Integers

VARIABLES
  step,        \* where the loop is
  edge, mode,  \* edge and state of main
  outgoing,    \* send_addr and send_data of main
  niosSend     \* the two output ports behind SEND_ADDR_BASE, SEND_DATA_BASE

lab3Vars == <<step, edge, mode, outgoing, niosSend>>

Lab3Init ==
  /\ step = "read"
  /\ edge = FALSE /\ mode = 0
  /\ outgoing = IdlePort /\ niosSend = IdlePort

\* The words of the modes the loop comes to; all other modes send a zero.
ModeWord(n) ==
  CASE n = 9 -> To(DAC_PORT, [header |-> "dac", ch |-> 0, rate |-> 0, enable |-> TRUE])
    [] n = 4 -> To(ADC_PORT, [header |-> "adc", ch |-> 0, addr |-> ADC_PORT, rate |-> 0,
                              enable |-> FALSE])
    [] OTHER -> To(DAC_PORT, Nothing)

\* recv_data.byte[3] >> 4 of a char, which has a sign.
TopNibble(w) ==
  CASE w.header = "data" -> -8
    [] w.header = "adc"  -> -6
    [] w.header = "dac"  -> -5
    [] OTHER -> 0

\* What sends the received word on to port 3, with the keys that are up.
\* It is never so.
Forwards(w, up) == TopNibble(w) = 8 /\ w.ch = 0 /\ 2 \in up

\* Inputs and logic.  A key reads as one while it is up.  The mode changes
\* in every round in which key 0 is up and was before.
ReadInputs(w, up) ==
  /\ step = "read" /\ step' = "addr"
  /\ mode' = IF 0 \in up /\ edge THEN IF mode > 4 THEN 4 ELSE 9 ELSE mode
  /\ edge' = (0 \in up)
  /\ outgoing' = IF Forwards(w, up) THEN To(DP_PORT, w) ELSE ModeWord(mode')
  /\ UNCHANGED niosSend

\* The outputs.
WriteAddr ==
  /\ step = "addr" /\ step' = "data"
  /\ niosSend' = [niosSend EXCEPT !.addr = outgoing.addr]
  /\ UNCHANGED <<edge, mode, outgoing>>

WriteData ==
  /\ step = "data" /\ step' = "read"
  /\ niosSend' = [niosSend EXCEPT !.word = outgoing.word]
  /\ UNCHANGED <<edge, mode, outgoing>>

\* A clock edge with the word w in the receive register of the port: most
\* are between two steps of the program.
Lab3Clock(w) ==
  \/ \E up \in SUBSET {0, 1, 2} : ReadInputs(w, up)
  \/ WriteAddr
  \/ WriteData
  \/ UNCHANGED lab3Vars
=============================================================================
