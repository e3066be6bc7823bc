---------------------------- MODULE AudioControl ----------------------------
(***************************************************************************)
(* The configuration of the audio codec after power-up (AudioControl.vhd): *)
(* a sequencer offers eleven words, one every 40 periods of the bus clock, *)
(* to a state machine that sends them over the two lines of an I2C bus.    *)
(*                                                                         *)
(* Of the 125 ticks of a period only four change anything; quarter says    *)
(* which was the last.  Both lines float high unless somebody drives them  *)
(* low.  The codec is an I2C receiver, which may or may not acknowledge.   *)
(***************************************************************************)
EXTENDS Naturals, Sequences

VARIABLES
  quarter,      \* 0 after tick 125, 1 after 31, 2 after 62, 3 after 93
  count,        \* rising edges of scl_clk, up to 480
  valid,        \* a word is offered
  word,         \* addr and data: the word, kept after valid falls
  state,        \* the state machine
  bits, index,  \* the frame being sent and the bit on the line
  sdaBit,       \* sda_bit: the line is let go
  sclDrive,     \* scl_drive: the clock is put on the bus
  failure, ready, success,
  ack,          \* the codec pulls sda low
  open,         \* the codec has seen a START and no STOP since
  seen,         \* the bits it has sampled since
  frames        \* the frames it has received

sequencer == <<count, valid, word>>
machine   == <<state, bits, index, sdaBit, sclDrive, failure, ready, success>>
codec     == <<ack, open, seen, frames>>
controlVars == <<quarter, sequencer, machine, codec>>

-----------------------------------------------------------------------------
(* The words.                                                              *)

\* addr and data of the eleven settings, 7 and 9 bits.
Settings ==
  <<[addr |-> 15, data |-> 0],    \* Reset
    [addr |-> 0,  data |-> 23],   \* Left line in
    [addr |-> 1,  data |-> 23],   \* Right line in
    [addr |-> 2,  data |-> 121],  \* Left line out
    [addr |-> 3,  data |-> 121],  \* Right line out
    [addr |-> 4,  data |-> 18],   \* Analogue path control
    [addr |-> 5,  data |-> 1],    \* Digital path control
    [addr |-> 6,  data |-> 98],   \* Power save mode
    [addr |-> 7,  data |-> 194],  \* Interface format
    [addr |-> 8,  data |-> 0],    \* Sampling control
    [addr |-> 9,  data |-> 1]>>   \* Set active

\* "00110100" & addr & data, as the set bits of a 24-bit vector.
Frame(w) ==
  LET number == 52 * 2 ^ 16 + w.addr * 2 ^ 9 + w.data
  IN  [i \in 0 .. 23 |-> (number \div 2 ^ i) % 2 = 1]

\* Mutant: the words are offered every 25 periods.
OfferedEarly(n) == IF n % 25 = 0 /\ n \div 25 \in DOMAIN Settings THEN n \div 25 ELSE 0

\* The number of the word offered at a count, or 0.
OfferedAt(n) == IF n % 40 = 0 /\ n \div 40 \in DOMAIN Settings THEN n \div 40 ELSE 0

-----------------------------------------------------------------------------
(* The lines.                                                              *)

\* The states in which sda is driven with sda_bit.
Driving(s) == s \in {"start", "devi_out", "addr_out", "data_out", "stop"}

Scl == ~ sclDrive \/ quarter \in {0, 1}
MasterSda == ~ Driving(state) \/ sdaBit
Sda == MasterSda /\ ~ ack

-----------------------------------------------------------------------------
(* The state machine at the rising edge of sda_clk (tick 93).              *)

Stay == state = "idle" /\ ~ valid /\ UNCHANGED machine

Accept ==
  /\ state = "idle" /\ valid
  /\ bits' = Frame(word)
  /\ ready' = FALSE /\ success' = FALSE
  /\ state' = "start"
  /\ UNCHANGED <<index, sdaBit, sclDrive, failure>>

\* The next bit of the frame goes on the line.
Present(i, s) ==
  /\ index' = i
  /\ sdaBit' = bits[i]
  /\ state' = s
  /\ UNCHANGED <<bits, sclDrive, failure, ready, success>>

Start == state = "start" /\ Present(23, "devi_out")

\* The last bit of a byte, and the state that waits for its acknowledge.
Last  == [devi_out |-> 16, addr_out |-> 8, data_out |-> 0]
Then  == [devi_out |-> "devi_ack", addr_out |-> "addr_ack", data_out |-> "data_ack"]
After == [devi_ack |-> "addr_out", addr_ack |-> "data_out"]

ShiftOut ==
  state \in DOMAIN Last /\ index # Last[state] /\ Present(index - 1, state)

ByteDone ==
  /\ state \in DOMAIN Last /\ index = Last[state]
  /\ sdaBit' = FALSE
  /\ state' = Then[state]
  /\ UNCHANGED <<bits, index, sclDrive, failure, ready, success>>

\* Mutant: the last bit of the byte before is sent again.
NextByteRepeats == state \in DOMAIN After /\ Present(index, After[state])

NextByte == state \in DOMAIN After /\ Present(index - 1, After[state])

DataAck ==
  /\ state = "data_ack"
  /\ state' = "stop"
  /\ UNCHANGED <<bits, index, sdaBit, sclDrive, failure, ready, success>>

Stop ==
  /\ state = "stop"
  /\ ready' = TRUE /\ success' = ~ failure
  /\ state' = "idle"
  /\ UNCHANGED <<bits, index, sdaBit, sclDrive, failure>>

Rise == Stay \/ Accept \/ Start \/ ShiftOut \/ ByteDone \/ NextByte \/ DataAck \/ Stop

-----------------------------------------------------------------------------
(* The state machine at the falling edge of sda_clk (tick 31).             *)

\* Mutants: the clock goes off the bus a state early; the failure is kept
\* from the word before.
FallEarly ==
  /\ sclDrive' = IF state = "start" THEN TRUE ELSE IF state = "data_ack" THEN FALSE ELSE sclDrive
  /\ failure' = IF state = "start" THEN FALSE
                ELSE failure \/ (state \in {"devi_ack", "addr_ack", "data_ack"} /\ Sda)
  /\ UNCHANGED <<state, bits, index, sdaBit, ready, success>>

FallForgetful ==
  /\ sclDrive' = IF state = "start" THEN TRUE ELSE IF state = "stop" THEN FALSE ELSE sclDrive
  /\ failure' = (failure \/ (state \in {"devi_ack", "addr_ack", "data_ack"} /\ Sda))
  /\ UNCHANGED <<state, bits, index, sdaBit, ready, success>>

\* The clock goes on the bus after the START and off it before the STOP, and
\* a byte that is not acknowledged is a failure.
Fall ==
  /\ sclDrive' = IF state = "start" THEN TRUE ELSE IF state = "stop" THEN FALSE ELSE sclDrive
  /\ failure' = IF state = "start" THEN FALSE
                ELSE failure \/ (state \in {"devi_ack", "addr_ack", "data_ack"} /\ Sda)
  /\ UNCHANGED <<state, bits, index, sdaBit, ready, success>>

-----------------------------------------------------------------------------
\* The sequencer at the rising edge of scl_clk (tick 125).
Sequence ==
  /\ count' = IF count = 480 THEN 480 ELSE count + 1
  /\ valid' = (OfferedAt(count') # 0)
  /\ word'  = IF OfferedAt(count') # 0 THEN Settings[OfferedAt(count')] ELSE word

-----------------------------------------------------------------------------
(* The codec, an I2C receiver: sda falling while scl is high is a START,   *)
(* rising a STOP; a bit is sampled when scl rises; after eight bits the    *)
(* next clock is for the acknowledge.                                      *)

\* The frame in the samples, which hold an acknowledge after each byte.
Decoded(samples) == [i \in 0 .. 23 |-> samples[24 - i + (23 - i) \div 8]]

Receive(scl, sda, newScl, newSda) ==
  \/ /\ scl /\ newScl /\ sda /\ ~ newSda
     /\ open' = TRUE /\ seen' = <<>>
     /\ UNCHANGED <<ack, frames>>
  \/ /\ scl /\ newScl /\ ~ sda /\ newSda
     /\ open' = FALSE /\ seen' = <<>>
     /\ frames' = IF open /\ Len(seen) >= 27 THEN Append(frames, Decoded(seen)) ELSE frames
     /\ UNCHANGED ack
  \/ /\ scl /\ newScl /\ sda = newSda
     /\ UNCHANGED codec
  \/ /\ ~ scl /\ newScl
     /\ seen' = IF open THEN Append(seen, newSda) ELSE seen
     /\ UNCHANGED <<ack, open, frames>>
  \/ /\ scl /\ ~ newScl
     /\ ack' \in IF open /\ Len(seen) % 9 = 8 THEN BOOLEAN ELSE {FALSE}
     /\ UNCHANGED <<open, seen, frames>>
  \/ /\ ~ scl /\ ~ newScl
     /\ UNCHANGED codec

-----------------------------------------------------------------------------
\* failure is not initialised; the word is read only after it was set.
ControlInit ==
  /\ quarter = 0
  /\ count = 0 /\ valid = FALSE /\ word = Settings[1]
  /\ state = "idle" /\ bits = Frame(word) /\ index = 0
  /\ sdaBit = FALSE /\ sclDrive = FALSE
  /\ failure \in BOOLEAN /\ ready = TRUE /\ success = FALSE
  /\ ack = FALSE /\ open = FALSE /\ seen = <<>> /\ frames = <<>>

\* The next of the four ticks, and what the codec makes of the lines.
Tick ==
  /\ quarter' = (quarter + 1) % 4
  /\ CASE quarter = 0 -> Fall /\ UNCHANGED sequencer
       [] quarter = 1 -> UNCHANGED <<machine, sequencer>>
       [] quarter = 2 -> Rise /\ UNCHANGED sequencer
       [] quarter = 3 -> Sequence /\ UNCHANGED machine
  /\ Receive(Scl, Sda, Scl', MasterSda' /\ ~ ack)

ControlSpec == ControlInit /\ [][Tick]_controlVars /\ WF_controlVars(Tick)

-----------------------------------------------------------------------------
\* The codec receives the settings in their order, each bit of each frame,
\* and nothing else, from lines on which it looks for START and STOP itself.
SettingsInOrder ==
  /\ Len(frames) <= Len(Settings)
  /\ \A n \in DOMAIN frames : frames[n] = Frame(Settings[n])

\* While the clock is high on the bus sda moves for START and STOP alone,
\* also when the codec answers or does not answer.
SdaSteady ==
  [][Scl /\ Scl' /\ Sda # Sda' =>
       (state = "idle" /\ state' = "start") \/ (state = "stop" /\ state' = "idle")]_controlVars

\* success is what the codec answered: all three bytes were acknowledged.
SuccessIsAnswered ==
  [][state = "stop" /\ state' = "idle" =>
       success' = (\A i \in {9, 18, 27} : ~ seen[i])]_controlVars

\* Every word is received in the end: each is offered for one period, in
\* which the state machine must be idle, and nobody offers it again.
AllReceived == <>(Len(frames) = Len(Settings))
=============================================================================
