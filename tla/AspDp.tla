------------------------------- MODULE AspDp -------------------------------
(***************************************************************************)
(* The distortion processor (AspDp.vhd): doubles each sample, limits it to *)
(* +-4096 and sends it to the DAC.                                         *)
(***************************************************************************)
EXTENDS AspWords, AspNumbers

VARIABLE dpSend       \* the send port

Limit == 4096

\* temp: the sign bit, the low 14 bits of the sample and a zero.
Doubled(x) ==
  Signed((IF x < 0 THEN 2 ^ 15 ELSE 0) + 2 * Unsigned(x, 14), 16)

\* Mutant: doubled samples of 4098 pass the limit.
DistortedLate(x) ==
  IF x >= 0 THEN IF Doubled(x) > Limit + 2 THEN Limit ELSE Doubled(x)
  ELSE IF Doubled(x) < - Limit THEN - Limit ELSE Doubled(x)

Distorted(x) ==
  IF x >= 0 THEN IF Doubled(x) > Limit THEN Limit ELSE Doubled(x)
  ELSE IF Doubled(x) < - Limit THEN - Limit ELSE Doubled(x)

DpInit == dpSend = IdlePort

DpData(w) ==
  /\ w.header = "data"
  /\ dpSend' = To(DAC_PORT, DataWord(w.ch, Distorted(w.value)))

\* Any other word: the word on the send port stays.
DpOther(w) ==
  /\ w.header # "data"
  /\ dpSend' = To(DAC_PORT, dpSend.word)

\* One rising edge with the word w in the receive register.
DpClock(w) == DpData(w) \/ DpOther(w)
=============================================================================
