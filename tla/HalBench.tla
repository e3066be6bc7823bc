------------------------------ MODULE HalBench ------------------------------
(***************************************************************************)
(* The parts of the board support package that keep state, each alone on a *)
(* bench: they share none.  The alarms and the time of day are both driven *)
(* by alt_tick, but neither looks at the other.                            *)
(***************************************************************************)
EXTENDS HalFiles, HalTimer, HalIrq

Part == {"files", "alarms", "clock", "irq"}

VARIABLE part    \* the one on the bench

halVars == <<part, filesVars, timerVars, irqVars>>

HalInit ==
  /\ part \in Part
  /\ FilesInit /\ TimerInit /\ IrqInit

HalNext ==
  /\ \/ part = "files"  /\ FilesNext  /\ UNCHANGED <<timerVars, irqVars>>
     \/ part = "alarms" /\ TimerNext /\ UNCHANGED <<filesVars, clockVars, irqVars>>
     \/ part = "clock"  /\ TimerNext /\ UNCHANGED <<filesVars, alarmVars, irqVars>>
     \/ part = "irq"    /\ IrqNext    /\ UNCHANGED <<filesVars, timerVars>>
  /\ UNCHANGED part

HalSpec == HalInit /\ [][HalNext]_halVars

\* The processor goes on with the handler it is in.
HalFairSpec ==
  HalSpec /\ WF_halVars(part = "alarms" /\ Walk /\ UNCHANGED <<part, filesVars, clockVars, irqVars>>)

HalTypeOK == FilesTypeOK /\ TimerTypeOK /\ IrqTypeOK
=============================================================================
