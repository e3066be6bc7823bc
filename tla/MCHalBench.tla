----------------------------- MODULE MCHalBench -----------------------------
(* Instance of HalBench: a console as standard out and a disk with files;  *)
(* three alarms and a counter that rolls over after six ticks; a clock of  *)
(* two ticks per second whose product overflows halfway.                   *)
EXTENDS HalBench

CONSTANTS console, disk, a, b, c

ConsoleOut == [fd \in Std |-> IF fd = 1 THEN console ELSE alt_dev_null]

SomeTimes == {[sec |-> 0, usec |-> 0], [sec |-> 1, usec |-> 2]}
=============================================================================
