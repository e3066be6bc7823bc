---------------------------- MODULE TdmaMinTypes ----------------------------
(***************************************************************************)
(* Terminal numbers, slots and addresses of the TDMA-MIN network           *)
(* (src/TdmaMin/TdmaMinTypes.vhd and the std_logic_vector operators used   *)
(* on them).  A number of Stages bits is the function from bit positions   *)
(* to BOOLEAN that VHDL's std_logic_vector(stages-1 downto 0) is; bit 0 is *)
(* the least significant one.                                              *)
(***************************************************************************)
EXTENDS Naturals

CONSTANT Stages     \* log2Ceil(ports): the number of switching stages

ASSUME StagesAssumption == Stages \in Nat \ {0}

Bit == 0 .. Stages - 1

Terminal == [Bit -> BOOLEAN]

\* (others => '0')
Zero == [k \in Bit |-> FALSE]

\* The bitwise xor of two vectors.
Xor(a, b) == [k \in Bit |-> a[k] # b[k]]

(* Mutants: Increment as a counter that stops at its maximum, and as one   *)
(* whose carry is lost.                                                    *)
IncrementSaturates(c) ==
  IF \A k \in Bit : c[k] THEN c
  ELSE [k \in Bit |-> c[k] # (\A j \in 0 .. k - 1 : c[j])]

IncrementNoCarry(c) == [k \in Bit |-> c[k] # (k = 0)]

\* count + 1 on an unsigned vector: a bit flips when every lower bit is set,
\* so the all-ones vector wraps to Zero.
Increment(c) == [k \in Bit |-> c[k] # (\A j \in 0 .. k - 1 : c[j])]
=============================================================================
