--------------------------- MODULE SequenceFilter ---------------------------
(***************************************************************************)
(* SelectSeq with a set for the test, as a recursive function: what holds  *)
(* of it can be proved.                                                    *)
(***************************************************************************)
EXTENDS Integers, Sequences

\* The elements of s that are in S, in their order.
Filtered(s, S) ==
  LET upTo[n \in 0 .. Len(s)] ==
        IF n = 0 THEN <<>>
        ELSE IF s[n] \in S THEN Append(upTo[n - 1], s[n]) ELSE upTo[n - 1]
  IN  upTo[Len(s)]
=============================================================================
