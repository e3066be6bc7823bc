----------------------------- MODULE AspNumbers -----------------------------
(***************************************************************************)
(* Fixed-width two's complement, as numeric_std computes with it.  A       *)
(* sample is the signed reading of its 16 bits.                            *)
(***************************************************************************)
EXTENDS Integers

\* The signed and the unsigned reading of the low w bits of n.
Signed(n, w) == ((n + 2 ^ (w - 1)) % (2 ^ w)) - 2 ^ (w - 1)
Unsigned(n, w) == n % (2 ^ w)

\* shift_right of a signed number: floor division.
ShiftRight(n, k) == n \div (2 ^ k)

Clamp(n, lo, hi) == IF n < lo THEN lo ELSE IF n > hi THEN hi ELSE n
=============================================================================
