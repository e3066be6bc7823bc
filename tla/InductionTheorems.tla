------------------------- MODULE InductionTheorems --------------------------
(***************************************************************************)
(* Induction over the naturals stated with a set for the predicate, from   *)
(* the well-foundedness of < on Nat, what it shows of a filtered sequence  *)
(* and of powers of two, and facts on division.                            *)
(***************************************************************************)
EXTENDS SequenceFilter, SequenceTheorems, FiniteSetTheorems, WellFoundedInduction, TLAPS

\* A non-empty set of naturals has a least element.
LEMMA LeastNatural ==
  ASSUME NEW T \in SUBSET Nat, T # {}
  PROVE  \E x \in T : \A y \in T : ~ (y < x)
<1> DEFINE R == {ss \in Nat \X Nat : ss[1] < ss[2]}
<1>1. IsWellFoundedOn(R, Nat)
  BY NatLessThanWellFounded DEF OpToRel
<1>2. PICK x \in T : \A y \in T : <<y, x>> \notin R
  BY <1>1, WFMin
<1> QED
  BY <1>2

\* A set with n, closed under predecessor, has every number from n to 0.
LEMMA DownwardInduction ==
  ASSUME NEW S, NEW n \in Nat, n \in S,
         \A m \in 0 .. n - 1 : m + 1 \in S => m \in S
  PROVE  \A m \in 0 .. n : m \in S
<1> DEFINE T == {k \in 0 .. n : n - k \notin S}
<1> SUFFICES T = {}
  <2> SUFFICES ASSUME T = {}, NEW m \in 0 .. n PROVE m \in S
    OBVIOUS
  <2>1. n - m \in 0 .. n /\ n - (n - m) = m
    OBVIOUS
  <2>2. n - m \notin T
    OBVIOUS
  <2> QED
    BY <2>1, <2>2
<1> SUFFICES ASSUME T # {} PROVE FALSE
  OBVIOUS
<1>0. T \in SUBSET Nat
  OBVIOUS
<1> HIDE DEF T
<1>1. PICK x \in T : \A y \in T : ~ (y < x)
  BY <1>0, LeastNatural
<1> USE DEF T
<1>2. x \in 0 .. n /\ n - x \notin S
  OBVIOUS
<1>3. x # 0
  BY <1>2
<1>4. x - 1 \in 0 .. n /\ n - (x - 1) \in S
  BY <1>1, <1>2, <1>3
<1>5. n - x \in 0 .. n - 1 /\ (n - x) + 1 = n - (x - 1)
  BY <1>2, <1>3
<1> QED
  BY <1>2, <1>4, <1>5

\* A set with 0, closed under successor, has every number from 0 to n.
LEMMA UpwardInduction ==
  ASSUME NEW S, NEW n \in Nat, 0 \in S,
         \A m \in 0 .. n - 1 : m \in S => m + 1 \in S
  PROVE  \A m \in 0 .. n : m \in S
<1> DEFINE T == {k \in 0 .. n : k \notin S}
<1> SUFFICES ASSUME T # {} PROVE FALSE
  OBVIOUS
<1>1. T \in SUBSET Nat
  OBVIOUS
<1> HIDE DEF T
<1>2. PICK x \in T : \A y \in T : ~ (y < x)
  BY <1>1, LeastNatural
<1> USE DEF T
<1>3. x \in 0 .. n /\ x \notin S
  OBVIOUS
<1>4. x # 0
  BY <1>3
<1>5. x - 1 \in 0 .. n - 1 /\ x - 1 < x /\ (x - 1) + 1 = x
  BY <1>3, <1>4
<1>6. x - 1 \in S
  BY <1>2, <1>5
<1> QED
  BY <1>3, <1>5, <1>6

-----------------------------------------------------------------------------
\* What the recursion of Filtered makes of the value before.
OneMore(s, S, n, before) == IF s[n] \in S THEN Append(before, s[n]) ELSE before

\* A function that follows the recursion as far as n.
Follows(f, s, S, n) ==
  f = [k \in 0 .. n |-> IF k = 0 THEN <<>> ELSE OneMore(s, S, k, f[k - 1])]

\* The recursion has a solution, and Filtered is its last value.
LEMMA FilteredFollows ==
  ASSUME NEW s, NEW S, Len(s) \in Nat
  PROVE  \E f : Follows(f, s, S, Len(s)) /\ Filtered(s, S) = f[Len(s)]
<1> DEFINE P == {n \in 0 .. Len(s) : \E f : Follows(f, s, S, n)}
<1>1. 0 \in P
  <2> DEFINE f == [k \in 0 .. 0 |-> <<>>]
  <2>1. Follows(f, s, S, 0)
    BY DEF Follows
  <2> QED
    BY <2>1
<1>2. ASSUME NEW n \in 0 .. Len(s) - 1, n \in P PROVE n + 1 \in P
  <2>1. PICK f : Follows(f, s, S, n)
    BY <1>2
  <2> DEFINE g == [k \in 0 .. n + 1 |-> IF k \in 0 .. n THEN f[k] ELSE OneMore(s, S, k, f[n])]
  <2>2. \A k \in 0 .. n : g[k] = f[k]
    OBVIOUS
  <2>3. g[n + 1] = OneMore(s, S, n + 1, f[n])
    OBVIOUS
  <2>4. DOMAIN g = 0 .. n + 1 /\ g = [k \in 0 .. n + 1 |-> g[k]]
    OBVIOUS
  <2> HIDE DEF g
  <2>5. ASSUME NEW k \in 0 .. n + 1
        PROVE  g[k] = IF k = 0 THEN <<>> ELSE OneMore(s, S, k, g[k - 1])
    <3>1. CASE k = n + 1
      BY <2>2, <2>3, <3>1
    <3>2. CASE k \in 0 .. n
      <4>1. f[k] = IF k = 0 THEN <<>> ELSE OneMore(s, S, k, f[k - 1])
        BY <2>1, <3>2 DEF Follows
      <4>2. k # 0 => k - 1 \in 0 .. n
        BY <3>2
      <4> QED
        BY <2>2, <3>2, <4>1, <4>2
    <3> QED
      BY <3>1, <3>2
  <2>6. Follows(g, s, S, n + 1)
    BY <2>4, <2>5 DEF Follows
  <2> QED
    BY <2>6
<1>3. Len(s) \in P
  <2> HIDE DEF P
  <2>1. \A n \in 0 .. Len(s) : n \in P
    BY <1>1, <1>2, UpwardInduction
  <2> QED
    BY <2>1
<1>4. \E f : Follows(f, s, S, Len(s))
  BY <1>3
<1> DEFINE F == CHOOSE f : Follows(f, s, S, Len(s))
<1>5. Follows(F, s, S, Len(s))
  BY <1>4
<1>6. Filtered(s, S) = F[Len(s)]
  BY DEF Filtered, Follows, OneMore
<1> QED
  BY <1>5, <1>6

LEMMA FollowsStep ==
  ASSUME NEW f, NEW s, NEW S, NEW n \in Nat, Follows(f, s, S, n)
  PROVE  /\ f[0] = <<>>
         /\ \A k \in 1 .. n : f[k] = OneMore(s, S, k, f[k - 1])
  BY DEF Follows

LEMMA FollowsType ==
  ASSUME NEW T, NEW s \in Seq(T), NEW S, NEW f, Follows(f, s, S, Len(s))
  PROVE  \A k \in 0 .. Len(s) : f[k] \in Seq(T \cap S)
<1> DEFINE P == {k \in 0 .. Len(s) : f[k] \in Seq(T \cap S)}
<1>1. Len(s) \in Nat
  OBVIOUS
<1>2. 0 \in P
  <2>1. f[0] = <<>>
    BY <1>1, FollowsStep
  <2>2. <<>> \in Seq(T \cap S) /\ 0 \in 0 .. Len(s)
    BY <1>1
  <2> QED
    BY <2>1, <2>2, Zenon
<1>3. ASSUME NEW m \in 0 .. Len(s) - 1, m \in P PROVE m + 1 \in P
  <2>1. f[m + 1] = OneMore(s, S, m + 1, f[m]) /\ s[m + 1] \in T /\ m + 1 \in 0 .. Len(s)
    <3>1. m + 1 \in 1 .. Len(s) /\ (m + 1) - 1 = m
      BY <1>1
    <3> QED
      BY <1>1, <3>1, FollowsStep
  <2>2. ASSUME s[m + 1] \in S PROVE Append(f[m], s[m + 1]) \in Seq(T \cap S)
    BY <1>3, <2>1, <2>2, AppendProperties
  <2> QED
    BY <1>3, <2>1, <2>2 DEF OneMore
<1> HIDE DEF P
<1>4. \A k \in 0 .. Len(s) : k \in P
  BY <1>1, <1>2, <1>3, UpwardInduction
<1> QED
  BY <1>4 DEF P

\* Only elements of the sequence, and of the set.
LEMMA FilteredType ==
  ASSUME NEW T, NEW s \in Seq(T), NEW S
  PROVE  Filtered(s, S) \in Seq(T \cap S)
<1>1. PICK f : Follows(f, s, S, Len(s)) /\ Filtered(s, S) = f[Len(s)]
  BY FilteredFollows
<1>2. \A k \in 0 .. Len(s) : f[k] \in Seq(T \cap S)
  BY <1>1, FollowsType
<1>3. Len(s) \in 0 .. Len(s)
  OBVIOUS
<1> QED
  BY <1>1, <1>2, <1>3

LEMMA FilteredEmpty == \A S : Filtered(<<>>, S) = <<>>
<1> SUFFICES ASSUME NEW S PROVE Filtered(<<>>, S) = <<>>
  OBVIOUS
<1> DEFINE s == <<>>
<1>1. Len(s) = 0 /\ Len(s) \in Nat
  OBVIOUS
<1> HIDE DEF s
<1>2. PICK f : Follows(f, s, S, Len(s)) /\ Filtered(s, S) = f[Len(s)]
  BY <1>1, FilteredFollows
<1>3. Filtered(s, S) = <<>>
  BY <1>1, <1>2, FollowsStep
<1> QED
  BY <1>3 DEF s

\* A new last element.
LEMMA FilteredAppend ==
  ASSUME NEW T, NEW s \in Seq(T), NEW x \in T, NEW S
  PROVE  Filtered(Append(s, x), S) =
           IF x \in S THEN Append(Filtered(s, S), x) ELSE Filtered(s, S)
<1> DEFINE t == Append(s, x)
           n == Len(s)
<1>1. /\ t \in Seq(T) /\ Len(t) = n + 1 /\ n \in Nat /\ t[n + 1] = x
      /\ \A k \in 1 .. n : t[k] = s[k]
  BY AppendProperties
<1> HIDE DEF t
<1>2. PICK f : Follows(f, s, S, n) /\ Filtered(s, S) = f[n]
  BY <1>1, FilteredFollows
<1>3. PICK g : Follows(g, t, S, n + 1) /\ Filtered(t, S) = g[n + 1]
  BY <1>1, FilteredFollows
<1>4. /\ f[0] = <<>> /\ \A k \in 1 .. n : f[k] = OneMore(s, S, k, f[k - 1])
      /\ g[0] = <<>> /\ \A k \in 1 .. n + 1 : g[k] = OneMore(t, S, k, g[k - 1])
  BY <1>1, <1>2, <1>3, FollowsStep
<1> DEFINE P == {k \in 0 .. n : g[k] = f[k]}
<1>5. 0 \in P
  BY <1>1, <1>4
<1>6. ASSUME NEW m \in 0 .. n - 1, m \in P PROVE m + 1 \in P
  <2>1. m + 1 \in 1 .. n /\ m + 1 \in 1 .. n + 1 /\ m + 1 \in 0 .. n /\ (m + 1) - 1 = m
    BY <1>1
  <2>2. g[m + 1] = OneMore(t, S, m + 1, g[m]) /\ f[m + 1] = OneMore(s, S, m + 1, f[m])
    BY <1>4, <2>1
  <2> QED
    BY <1>1, <1>6, <2>1, <2>2 DEF OneMore
<1>7. \A k \in 0 .. n : k \in P
  <2> HIDE DEF P
  <2> QED
    BY <1>1, <1>5, <1>6, UpwardInduction
<1>8. g[n] = f[n]
  BY <1>1, <1>7
<1>9. g[n + 1] = OneMore(t, S, n + 1, g[n])
  <2>1. n + 1 \in 1 .. n + 1 /\ (n + 1) - 1 = n
    BY <1>1
  <2> QED
    BY <1>4, <2>1
<1> QED
  BY <1>1, <1>2, <1>3, <1>8, <1>9 DEF OneMore, t

LEMMA ConcatAppend ==
  ASSUME NEW T, NEW c \in Seq(T), NEW r \in Seq(T), NEW y \in T
  PROVE  c \o Append(r, y) = Append(c \o r, y)
<1> DEFINE b == <<y>>
<1>1. b \in Seq(T) /\ c \o r \in Seq(T)
  OBVIOUS
<1>2. Append(r, y) = r \o b
  BY AppendIsConcat
<1>3. Append(c \o r, y) = (c \o r) \o b
  BY <1>1, AppendIsConcat
<1> HIDE DEF b
<1>4. (c \o r) \o b = c \o (r \o b)
  BY <1>1, ConcatAssociative
<1> QED
  BY <1>2, <1>3, <1>4

\* A new first element.
LEMMA FilteredCons ==
  ASSUME NEW T, NEW s \in Seq(T), NEW x \in T, NEW S
  PROVE  Filtered(<<x>> \o s, S) =
           IF x \in S THEN <<x>> \o Filtered(s, S) ELSE Filtered(s, S)
<1> DEFINE t == <<x>> \o s
           n == Len(s)
           With(rest) == IF x \in S THEN <<x>> \o rest ELSE rest
<1>1. /\ t \in Seq(T) /\ Len(t) = n + 1 /\ n \in Nat /\ t[1] = x
      /\ \A k \in 1 .. n : t[k + 1] = s[k]
  OBVIOUS
<1> HIDE DEF t
<1>2. PICK f : Follows(f, s, S, n) /\ Filtered(s, S) = f[n]
  BY <1>1, FilteredFollows
<1>3. PICK g : Follows(g, t, S, n + 1) /\ Filtered(t, S) = g[n + 1]
  BY <1>1, FilteredFollows
<1>4. /\ f[0] = <<>> /\ \A k \in 1 .. n : f[k] = OneMore(s, S, k, f[k - 1])
      /\ g[0] = <<>> /\ \A k \in 1 .. n + 1 : g[k] = OneMore(t, S, k, g[k - 1])
  BY <1>1, <1>2, <1>3, FollowsStep
<1>5. \A k \in 0 .. n : f[k] \in Seq(T)
  <2>1. \A k \in 0 .. n : f[k] \in Seq(T \cap S)
    BY <1>1, <1>2, FollowsType
  <2>2. Seq(T \cap S) \subseteq Seq(T)
    BY SeqMonotonic
  <2> QED
    BY <2>1, <2>2
<1> DEFINE P == {k \in 0 .. n : g[k + 1] = With(f[k])}
<1>6. 0 \in P
  <2>1. 1 \in 1 .. n + 1 /\ 1 - 1 = 0 /\ 0 + 1 = 1 /\ 0 \in 0 .. n
    BY <1>1
  <2>2. g[1] = OneMore(t, S, 1, <<>>)
    BY <1>4, <2>1
  <2>3. Append(<<>>, x) = <<x>> /\ <<x>> \o <<>> = <<x>>
    OBVIOUS
  <2> QED
    BY <1>1, <1>4, <2>1, <2>2, <2>3 DEF OneMore
<1>7. ASSUME NEW m \in 0 .. n - 1, m \in P PROVE m + 1 \in P
  <2>1. /\ m + 1 \in 1 .. n /\ (m + 1) + 1 \in 1 .. n + 1 /\ m + 1 \in 0 .. n
        /\ (m + 1) - 1 = m /\ ((m + 1) + 1) - 1 = m + 1 /\ m \in 0 .. n
    BY <1>1
  <2>2. /\ g[(m + 1) + 1] = OneMore(t, S, (m + 1) + 1, g[m + 1])
        /\ f[m + 1] = OneMore(s, S, m + 1, f[m])
    BY <1>4, <2>1
  <2>3. t[(m + 1) + 1] = s[m + 1] /\ f[m] \in Seq(T) /\ s[m + 1] \in T
    BY <1>1, <1>5, <2>1
  <2>4. <<x>> \o Append(f[m], s[m + 1]) = Append(<<x>> \o f[m], s[m + 1])
    <3> DEFINE r == f[m]
               y == s[m + 1]
               c == <<x>>
    <3>1. r \in Seq(T) /\ y \in T /\ c \in Seq(T)
      BY <2>3
    <3> HIDE DEF r, y, c
    <3>2. c \o Append(r, y) = Append(c \o r, y)
      BY <3>1, ConcatAppend
    <3> QED
      BY <3>2 DEF r, y, c
  <2>5. g[m + 1] = With(f[m])
    BY <1>7
  <2>6. g[(m + 1) + 1] = With(f[m + 1])
    BY <2>2, <2>3, <2>4, <2>5 DEF OneMore
  <2> QED
    BY <2>1, <2>6
<1>8. \A k \in 0 .. n : k \in P
  <2> HIDE DEF P
  <2> QED
    BY <1>1, <1>6, <1>7, UpwardInduction
<1>9. g[n + 1] = With(f[n])
  BY <1>1, <1>8
<1> QED
  BY <1>2, <1>3, <1>9 DEF t

-----------------------------------------------------------------------------
(* Powers of two, from the number of subsets of a set.                     *)

LEMMA RangeSize ==
  ASSUME NEW n \in Nat
  PROVE  /\ IsFiniteSet(0 .. n) /\ Cardinality(0 .. n) = n + 1
         /\ IsFiniteSet(1 .. n) /\ Cardinality(1 .. n) = n
  BY FS_Interval

\* The subsets of 0 .. n with 0 are as many as those without.
LEMMA PowerDoubles ==
  ASSUME NEW n \in Nat
  PROVE  2 ^ n \in Nat /\ 2 ^ (n + 1) = 2 * 2 ^ n
<1> DEFINE A == SUBSET (1 .. n)
           B == {x \cup {0} : x \in A}
           f == [x \in A |-> x \cup {0}]
<1>1. IsFiniteSet(A) /\ Cardinality(A) = 2 ^ n
  BY RangeSize, FS_SUBSET
<1>2. Cardinality(SUBSET (0 .. n)) = 2 ^ (n + 1)
  <2>1. Cardinality(0 .. n) = n + 1 /\ IsFiniteSet(0 .. n)
    BY RangeSize
  <2>2. Cardinality(SUBSET (0 .. n)) = 2 ^ Cardinality(0 .. n)
    BY <2>1, FS_SUBSET
  <2> QED
    BY <2>1, <2>2
<1>3. f \in Bijection(A, B)
  <2>1. f \in [A -> B]
    OBVIOUS
  <2>2. \A x, y \in A : f[x] = f[y] => x = y
    <3>1. \A x \in A : 0 \notin x
      OBVIOUS
    <3> QED
      BY <3>1
  <2>3. \A y \in B : \E x \in A : f[x] = y
    OBVIOUS
  <2> QED
    BY <2>1, <2>2, <2>3 DEF Bijection, Injection, Surjection, IsInjective
<1>4. IsFiniteSet(B) /\ Cardinality(B) = 2 ^ n
  BY <1>1, <1>3, FS_Bijection DEF ExistsBijection
<1>5. A \cap B = {}
  OBVIOUS
<1>6. A \cup B = SUBSET (0 .. n)
  <2>1. ASSUME NEW x \in SUBSET (0 .. n) PROVE x \in A \cup B
    <3>1. CASE 0 \in x
      <4>1. x \ {0} \in A /\ x = (x \ {0}) \cup {0}
        BY <3>1
      <4> QED
        BY <4>1
    <3>2. CASE 0 \notin x
      BY <3>2
    <3> QED
      BY <3>1, <3>2
  <2>2. A \cup B \subseteq SUBSET (0 .. n)
    <3>1. 1 .. n \subseteq 0 .. n /\ 0 \in 0 .. n
      OBVIOUS
    <3>2. \A x \in A : x \in SUBSET (0 .. n) /\ x \cup {0} \in SUBSET (0 .. n)
      BY <3>1
    <3>3. A \subseteq SUBSET (0 .. n) /\ B \subseteq SUBSET (0 .. n)
      BY <3>2
    <3> HIDE DEF A, B
    <3> QED
      BY <3>3
  <2> QED
    BY <2>1, <2>2
<1>7. Cardinality(A \cup B) = Cardinality(A) + Cardinality(B) - Cardinality(A \cap B)
  BY <1>1, <1>4, FS_Union
<1>8. Cardinality(A \cap B) = 0
  BY <1>5, FS_EmptySet
<1>9. 2 ^ n \in Nat
  BY <1>1, FS_CardinalityType
<1>10. 2 ^ (n + 1) = Cardinality(A \cup B)
  BY <1>2, <1>6
<1> DEFINE one == 2 ^ n
           more == 2 ^ (n + 1)
<1>11. more = one + one - 0 /\ one \in Nat
  BY <1>1, <1>4, <1>7, <1>8, <1>9, <1>10
<1> HIDE DEF one, more
<1>12. one \in Nat /\ more = 2 * one
  BY <1>11
<1> QED
  BY <1>12 DEF one, more

Power(k) == 2 ^ k

\* A power of two is a positive natural, and the next one its double.
LEMMA Powers ==
  /\ Power(0) = 1
  /\ \A k \in Nat : Power(k) \in Nat \ {0} /\ Power(k + 1) = 2 * Power(k)
<1> DEFINE P(n) == {m \in 0 .. n : Power(m) # 0}
<1>1. Power(0) = 1
  BY DEF Power
<1>2. \A k \in Nat : Power(k) \in Nat /\ Power(k + 1) = 2 * Power(k)
  BY PowerDoubles DEF Power
<1>3. ASSUME NEW n \in Nat PROVE Power(n) # 0
  <2>1. 0 \in P(n)
    BY <1>1
  <2>2. ASSUME NEW m \in 0 .. n - 1, m \in P(n) PROVE m + 1 \in P(n)
    BY <1>2, <2>2
  <2>3. n \in P(n)
    <3> HIDE DEF P
    <3>1. \A m \in 0 .. n : m \in P(n)
      BY <2>1, <2>2, UpwardInduction
    <3> QED
      BY <3>1
  <2> QED
    BY <2>3
<1> QED
  BY <1>1, <1>2, <1>3

-----------------------------------------------------------------------------
(* Division.                                                               *)

\* Division with remainder, and that it is unique.
LEMMA DivMod ==
  ASSUME NEW n \in Int, NEW b \in Nat \ {0}
  PROVE  /\ n \div b \in Int /\ n % b \in 0 .. b - 1
         /\ n = (n \div b) * b + (n % b)
<1>1. n \div b \in Int
  OBVIOUS
<1>2. n % b \in 0 .. b - 1
  OBVIOUS
<1>3. n = (n \div b) * b + (n % b)
  BY SMTT(30)
<1> QED
  BY <1>1, <1>2, <1>3

LEMMA ProductNat == ASSUME NEW m \in Nat, NEW n \in Nat PROVE m * n \in Nat
  OBVIOUS

LEMMA DivModUnique ==
  ASSUME NEW b \in Nat \ {0}, NEW p \in Int, NEW q \in Int,
         NEW r \in 0 .. b - 1, NEW s \in 0 .. b - 1, p * b + r = q * b + s
  PROVE  p = q /\ r = s
  BY SMTT(30)

\* A larger power is a multiple of a smaller one.
LEMMA PowerDivides ==
  ASSUME NEW m \in Nat, NEW n \in Nat, m <= n
  PROVE  \E q \in Nat : Power(n) = q * Power(m)
<1> DEFINE P == {k \in 0 .. n - m : \E q \in Nat : Power(m + k) = q * Power(m)}
<1>1. n - m \in Nat
  OBVIOUS
<1>2. 0 \in P
  <2>1. Power(m + 0) = 1 * Power(m) /\ 1 \in Nat /\ 0 \in 0 .. n - m
    BY <1>1, Powers
  <2> QED
    BY <2>1
<1>3. ASSUME NEW k \in 0 .. (n - m) - 1, k \in P PROVE k + 1 \in P
  <2>1. PICK q \in Nat : Power(m + k) = q * Power(m)
    BY <1>3
  <2>2. m + k \in Nat /\ m + (k + 1) = (m + k) + 1 /\ k + 1 \in 0 .. n - m
    BY <1>1
  <2>3. Power(m + (k + 1)) = 2 * Power(m + k)
    BY <2>2, Powers
  <2> DEFINE a == Power(m)
  <2>4. a \in Nat
    BY Powers
  <2> HIDE DEF a
  <2>5. 2 * (q * a) = (2 * q) * a /\ 2 * q \in Nat
    BY <2>4
  <2>6. Power(m + (k + 1)) = (2 * q) * Power(m)
    BY <2>1, <2>3, <2>5 DEF a
  <2> QED
    BY <2>2, <2>5, <2>6
<1> HIDE DEF P
<1>4. \A k \in 0 .. n - m : k \in P
  BY <1>1, <1>2, <1>3, UpwardInduction
<1>5. n - m \in P /\ m + (n - m) = n
  BY <1>1, <1>4
<1> QED
  BY <1>5 DEF P

\* What lies just below a multiple has the largest remainder.
LEMMA LastRemainder ==
  ASSUME NEW b \in Nat \ {0}, NEW q \in Int
  PROVE  (q * b - 1) % b = b - 1
<1> DEFINE n == q * b - 1
           p == n \div b
           r == n % b
<1>1. n \in Int /\ p \in Int /\ r \in 0 .. b - 1 /\ n = p * b + r
  <2>1. q * b \in Int
    OBVIOUS
  <2>2. n \in Int
    BY <2>1
  <2> HIDE DEF n
  <2> QED
    BY <2>2, DivMod
<1>2. q * b - 1 = (q - 1) * b + (b - 1)
  OBVIOUS
<1>3. q - 1 \in Int /\ b - 1 \in 0 .. b - 1
  OBVIOUS
<1>4. p * b + r = (q - 1) * b + (b - 1)
  BY <1>1, <1>2
<1> HIDE DEF p, r, n
<1> DEFINE m == q - 1
           s == b - 1
<1>5. m \in Int /\ s \in 0 .. b - 1 /\ p * b + r = m * b + s
  BY <1>3, <1>4
<1> HIDE DEF m, s
<1>6. p = m /\ r = s
  BY <1>1, <1>5, DivModUnique
<1> QED
  BY <1>6 DEF r, n, s

\* The remainder of the number before one that is no multiple.
LEMMA RemainderBefore ==
  ASSUME NEW b \in Nat \ {0}, NEW n \in Int, n % b # 0
  PROVE  (n - 1) % b = (n % b) - 1
<1> DEFINE q == n \div b
           r == n % b
           p == (n - 1) \div b
           s == (n - 1) % b
<1>1. q \in Int /\ r \in 0 .. b - 1 /\ n = q * b + r
  BY DivMod
<1>2. p \in Int /\ s \in 0 .. b - 1 /\ n - 1 = p * b + s
  <2>1. n - 1 \in Int
    OBVIOUS
  <2> QED
    BY <2>1, DivMod
<1>3. r # 0
  OBVIOUS
<1> HIDE DEF p, q, r, s
<1>4. r - 1 \in 0 .. b - 1
  BY <1>1, <1>3
<1>5. p * b + s = q * b + (r - 1)
  <2>1. p * b \in Int /\ q * b \in Int
    BY <1>1, <1>2
  <2> QED
    BY <1>1, <1>2, <2>1
<1> DEFINE t == r - 1
<1>6. t \in 0 .. b - 1 /\ p * b + s = q * b + t
  BY <1>4, <1>5
<1> HIDE DEF t
<1>7. s = t
  BY <1>1, <1>2, <1>6, DivModUnique
<1> QED
  BY <1>7 DEF r, s, t
=============================================================================
