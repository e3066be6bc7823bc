---------------------------- MODULE ReCOP_proofs ----------------------------
(***************************************************************************)
(* For words, memories and programs of every size, and packets arriving in *)
(* any cycle: the registers of ReCOP keep their types, program memory is   *)
(* never written, an interrupt writes one register and instructions are    *)
(* fetched in order; a request is served after the instruction in          *)
(* progress, and all an interrupt can do to a word for the network is to   *)
(* have it read from register 5 or 7.  While no packet interrupts it,      *)
(* ReCOP implements the atomic instructions of ReCOPIsa, and every         *)
(* DATACALL sends what the instruction before it loaded.                   *)
(***************************************************************************)
EXTENDS ReCOPSlots, InductionTheorems

(***************************************************************************)
(* Words.                                                                  *)
(***************************************************************************)
LEMMA PowerType ==
  ASSUME NEW n \in Nat \ {0}
  PROVE  2 ^ n \in Nat \ {0, 1}
<1> DEFINE m == n - 1
<1>1. m \in Nat /\ n = m + 1
  OBVIOUS
<1> HIDE DEF m
<1>2. Power(m) \in Nat \ {0} /\ Power(n) = 2 * Power(m)
  BY <1>1, Powers
<1>3. Power(n) \in Nat \ {0, 1}
  BY <1>2
<1> QED
  BY <1>3 DEF Power

\* How many words and addresses there are.
LEMMA Widths == {2 ^ W, 2 ^ PmBits, 2 ^ DmBits} \subseteq Nat \ {0, 1}
<1>1. W \in Nat \ {0} /\ PmBits \in Nat \ {0} /\ DmBits \in Nat \ {0}
  BY WidthAssumption
<1> QED
  BY <1>1, PowerType

LEMMA RemainderType ==
  ASSUME NEW a \in Int, NEW n \in Nat \ {0}
  PROVE  a % n \in 0 .. n - 1
  OBVIOUS

LEMMA AddressType ==
  ASSUME NEW word \in Word
  PROVE  ToPm(word) \in PmAddr /\ ToDm(word) \in DmAddr
<1> DEFINE p == 2 ^ PmBits
           d == 2 ^ DmBits
<1>1. p \in Nat \ {0} /\ d \in Nat \ {0} /\ word \in Int
  BY Widths DEF Word
<1>2. ToPm(word) = word % p /\ ToDm(word) = word % d
  BY DEF ToPm, ToDm
<1>3. PmAddr = 0 .. p - 1 /\ DmAddr = 0 .. d - 1
  BY DEF PmAddr, DmAddr
<1> HIDE DEF p, d
<1> QED
  BY <1>1, <1>2, <1>3, RemainderType

LEMMA WordZero == 0 \in Word /\ 0 \in PmAddr /\ 0 \in DmAddr /\ Word \subseteq Int
  BY Widths DEF Word, PmAddr, DmAddr

LEMMA NoInstructionType == NoInstruction \in Instruction
  BY WordZero DEF NoInstruction, Instruction, Mode, Opcode, Register

LEMMA IncreasedType ==
  ASSUME NEW word \in Word
  PROVE  Increased(word) \in Word
<1> DEFINE n == 2 ^ W
<1>1. n \in Nat \ {0} /\ word + 1 \in Int
  BY Widths DEF Word
<1>2. Increased(word) = (word + 1) % n /\ Word = 0 .. n - 1
  BY DEF Increased, Word
<1> HIDE DEF n
<1> QED
  BY <1>1, <1>2, RemainderType

(***************************************************************************)
(* Words and their bits.  The sum of powers of two that makes the word of  *)
(* a set of bits is a recursion over subsets, which takes the elements in  *)
(* an order of its own.                                                    *)
(***************************************************************************)
AnyOf(s) == CHOOSE x \in s : TRUE

\* What the recursion makes of its value for the set without one element.
PowerSum(s, without) == IF s = {} THEN 0 ELSE Power(AnyOf(s)) + without

\* The subsets with m elements at most, and a function that follows the
\* recursion on those.
Small(S, m) == {s \in SUBSET S : Cardinality(s) <= m}
Adds(f, S, m) == f = [s \in Small(S, m) |-> PowerSum(s, f[s \ {AnyOf(s)}])]

LEMMA Smaller ==
  ASSUME NEW S, IsFiniteSet(S), NEW m \in Nat, NEW s \in Small(S, m), NEW x \in s
  PROVE  /\ m # 0 /\ s \ {x} \in Small(S, m - 1)
         /\ IsFiniteSet(s) /\ Cardinality(s) \in Nat
<1>1. IsFiniteSet(s) /\ Cardinality(s) <= m /\ s \subseteq S
  BY FS_Subset DEF Small
<1>2. /\ IsFiniteSet(s \ {x}) /\ Cardinality(s \ {x}) = Cardinality(s) - 1
      /\ Cardinality(s) \in Nat /\ Cardinality(s \ {x}) \in Nat
  BY <1>1, FS_RemoveElement, FS_CardinalityType
<1> QED
  BY <1>1, <1>2 DEF Small

LEMMA AnyOfIn == \A s : s # {} => AnyOf(s) \in s
  BY DEF AnyOf

LEMMA AddsExist ==
  ASSUME NEW S, IsFiniteSet(S), NEW n \in Nat
  PROVE  \E f : Adds(f, S, n)
<1> DEFINE P == {m \in 0 .. n : \E f : Adds(f, S, m)}
<1>1. 0 \in P
  <2> DEFINE f == [s \in Small(S, 0) |-> 0]
  <2>1. ASSUME NEW s \in Small(S, 0) PROVE s = {}
    BY <2>1, Smaller
  <2>2. f = [s \in Small(S, 0) |-> PowerSum(s, f[s \ {AnyOf(s)}])]
    BY <2>1 DEF PowerSum
  <2> QED
    BY <2>2 DEF Adds
<1>2. ASSUME NEW m \in 0 .. n - 1, m \in P PROVE m + 1 \in P
  <2>1. PICK f : Adds(f, S, m)
    BY <1>2
  <2> DEFINE g == [s \in Small(S, m + 1) |->
                     IF s \in Small(S, m) THEN f[s] ELSE PowerSum(s, f[s \ {AnyOf(s)}])]
  <2>2. Small(S, m) \subseteq Small(S, m + 1)
    <3>1. \A s \in SUBSET S : Cardinality(s) \in Nat
      BY FS_Subset, FS_CardinalityType
    <3> QED
      BY <3>1 DEF Small
  <2>3. ASSUME NEW s \in Small(S, m + 1), s # {}
        PROVE  s \ {AnyOf(s)} \in Small(S, m) /\ g[s \ {AnyOf(s)}] = f[s \ {AnyOf(s)}]
    <3>1. AnyOf(s) \in s /\ m + 1 \in Nat /\ (m + 1) - 1 = m
      BY <2>3, AnyOfIn
    <3>2. s \ {AnyOf(s)} \in Small(S, m)
      BY <3>1, Smaller
    <3> QED
      BY <2>2, <3>2
  <2>4. ASSUME NEW s \in Small(S, m) PROVE f[s] = PowerSum(s, f[s \ {AnyOf(s)}])
    BY <2>1 DEF Adds
  <2>5. ASSUME NEW s \in Small(S, m + 1) PROVE g[s] = PowerSum(s, g[s \ {AnyOf(s)}])
    <3>1. g[s] = PowerSum(s, f[s \ {AnyOf(s)}])
      BY <2>4
    <3> HIDE DEF g
    <3> QED
      BY <2>3, <3>1 DEF PowerSum
  <2>6. g = [s \in Small(S, m + 1) |-> g[s]]
    OBVIOUS
  <2> HIDE DEF g
  <2>7. Adds(g, S, m + 1)
    BY <2>5, <2>6 DEF Adds
  <2>8. m + 1 \in 0 .. n
    OBVIOUS
  <2> QED
    BY <2>7, <2>8
<1>3. n \in P
  <2> HIDE DEF P
  <2>1. \A m \in 0 .. n : m \in P
    BY <1>1, <1>2, UpwardInduction
  <2> QED
    BY <2>1
<1> QED
  BY <1>3

\* WithOnes is the last value of such a function.
LEMMA WithOnesAdds ==
  ASSUME NEW S, IsFiniteSet(S)
  PROVE  \E f : Adds(f, S, Cardinality(S)) /\ WithOnes(S) = f[S]
<1> DEFINE n == Cardinality(S)
<1>1. n \in Nat
  BY FS_CardinalityType
<1>2. Small(S, n) = SUBSET S
  BY FS_Subset DEF Small
<1> DEFINE F == CHOOSE f : f = [s \in SUBSET S |-> PowerSum(s, f[s \ {AnyOf(s)}])]
<1>3. \E f : Adds(f, S, n)
  BY <1>1, AddsExist
<1>4. F = [s \in SUBSET S |-> PowerSum(s, F[s \ {AnyOf(s)}])]
  BY <1>2, <1>3 DEF Adds
<1>5. WithOnes(S) = F[S]
  BY DEF WithOnes, MapThenSumSet, MapThenFoldSet, PowerSum, AnyOf, Power
<1> QED
  BY <1>2, <1>4, <1>5 DEF Adds

\* A value of such a function is a natural, and whichever element is taken
\* out of the set, the value is its power and the value of the rest.
LEMMA AddsAny ==
  ASSUME NEW n \in Nat, NEW S \in SUBSET Nat, IsFiniteSet(S), NEW f, Adds(f, S, n)
  PROVE  \A s \in Small(S, n) :
           f[s] \in Nat /\ \A x \in s : f[s] = Power(x) + f[s \ {x}]
<1> DEFINE Whole(s) == f[s] \in Nat /\ \A x \in s : f[s] = Power(x) + f[s \ {x}]
           P == {m \in 0 .. n : \A s \in Small(S, m) : Whole(s)}
<1>1. \A s \in Small(S, n) : f[s] = PowerSum(s, f[s \ {AnyOf(s)}])
  BY DEF Adds
<1>2. ASSUME NEW m \in 0 .. n PROVE Small(S, m) \subseteq Small(S, n)
  <2>1. \A s \in SUBSET S : Cardinality(s) \in Nat
    BY FS_Subset, FS_CardinalityType
  <2> QED
    BY <2>1 DEF Small
<1>3. \A s \in Small(S, n) : \A x \in s : Power(x) \in Nat
  <2>1. \A s \in Small(S, n) : s \subseteq Nat
    BY DEF Small
  <2> QED
    BY <2>1, Powers
<1>4. 0 \in P
  <2>1. ASSUME NEW s \in Small(S, 0) PROVE Whole(s)
    <3>1. s = {}
      BY <2>1, Smaller
    <3>2. f[s] = 0
      BY <1>1, <1>2, <3>1 DEF PowerSum
    <3> QED
      BY <3>1, <3>2
  <2> QED
    BY <2>1
<1>5. ASSUME NEW m \in 0 .. n - 1, m \in P PROVE m + 1 \in P
  <2>1. m + 1 \in 0 .. n /\ m \in 0 .. n /\ m + 1 \in Nat /\ (m + 1) - 1 = m
    OBVIOUS
  <2>2. ASSUME NEW s \in Small(S, m + 1) PROVE Whole(s)
    <3>1. CASE s = {}
      <4>1. f[s] = 0
        BY <1>1, <1>2, <2>1, <3>1 DEF PowerSum
      <4> QED
        BY <3>1, <4>1
    <3>2. CASE s # {}
      <4> DEFINE y == AnyOf(s)
      <4>1. y \in s
        BY <3>2, AnyOfIn
      <4>2. s \in Small(S, n)
        BY <1>2, <2>1, <2>2
      <4>3. f[s] = Power(y) + f[s \ {y}]
        BY <1>1, <3>2, <4>2 DEF PowerSum
      <4> HIDE DEF y
      <4>4. \A x \in s : s \ {x} \in Small(S, m) /\ Whole(s \ {x}) /\ Power(x) \in Nat
        BY <1>3, <1>5, <2>1, <4>2, Smaller
      <4>5. f[s] \in Nat
        <5>1. Power(y) \in Nat /\ f[s \ {y}] \in Nat
          BY <4>1, <4>4
        <5> QED
          BY <4>3, <5>1
      <4>6. ASSUME NEW x \in s PROVE f[s] = Power(x) + f[s \ {x}]
        <5>1. CASE x = y
          BY <4>3, <5>1
        <5>2. CASE x # y
          <6> DEFINE r == (s \ {y}) \ {x}
          <6>1. x \in s \ {y} /\ y \in s \ {x} /\ (s \ {x}) \ {y} = r
            BY <4>1, <5>2
          <6>2. f[s \ {y}] = Power(x) + f[r] /\ f[s \ {x}] = Power(y) + f[r]
            BY <4>1, <4>4, <6>1
          <6>3. r \in Small(S, m)
            <7>1. m # 0 /\ r \in Small(S, m - 1)
              <8> DEFINE t == s \ {y}
              <8>1. t \in Small(S, m)
                BY <4>1, <4>4
              <8>2. x \in t /\ r = t \ {x}
                BY <6>1
              <8>3. m \in Nat
                BY <2>1
              <8> HIDE DEF t, r
              <8> QED
                BY <8>1, <8>2, <8>3, Smaller
            <7>2. Cardinality(r) \in Nat
              BY <7>1, FS_Subset, FS_CardinalityType DEF Small
            <7> QED
              BY <2>1, <7>1, <7>2 DEF Small
          <6>4. f[r] \in Nat
            BY <1>5, <6>3
          <6> HIDE DEF r
          <6> QED
            BY <4>1, <4>3, <4>4, <6>2, <6>4
        <5> QED
          BY <5>1, <5>2
      <4> QED
        BY <4>5, <4>6
    <3> QED
      BY <3>1, <3>2
  <2> QED
    BY <2>1, <2>2
<1>6. n \in P
  <2> HIDE DEF P
  <2>1. \A m \in 0 .. n : m \in P
    BY <1>4, <1>5, UpwardInduction
  <2> QED
    BY <2>1
<1> QED
  BY <1>6

\* Different powers below the n-th add up to less than it.
LEMMA AddsBelow ==
  ASSUME NEW S \in SUBSET Nat, IsFiniteSet(S), NEW f, Adds(f, S, Cardinality(S)), NEW n \in Nat
  PROVE  \A s \in SUBSET S : s \subseteq 0 .. n - 1 => f[s] \in 0 .. Power(n) - 1
<1> DEFINE Low(m) == \A s \in SUBSET S : s \subseteq 0 .. m - 1 => f[s] \in 0 .. Power(m) - 1
           P == {m \in 0 .. n : Low(m)}
<1>1. Small(S, Cardinality(S)) = SUBSET S /\ Cardinality(S) \in Nat
  BY FS_Subset, FS_CardinalityType DEF Small
<1>2. \A s \in SUBSET S : f[s] \in Nat /\ \A x \in s : f[s] = Power(x) + f[s \ {x}]
  <2>1. \A s \in Small(S, Cardinality(S)) :
           f[s] \in Nat /\ \A x \in s : f[s] = Power(x) + f[s \ {x}]
    BY <1>1, AddsAny
  <2> QED
    BY <1>1, <2>1
<1>3. 0 \in P
  <2>1. ASSUME NEW s \in SUBSET S, s \subseteq 0 .. 0 - 1 PROVE f[s] \in 0 .. Power(0) - 1
    <3>1. s = {}
      BY <2>1
    <3>2. f[s] = 0
      BY <1>1, <3>1 DEF Adds, PowerSum
    <3> QED
      BY <3>2, Powers
  <2> QED
    BY <2>1
<1>4. ASSUME NEW m \in 0 .. n - 1, m \in P PROVE m + 1 \in P
  <2>1. Power(m) \in Nat \ {0} /\ Power(m + 1) = 2 * Power(m)
    BY Powers
  <2>2. ASSUME NEW s \in SUBSET S, s \subseteq 0 .. (m + 1) - 1
        PROVE  f[s] \in 0 .. Power(m + 1) - 1
    <3>1. s \ {m} \in SUBSET S /\ s \ {m} \subseteq 0 .. m - 1
      BY <2>2
    <3>2. f[s \ {m}] \in 0 .. Power(m) - 1
      BY <1>4, <3>1
    <3>3. CASE m \in s
      BY <1>2, <2>1, <3>2, <3>3
    <3>4. CASE m \notin s
      <4>1. s \subseteq 0 .. m - 1
        BY <2>2, <3>4
      <4>2. f[s] \in 0 .. Power(m) - 1
        BY <1>4, <4>1
      <4> QED
        BY <2>1, <4>2
    <3> QED
      BY <3>3, <3>4
  <2>3. m + 1 \in 0 .. n
    OBVIOUS
  <2> QED
    BY <2>2, <2>3
<1>5. n \in P
  <2> HIDE DEF P
  <2>1. \A m \in 0 .. n : m \in P
    BY <1>3, <1>4, UpwardInduction
  <2> QED
    BY <2>1
<1> QED
  BY <1>5

\* A set of bit positions makes a word, at every width.
THEOREM BitsMakeWords == \A S \in SUBSET Bit : WithOnes(S) \in Word
<1> SUFFICES ASSUME NEW S \in SUBSET Bit PROVE WithOnes(S) \in Word
  OBVIOUS
<1>1. W \in Nat /\ W - 1 \in Int /\ Bit = 0 .. W - 1 /\ Bit \subseteq Nat
  BY WidthAssumption DEF Bit
<1>2. IsFiniteSet(S)
  <2>1. IsFiniteSet(Bit)
    BY <1>1, FS_Interval
  <2> QED
    BY <2>1, FS_Subset
<1>3. PICK f : Adds(f, S, Cardinality(S)) /\ WithOnes(S) = f[S]
  BY <1>2, WithOnesAdds
<1>4. S \in SUBSET Nat /\ S \in SUBSET S /\ S \subseteq 0 .. W - 1
  BY <1>1
<1>5. f[S] \in 0 .. Power(W) - 1
  BY <1>1, <1>2, <1>3, <1>4, AddsBelow
<1> QED
  BY <1>3, <1>5 DEF Word, Power

LEMMA AluType ==
  ASSUME NEW op \in {"add", "sub", "orr", "andd"}, NEW a \in Word, NEW b \in Word
  PROVE  AluOut(op, a, b) \in Word
<1>1. CASE op \in {"add", "sub"}
  BY <1>1, Widths, RemainderType DEF Word, AluOut
<1>2. CASE op \in {"orr", "andd"}
  <2>1. Ones(a) \cup Ones(b) \in SUBSET Bit /\ Ones(a) \cap Ones(b) \in SUBSET Bit
    BY DEF Ones
  <2> QED
    BY <1>2, <2>1, BitsMakeWords DEF AluOut
<1> QED
  BY <1>1, <1>2

(***************************************************************************)
(* The control unit.                                                       *)
(***************************************************************************)
Flag == {"ir", "pc", "rf", "sop", "dpcr", "reset", "resetIrq", "clrZ", "we", "selX"}

LEMMA FlagType ==
  ASSUME NEW c \in Controls, NEW f \in Flag, NEW v \in BOOLEAN
  PROVE  [c EXCEPT ![f] = v] \in Controls
  BY DEF Controls, Flag

LEMMA SelectType ==
  ASSUME NEW c \in Controls
  PROVE  /\ \A v \in {"ir", "dm", "rx", "alu", "max", "dprr"} : [c EXCEPT !.rfMux = v] \in Controls
         /\ \A v \in {0, 7} : [c EXCEPT !.selZ = v] \in Controls
         /\ \A v \in {"pc", "rx", "rz", "ir"} : [c EXCEPT !.mAddr = v] \in Controls
         /\ \A v \in {"pm", "dm"} : [c EXCEPT !.memSel = v] \in Controls
         /\ \A v \in {"ir", "rx", "pc"} : [c EXCEPT !.memData = v] \in Controls
         /\ \A v \in {"rx", "ir", "const", "dm"} : [c EXCEPT !.pcMux = v] \in Controls
         /\ \A v \in {"add", "sub", "orr", "andd"} : [c EXCEPT !.aluOp = v] \in Controls
         /\ \A v \in {"rx", "ir"} : [c EXCEPT !.aluA = v] \in Controls
         /\ \A v \in {"rx", "rz"} : [c EXCEPT !.aluB = v] \in Controls
         /\ \A v \in {"rz", "ir"} : [c EXCEPT !.dpcrMux = v] \in Controls
<1>1. \A v \in {"ir", "dm", "rx", "alu", "max", "dprr"} : [c EXCEPT !.rfMux = v] \in Controls
  BY DEF Controls
<1>2. \A v \in {0, 7} : [c EXCEPT !.selZ = v] \in Controls
  BY DEF Controls
<1>3. \A v \in {"pc", "rx", "rz", "ir"} : [c EXCEPT !.mAddr = v] \in Controls
  BY DEF Controls
<1>4. \A v \in {"pm", "dm"} : [c EXCEPT !.memSel = v] \in Controls
  BY DEF Controls
<1>5. \A v \in {"ir", "rx", "pc"} : [c EXCEPT !.memData = v] \in Controls
  BY DEF Controls
<1>6. \A v \in {"rx", "ir", "const", "dm"} : [c EXCEPT !.pcMux = v] \in Controls
  BY DEF Controls
<1>7. \A v \in {"add", "sub", "orr", "andd"} : [c EXCEPT !.aluOp = v] \in Controls
  BY DEF Controls
<1>8. \A v \in {"rx", "ir"} : [c EXCEPT !.aluA = v] \in Controls
  BY DEF Controls
<1>9. \A v \in {"rx", "rz"} : [c EXCEPT !.aluB = v] \in Controls
  BY DEF Controls
<1>10. \A v \in {"rz", "ir"} : [c EXCEPT !.dpcrMux = v] \in Controls
  BY DEF Controls
<1> QED
  BY <1>1, <1>2, <1>3, <1>4, <1>5, <1>6, <1>7, <1>8, <1>9, <1>10

LEMMA StoreType ==
  ASSUME NEW c \in Controls, NEW data \in {"ir", "rx", "pc"}, NEW addr \in {"rz", "ir"}
  PROVE  Store(c, data, addr) \in Controls
  BY FlagType, SelectType DEF Store, Flag

LEMMA JumpType ==
  ASSUME NEW c \in Controls, NEW target \in {"rx", "ir", "const"}
  PROVE  Jump(c, target) \in Controls
  BY FlagType, SelectType DEF Jump, Flag

LEMMA AluControlsType ==
  ASSUME NEW c \in Controls, NEW op \in {"add", "sub", "orr", "andd"},
         NEW a \in {"rx", "ir"}, NEW b \in {"rx", "rz"}, NEW out \in {"ir", "alu"}
  PROVE  Alu(c, op, a, b, out) \in Controls
  BY FlagType, SelectType DEF Alu, Flag

LEMMA ExecuteDirectType ==
  ASSUME NEW c \in Controls, NEW op
  PROVE  ExecuteDirect(c, op) \in Controls
  BY FlagType, SelectType, StoreType DEF ExecuteDirect, Flag

LEMMA ExecuteIndirectType ==
  ASSUME NEW c \in Controls, NEW op
  PROVE  ExecuteIndirect(c, op) \in Controls
  BY FlagType, SelectType, StoreType, JumpType, AluControlsType DEF ExecuteIndirect, Flag

LEMMA ExecuteImmediateType ==
  ASSUME NEW c \in Controls, NEW op, NEW zero \in BOOLEAN
  PROVE  ExecuteImmediate(c, op, zero) \in Controls
  BY FlagType, SelectType, StoreType, JumpType, AluControlsType DEF ExecuteImmediate, Flag

LEMMA ExecuteType ==
  ASSUME NEW c \in Controls, NEW i \in Instruction, NEW zero \in BOOLEAN
  PROVE  Execute(c, i, zero) \in Controls
<1>1. i.am \in Mode
  BY DEF Instruction
<1> QED
  BY <1>1, FlagType, ExecuteDirectType, ExecuteIndirectType, ExecuteImmediateType
     DEF Execute, Flag, Mode

\* The outputs have their types in every state.
LEMMA ControlType ==
  ASSUME NEW c \in Controls, NEW state \in FsmState,
         NEW i \in Instruction, NEW zero \in BOOLEAN
  PROVE  Control(c, state, i, zero) \in Controls
<1>1. CASE state \in {"Ini", "T0", "N1", "N2", "T1"}
  BY <1>1, FlagType, SelectType DEF Control, Flag
<1>2. CASE state = "T2"
  BY <1>2, FlagType, ExecuteType DEF Control, Flag
<1>3. CASE state = "T3"
  BY <1>3, FlagType, JumpType DEF Control, Flag
<1> QED
  BY <1>1, <1>2, <1>3 DEF FsmState

LEMMA NextStateType ==
  ASSUME NEW state \in FsmState, NEW called, NEW delivered
  PROVE  NextState(state, called, delivered) \in FsmState
  BY DEF NextState, FsmState

(***************************************************************************)
(* The data path.                                                          *)
(***************************************************************************)
LEMMA ReadType ==
  ASSUME CoreTypeOK, NEW c \in Controls
  PROVE  /\ SelX(c) \in Register /\ SelZ(c) \in Register
         /\ Rx(c) \in Word /\ Rz(c) \in Word
<1>1. ir.rx \in Register /\ ir.rz \in Register
  BY DEF CoreTypeOK, Instruction
<1>2. c.selZ \in {0, 7}
  BY DEF Controls
<1>3. SelX(c) \in Register /\ SelZ(c) \in Register
  BY <1>1, <1>2 DEF SelX, SelZ, Register
<1> QED
  BY <1>3 DEF CoreTypeOK, Rx, Rz

LEMMA WiresType ==
  ASSUME CoreTypeOK, NEW c \in Controls
  PROVE  /\ AluResult(c) \in Word /\ RfInput(c) \in Word /\ PcInput(c) \in Word
         /\ Address(c) \in Word /\ ToMemory(c) \in Word
<1>1. ir.operand \in Word
  BY DEF CoreTypeOK, Instruction
<1>2. Rx(c) \in Word /\ Rz(c) \in Word
  BY ReadType
<1>3. pc \in Word /\ dmOut \in Word /\ 0 \in Word
  BY WordZero DEF CoreTypeOK
<1>4. AluResult(c) \in Word
  <2>1. c.aluOp \in {"add", "sub", "orr", "andd"}
    BY DEF Controls
  <2> QED
    BY <1>1, <1>2, <2>1, AluType DEF AluResult
<1>5. RfInput(c) \in Word
  <2>1. c.rfMux \in {"ir", "dm", "rx", "alu", "max", "dprr"}
    BY DEF Controls
  <2> QED
    BY <1>1, <1>2, <1>3, <1>4, <2>1 DEF RfInput, Larger
<1>6. PcInput(c) \in Word
  <2>1. c.pcMux \in {"rx", "ir", "const", "dm"}
    BY DEF Controls
  <2> QED
    BY <1>1, <1>2, <1>3, <2>1, IncreasedType DEF PcInput
<1>7. Address(c) \in Word
  <2>1. c.mAddr \in {"pc", "rx", "rz", "ir"}
    BY DEF Controls
  <2> QED
    BY <1>1, <1>2, <1>3, <2>1 DEF Address
<1>8. ToMemory(c) \in Word
  <2>1. c.memData \in {"ir", "rx", "pc"}
    BY DEF Controls
  <2> QED
    BY <1>1, <1>2, <1>3, <2>1 DEF ToMemory
<1> QED
  BY <1>4, <1>5, <1>6, <1>7, <1>8

LEMMA CoreInitType == CoreInit => CoreTypeOK
<1> SUFFICES ASSUME CoreInit PROVE CoreTypeOK
  OBVIOUS
<1>1. cu \in Controls
  BY DEF CoreInit, PowerUp, Controls
<1>2. ir \in Instruction /\ pmOut \in Instruction
  BY NoInstructionType DEF CoreInit
<1>3. pm \in [PmAddr -> Instruction] /\ dm \in [DmAddr -> Word]
  BY CoreAssumption DEF CoreInit
<1> QED
  BY <1>1, <1>2, <1>3, WordZero DEF CoreInit, CoreTypeOK, FsmState

LEMMA RegistersType ==
  ASSUME CoreTypeOK, NEW c \in Controls, NEW signal \in BOOLEAN, Registers(c, signal)
  PROVE  /\ pc' \in Word /\ ir' \in Instruction /\ rf' \in [Register -> Word]
         /\ z' \in BOOLEAN /\ dpcr' \in [hi : Word, lo : Word] /\ sop' \in Word
         /\ dpc' \in BOOLEAN /\ irq' \in BOOLEAN
<1>1. pc' \in Word
  BY WiresType, WordZero DEF Registers, Register1, CoreTypeOK
<1>2. ir' \in Instruction
  BY NoInstructionType DEF Registers, Register1, CoreTypeOK
<1>3. rf' \in [Register -> Word]
  BY WiresType DEF Registers, CoreTypeOK
<1>4. dpcr' \in [hi : Word, lo : Word]
  <2>1. Rx(c) \in Word /\ (IF c.dpcrMux = "rz" THEN Rz(c) ELSE ir.operand) \in Word
    BY ReadType DEF CoreTypeOK, Instruction
  <2> QED
    BY <2>1, WordZero DEF Registers, Register1, CoreTypeOK
<1>5. sop' \in Word
  BY ReadType DEF Registers, Register1, CoreTypeOK
<1>6. z' \in BOOLEAN /\ dpc' \in BOOLEAN /\ irq' \in BOOLEAN
  BY DEF Registers, Register1, CoreTypeOK
<1> QED
  BY <1>1, <1>2, <1>3, <1>4, <1>5, <1>6

LEMMA MemoriesType ==
  ASSUME CoreTypeOK, NEW c \in Controls, Memories(c)
  PROVE  /\ pm' \in [PmAddr -> Instruction] /\ pmAddr' \in PmAddr /\ pmOut' \in Instruction
         /\ dm' \in [DmAddr -> Word] /\ dmAddr' \in DmAddr /\ dmOut' \in Word
<1>1. ToPm(Address(c)) \in PmAddr /\ ToDm(Address(c)) \in DmAddr
  BY WiresType, AddressType
<1>2. pmAddr' \in PmAddr /\ dmAddr' \in DmAddr
  BY <1>1, WordZero DEF Memories
<1>3. pmOut' \in Instruction /\ dmOut' \in Word
  BY DEF Memories, CoreTypeOK
<1>4. pm' \in [PmAddr -> Instruction]
  <2>1. [pmOut EXCEPT !.operand = ToMemory(c)] \in Instruction
    BY WiresType DEF CoreTypeOK, Instruction
  <2> QED
    BY <2>1 DEF Memories, CoreTypeOK
<1>5. dm' \in [DmAddr -> Word]
  BY WiresType DEF Memories, CoreTypeOK
<1> QED
  BY <1>2, <1>3, <1>4, <1>5

LEMMA CoreNextType == CoreTypeOK /\ [CoreNext]_coreVars => CoreTypeOK'
<1> SUFFICES ASSUME CoreTypeOK, [CoreNext]_coreVars PROVE CoreTypeOK'
  OBVIOUS
<1>1. CASE CoreNext
  <2>1. PICK signal \in BOOLEAN : Cycle(signal)
    BY <1>1, CoreAssumption DEF CoreNext
  <2>2. fsm' \in FsmState
    BY <2>1, NextStateType DEF Cycle, CoreTypeOK
  <2>3. cu' \in Controls
    BY <2>1, <2>2, ControlType DEF Cycle, CoreTypeOK
  <2> QED
    BY <2>1, <2>2, <2>3, RegistersType, MemoriesType DEF Cycle, CoreTypeOK
<1>2. CASE UNCHANGED coreVars
  BY <1>2 DEF coreVars, CoreTypeOK
<1> QED
  BY <1>1, <1>2

\* Every register, and every output of the control unit, keeps its type:
\* no select ever names a source that is not there.
THEOREM CoreTypeCorrect == CoreSpec => []CoreTypeOK
  BY CoreInitType, CoreNextType, PTL DEF CoreSpec

(***************************************************************************)
(* The latched enables.  Outside of T2 no memory is written; in T2 only    *)
(* data memory is; and outside of T2 the register file is written only     *)
(* through the x select an interrupt raised.                               *)
(***************************************************************************)
Enables ==
  /\ cu.we => fsm = "T2" /\ cu.memSel = "dm"
  /\ cu.rf /\ fsm # "T2" => cu.selX /\ fsm # "T3"

LEMMA ExecuteWrites ==
  ASSUME NEW c \in Controls, NEW i \in Instruction, NEW zero \in BOOLEAN, ~ c.we,
         Execute(c, i, zero).we
  PROVE  Execute(c, i, zero).memSel = "dm"
<1>1. CASE i.am = "inherent"
  BY <1>1 DEF Execute, Controls
<1>2. CASE i.am = "direct"
  BY <1>2 DEF Execute, ExecuteDirect, Store, Controls
<1>3. CASE i.am = "indirect"
  BY <1>3 DEF Execute, ExecuteIndirect, Store, Jump, Alu, Controls
<1>4. CASE i.am = "immediate"
  BY <1>4 DEF Execute, ExecuteImmediate, Store, Jump, Alu, Controls
<1> QED
  BY <1>1, <1>2, <1>3, <1>4 DEF Instruction, Mode

LEMMA EnablesInit == CoreInit => Enables
  BY DEF CoreInit, PowerUp, Enables

LEMMA EnablesNext == CoreTypeOK /\ Enables /\ [CoreNext]_coreVars => Enables'
<1> SUFFICES ASSUME CoreTypeOK, Enables, [CoreNext]_coreVars PROVE Enables'
  OBVIOUS
<1>1. CASE CoreNext
  <2>1. PICK signal \in BOOLEAN : Cycle(signal)
    BY <1>1, CoreAssumption DEF CoreNext
  <2>2. fsm' = NextState(fsm, dpc, irq) /\ cu' = Control(cu, fsm', ir, z)
    BY <2>1 DEF Cycle
  <2>3. fsm \in FsmState /\ cu \in Controls /\ ir \in Instruction /\ z \in BOOLEAN
    BY DEF CoreTypeOK
  <2>4. CASE fsm = "T0"
    BY <2>2, <2>3, <2>4 DEF NextState, Control, Controls, Enables
  <2>5. CASE fsm = "T1"
    <3> DEFINE c == [cu EXCEPT !.pc = FALSE, !.ir = FALSE]
    <3>1. c \in Controls
      BY <2>3, FlagType DEF Flag
    <3>2. c.we = cu.we
      BY <2>3 DEF Controls
    <3>3. fsm' = "T2" /\ cu' = Execute(c, ir, z)
      BY <2>2, <2>5 DEF NextState, Control
    <3> HIDE DEF c
    <3> QED
      BY <2>3, <2>5, <3>1, <3>2, <3>3, ExecuteWrites DEF Enables
  <2>6. CASE fsm = "T2"
    BY <2>2, <2>3, <2>6 DEF NextState, Control, Jump, Controls, Enables
  <2>7. CASE fsm \in {"T3", "N2", "Ini"}
    BY <2>2, <2>3, <2>7 DEF NextState, Control, Controls, Enables
  <2>8. CASE fsm = "N1"
    BY <2>2, <2>3, <2>8 DEF NextState, Control, Controls, Enables
  <2> QED
    BY <2>3, <2>4, <2>5, <2>6, <2>7, <2>8 DEF FsmState
<1>2. CASE UNCHANGED coreVars
  BY <1>2 DEF coreVars, Enables
<1> QED
  BY <1>1, <1>2

LEMMA EnablesHold == CoreSpec => [](CoreTypeOK /\ Enables)
  BY CoreInitType, CoreNextType, EnablesInit, EnablesNext, PTL DEF CoreSpec

\* Whatever the program does and whenever packets arrive, no step writes
\* program memory, though its write enable is that of data memory.
THEOREM ProgramKept == CoreSpec => ProgramUntouched
<1>1. Enables' /\ [CoreNext]_coreVars => [pm' = pm]_coreVars
  BY DEF CoreNext, Cycle, Memories, Enables, coreVars
<1> QED
  BY <1>1, EnablesHold, PTL DEF CoreSpec, ProgramUntouched

\* From the acceptance of an interrupt to the execution of the next
\* instruction, the register file changes at most in the one register that
\* the latched rf_value_sel_z names.
THEOREM InterruptHarmless == CoreSpec => InterruptWritesOne
<1> DEFINE Harmless ==
      fsm' \in {"N1", "N2", "T0", "T1"} =>
        \A r \in Register \ {cu.selZ} : rf'[r] = rf[r]
<1>1. CoreTypeOK /\ Enables' /\ [CoreNext]_coreVars => [Harmless]_coreVars
  <2> SUFFICES ASSUME CoreTypeOK, Enables', [CoreNext]_coreVars PROVE [Harmless]_coreVars
    OBVIOUS
  <2>1. CASE CoreNext
    <3> SUFFICES ASSUME fsm' \in {"N1", "N2", "T0", "T1"},
                        NEW r \in Register \ {cu.selZ}
                 PROVE  rf'[r] = rf[r]
      OBVIOUS
    <3>1. PICK signal \in BOOLEAN : Cycle(signal)
      BY <2>1, CoreAssumption DEF CoreNext
    <3>2. cu'.selZ = cu.selZ
      BY <3>1 DEF Cycle, Control, Controls, CoreTypeOK
    <3>3. CASE cu'.rf
      <4>1. SelZ(cu') = cu.selZ
        BY <3>2, <3>3 DEF Enables, SelZ
      <4>2. rf' = [rf EXCEPT ![cu.selZ] = RfInput(cu')]
        BY <3>1, <3>3, <4>1 DEF Cycle, Registers
      <4> QED
        BY <4>2 DEF CoreTypeOK
    <3>4. CASE ~ cu'.rf
      BY <3>1, <3>4 DEF Cycle, Registers
    <3> QED
      BY <3>3, <3>4
  <2>2. CASE UNCHANGED coreVars
    BY <2>2
  <2> QED
    BY <2>1, <2>2
<1> QED
  BY <1>1, EnablesHold, PTL DEF CoreSpec, InterruptWritesOne

(***************************************************************************)
(* Requests for an interrupt.                                              *)
(***************************************************************************)
\* The latched reset of irq is up from N2 to the next instruction, and irq
\* is down as long; before the first instruction dpc is.
Listening ==
  /\ fsm \in {"T1", "T2", "T3"} => ~ cu.resetIrq
  /\ cu.resetIrq \/ fsm = "N2" => ~ irq
  /\ fsm = "Ini" => ~ dpc

\* The cycles from a state to the end of its instruction.
Left(state) == CASE state = "T1" -> 3 [] state = "T2" -> 2 [] state = "T3" -> 1 [] OTHER -> 0

\* A pending request stays, and each cycle takes the instruction it waits
\* for nearer to its end, until the interrupt is accepted.
RequestHeld ==
  [][dpc /\ irq /\ fsm # "N1" =>
       \/ fsm' = "N1"
       \/ dpc' /\ irq' /\ fsm \in {"T1", "T2", "T3"} /\ Left(fsm') < Left(fsm)]_coreVars

LEMMA ExecuteListens ==
  ASSUME NEW c \in Controls, NEW i \in Instruction, NEW zero \in BOOLEAN
  PROVE  Execute(c, i, zero).resetIrq = c.resetIrq
<1>1. CASE i.am = "inherent"
  BY <1>1 DEF Execute, Controls
<1>2. CASE i.am = "direct"
  BY <1>2 DEF Execute, ExecuteDirect, Store, Controls
<1>3. CASE i.am = "indirect"
  BY <1>3 DEF Execute, ExecuteIndirect, Store, Jump, Alu, Controls
<1>4. CASE i.am = "immediate"
  BY <1>4 DEF Execute, ExecuteImmediate, Store, Jump, Alu, Controls
<1> QED
  BY <1>1, <1>2, <1>3, <1>4 DEF Instruction, Mode

LEMMA ListeningInit == CoreInit => Listening
  BY DEF CoreInit, PowerUp, Listening

LEMMA ListeningStep ==
  ASSUME CoreTypeOK, Listening, NEW signal \in BOOLEAN, Cycle(signal)
  PROVE  /\ Listening'
         /\ dpc /\ irq /\ fsm # "N1" =>
              \/ fsm' = "N1"
              \/ dpc' /\ irq' /\ fsm \in {"T1", "T2", "T3"} /\ Left(fsm') < Left(fsm)
<1>1. fsm' = NextState(fsm, dpc, irq) /\ cu' = Control(cu, fsm', ir, z)
  BY DEF Cycle
<1>2. /\ fsm \in FsmState /\ cu \in Controls /\ ir \in Instruction /\ z \in BOOLEAN
      /\ irq \in BOOLEAN /\ dpc \in BOOLEAN
  BY DEF CoreTypeOK
<1>3. /\ cu'.resetIrq => ~ irq'
      /\ ~ cu'.resetIrq /\ irq => irq'
      /\ dpc => dpc'
  BY DEF Cycle, Registers, Register1
<1>4. CASE fsm = "T1"
  <2> DEFINE c == [cu EXCEPT !.pc = FALSE, !.ir = FALSE]
  <2>1. c \in Controls
    BY <1>2, FlagType DEF Flag
  <2>2. c.resetIrq = cu.resetIrq
    BY <1>2 DEF Controls
  <2>3. cu' = Execute(c, ir, z) /\ fsm' = "T2"
    BY <1>1, <1>4 DEF Control, NextState
  <2> HIDE DEF c
  <2>4. ~ cu'.resetIrq
    BY <1>2, <1>4, <2>1, <2>2, <2>3, ExecuteListens DEF Listening
  <2> QED
    BY <1>3, <1>4, <2>3, <2>4 DEF Listening, Left
<1>5. CASE fsm \in {"T2", "T3"}
  <2>1. fsm' = (IF fsm = "T2" THEN "T3" ELSE "T0")
    BY <1>1, <1>5 DEF NextState
  <2>2. cu'.resetIrq = cu.resetIrq
    BY <1>1, <1>2, <2>1 DEF Control, Jump, Controls
  <2>3. ~ cu'.resetIrq
    BY <1>5, <2>2 DEF Listening
  <2> QED
    BY <1>3, <1>5, <2>1, <2>3 DEF Listening, Left
<1>6. CASE fsm = "T0" /\ dpc /\ irq
  <2>1. fsm' = "N1"
    BY <1>1, <1>6 DEF NextState
  <2> QED
    BY <1>3, <2>1 DEF Listening
<1>7. CASE fsm = "T0" /\ ~ (dpc /\ irq)
  <2>1. fsm' = "T1"
    BY <1>1, <1>7 DEF NextState
  <2>2. ~ cu'.resetIrq
    BY <1>1, <1>2, <2>1 DEF Control, Controls
  <2> QED
    BY <1>7, <2>1, <2>2 DEF Listening
<1>8. CASE fsm = "N1"
  <2>1. fsm' = "N2"
    BY <1>1, <1>8 DEF NextState
  <2>2. cu'.resetIrq
    BY <1>1, <1>2, <2>1 DEF Control, Controls
  <2> QED
    BY <1>3, <1>8, <2>1, <2>2 DEF Listening
<1>9. CASE fsm \in {"N2", "Ini"}
  <2>1. fsm' = "T0"
    BY <1>1, <1>9 DEF NextState
  <2>2. ~ (dpc /\ irq)
    BY <1>9 DEF Listening
  <2> QED
    BY <1>3, <2>1, <2>2 DEF Listening
<1> QED
  BY <1>2, <1>4, <1>5, <1>6, <1>7, <1>8, <1>9 DEF FsmState

\* Once the program has made a DATACALL, no request that irq holds is lost or
\* waits for more than the instruction in progress: at most four cycles,
\* whatever that instruction is.  (A delivery announced while the latched
\* reset is up, from N2 to the next T1, leaves no request to hold.)
THEOREM RequestsHeld == CoreSpec => RequestHeld
<1> DEFINE Held ==
      dpc /\ irq /\ fsm # "N1" =>
        \/ fsm' = "N1"
        \/ dpc' /\ irq' /\ fsm \in {"T1", "T2", "T3"} /\ Left(fsm') < Left(fsm)
<1>1. CoreTypeOK /\ Listening /\ [CoreNext]_coreVars => Listening' /\ [Held]_coreVars
  <2> SUFFICES ASSUME CoreTypeOK, Listening, [CoreNext]_coreVars
               PROVE  Listening' /\ [Held]_coreVars
    OBVIOUS
  <2>1. CASE CoreNext
    BY <2>1, CoreAssumption, ListeningStep DEF CoreNext
  <2>2. CASE UNCHANGED coreVars
    BY <2>2 DEF coreVars, Listening
  <2> QED
    BY <2>1, <2>2
<1> QED
  BY <1>1, ListeningInit, CoreTypeCorrect, PTL DEF CoreSpec, RequestHeld

(***************************************************************************)
(* The fetch.  The word at pc appears in pmOut two falling edges after pc  *)
(* has settled.                                                            *)
(***************************************************************************)
\* The address before the program counter is the one it was at.
LEMMA AddressBefore ==
  ASSUME NEW word \in Word
  PROVE  ToPm(Increased(word) - 1) = ToPm(word)
<1> DEFINE n == 2 ^ W
           b == 2 ^ PmBits
<1>1. n \in Nat \ {0, 1} /\ b \in Nat \ {0, 1}
  BY Widths
<1>2. PICK q \in Nat : n = q * b
  BY WidthAssumption, PowerDivides DEF Power
<1>3. word \in 0 .. n - 1 /\ Increased(word) = (word + 1) % n
  BY DEF Word, Increased
<1>4. \A w \in Int : ToPm(w) = w % b
  BY DEF ToPm
<1> HIDE DEF n, b
<1>5. CASE word = n - 1
  <2>1. Increased(word) = 0
    <3>1. word + 1 = n
      BY <1>1, <1>5
    <3> QED
      BY <1>1, <1>3, <3>1
  <2>2. ToPm(word) = b - 1
    <3>1. word = q * b - 1 /\ word \in Int
      BY <1>1, <1>2, <1>5
    <3>2. (q * b - 1) % b = b - 1
      BY <1>1, LastRemainder
    <3> QED
      BY <1>4, <3>1, <3>2
  <2>3. (0 - 1) % b = b - 1
    BY <1>1
  <2> QED
    BY <1>4, <2>1, <2>2, <2>3
<1>6. CASE word # n - 1
  <2>1. word + 1 \in 0 .. n - 1 /\ (word + 1) - 1 = word
    BY <1>1, <1>3, <1>6
  <2>2. (word + 1) % n = word + 1
    BY <1>1, <2>1
  <2> QED
    BY <1>3, <2>1, <2>2
<1> QED
  BY <1>5, <1>6

SteadyProgram(p) == \A a \in PmAddr : Steady(p[a])

\* Until the program counter first counts, the reset holds it at zero, where
\* the memory that is not selected has its address too.
Started ==
  /\ cu.reset \/ cu.memSel = "dm" => pc = 0 /\ fsm \in {"Ini", "T0", "N1", "N2"}
  /\ cu.mAddr = "pc" /\ ~ cu.we
  /\ fsm \notin {"T1", "T2"} => ~ cu.pc
  /\ fsm # "T1" => ~ cu.ir

\* A steady program is fetched from the program counter.
Pipeline ==
  SteadyProgram(pm) =>
    /\ Started
    /\ Steady(ir)
    /\ fsm \in {"Ini", "T3", "T0", "N1", "N2"} => pmAddr = ToPm(pc)
    /\ fsm \in {"T0", "N1", "N2"} => pmOut = pm[ToPm(pc)]
    /\ fsm = "T1" => ir = pm[ToPm(pc - 1)]

LEMMA ToPmZero == ToPm(0) = 0
<1> DEFINE b == 2 ^ PmBits
<1>1. b \in Nat \ {0} /\ ToPm(0) = 0 % b
  BY Widths DEF ToPm
<1> HIDE DEF b
<1> QED
  BY <1>1

LEMMA PipelineInit == CoreInit => Pipeline
<1> SUFFICES ASSUME CoreInit PROVE Pipeline
  OBVIOUS
<1>1. Steady(ir)
  BY DEF CoreInit, NoInstruction, Steady
<1> QED
  BY <1>1, ToPmZero DEF CoreInit, PowerUp, Pipeline, Started

\* A steady instruction changes neither the address of program memory nor
\* its selection.
LEMMA SteadyExecute ==
  ASSUME NEW c \in Controls, NEW i \in Instruction, Steady(i), NEW zero
  PROVE  LET d == Execute(c, i, zero) IN
         /\ d.mAddr = c.mAddr /\ d.memSel = c.memSel /\ d.we = c.we
         /\ d.reset = c.reset /\ d.ir = c.ir
<1>1. CASE i.am = "inherent"
  BY <1>1 DEF Execute, Controls
<1>2. CASE i.am = "direct"
  BY <1>2 DEF Execute, ExecuteDirect, Controls, Steady
<1>3. CASE i.am = "indirect"
  BY <1>3 DEF Execute, ExecuteIndirect, Alu, Jump, Controls, Steady
<1>4. CASE i.am = "immediate"
  BY <1>4 DEF Execute, ExecuteImmediate, Alu, Jump, Controls, Steady
<1> QED
  BY <1>1, <1>2, <1>3, <1>4 DEF Instruction, Mode

LEMMA PipelineStep ==
  ASSUME CoreTypeOK, Pipeline, SteadyProgram(pm), pm' = pm,
         NEW signal \in BOOLEAN, Cycle(signal)
  PROVE  /\ Started' /\ Steady(ir')
         /\ fsm' \in {"Ini", "T3", "T0", "N1", "N2"} => pmAddr' = ToPm(pc')
         /\ fsm' \in {"T0", "N1", "N2"} => pmOut' = pm[ToPm(pc')]
         /\ fsm' = "T1" => ir' = pm[ToPm(pc' - 1)]
<1>1. /\ Started /\ Steady(ir)
      /\ fsm \in {"Ini", "T3", "T0", "N1", "N2"} => pmAddr = ToPm(pc)
      /\ fsm \in {"T0", "N1", "N2"} => pmOut = pm[ToPm(pc)]
  BY DEF Pipeline
<1>2. fsm' = NextState(fsm, dpc, irq) /\ cu' = Control(cu, fsm', ir, z)
  BY DEF Cycle
<1>3. /\ fsm \in FsmState /\ cu \in Controls /\ ir \in Instruction /\ z \in BOOLEAN
      /\ pc \in Word /\ pmAddr \in PmAddr
  BY DEF CoreTypeOK
<1>4. /\ pc' = IF cu'.reset THEN 0 ELSE IF cu'.pc THEN PcInput(cu') ELSE pc
      /\ ir' = IF cu'.reset THEN NoInstruction ELSE IF cu'.ir THEN pmOut ELSE ir
      /\ pmOut' = pm[pmAddr]
      /\ pmAddr' = IF cu'.memSel = "pm" THEN ToPm(Address(cu')) ELSE 0
  BY DEF Cycle, Registers, Register1, Memories
<1>5. cu'.mAddr = "pc" => Address(cu') = pc
  BY DEF Address
<1>6. \A word \in Word : Steady(pm[ToPm(word)])
  BY AddressType DEF SteadyProgram
<1>7. Steady(NoInstruction)
  BY DEF NoInstruction, Steady
<1>8. CASE fsm' \in {"T0", "N1", "N2"}
  <2>1. /\ cu'.reset = cu.reset /\ cu'.memSel = cu.memSel /\ cu'.mAddr = cu.mAddr
        /\ cu'.we = cu.we /\ cu'.pc = cu.pc /\ cu'.ir = cu.ir
    BY <1>2, <1>3, <1>8 DEF Control, Controls
  <2>2. fsm \in {"Ini", "T3", "T0", "N1", "N2"}
    BY <1>2, <1>3, <1>8 DEF NextState, FsmState
  <2>3. pc' = pc
    BY <1>1, <1>4, <2>1, <2>2 DEF Started
  <2>4. pmAddr' = ToPm(pc) /\ pmOut' = pm[ToPm(pc)]
    <3>1. cu.memSel \in {"pm", "dm"}
      BY <1>3 DEF Controls
    <3> QED
      BY <1>1, <1>4, <1>5, <2>1, <2>2, <3>1, ToPmZero DEF Started
  <2>5. Steady(ir')
    BY <1>1, <1>4, <1>7, <2>1, <2>2 DEF Started
  <2>6. Started'
    BY <1>1, <1>8, <2>1, <2>2, <2>3 DEF Started
  <2> QED
    BY <1>8, <2>3, <2>4, <2>5, <2>6
<1>9. CASE fsm' = "T1"
  <2>1. /\ ~ cu'.reset /\ cu'.memSel = "pm" /\ cu'.mAddr = "pc" /\ cu'.pcMux = "const"
        /\ cu'.we = cu.we /\ cu'.pc /\ cu'.ir
    BY <1>2, <1>3, <1>9 DEF Control, Controls
  <2>2. fsm = "T0"
    BY <1>2, <1>3, <1>9 DEF NextState, FsmState
  <2>3. pc' = Increased(pc) /\ ir' = pm[ToPm(pc)]
    BY <1>1, <1>4, <2>1, <2>2 DEF PcInput
  <2>4. ir' = pm[ToPm(pc' - 1)]
    BY <1>3, <2>3, AddressBefore
  <2>5. Steady(ir')
    BY <1>3, <1>6, <2>3
  <2>6. Started'
    BY <1>1, <1>9, <2>1 DEF Started
  <2> QED
    BY <1>9, <2>4, <2>5, <2>6
<1>10. CASE fsm' = "T2"
  <2> DEFINE c == [cu EXCEPT !.pc = FALSE, !.ir = FALSE]
  <2>1. c \in Controls
    BY <1>3, FlagType DEF Flag
  <2>2. c.mAddr = cu.mAddr /\ c.memSel = cu.memSel /\ c.we = cu.we
        /\ c.reset = cu.reset /\ ~ c.ir
    BY <1>3 DEF Controls
  <2>3. cu' = Execute(c, ir, z) /\ fsm = "T1"
    BY <1>2, <1>3, <1>10 DEF Control, NextState, FsmState
  <2> HIDE DEF c
  <2>4. /\ cu'.mAddr = cu.mAddr /\ cu'.memSel = cu.memSel /\ cu'.we = cu.we
        /\ cu'.reset = cu.reset /\ ~ cu'.ir
    BY <1>1, <1>3, <2>1, <2>2, <2>3, SteadyExecute
  <2>5. Started' /\ ir' = ir
    BY <1>1, <1>4, <1>10, <2>3, <2>4 DEF Started
  <2> QED
    BY <1>1, <1>10, <2>5
<1>11. CASE fsm' = "T3"
  <2>1. ~ (ir.am = "immediate" /\ ir.op = "present")
    BY <1>1 DEF Steady
  <2>2. /\ cu'.reset = cu.reset /\ cu'.memSel = cu.memSel /\ cu'.mAddr = cu.mAddr
        /\ ~ cu'.we /\ ~ cu'.pc /\ ~ cu'.ir
    BY <1>2, <1>3, <1>11, <2>1 DEF Control, Controls
  <2>3. fsm = "T2"
    BY <1>2, <1>3, <1>11 DEF NextState, FsmState
  <2>4. ~ cu'.reset /\ cu'.memSel = "pm" /\ cu'.mAddr = "pc"
    BY <1>1, <1>3, <2>2, <2>3 DEF Started, Controls
  <2>5. pc' = pc /\ ir' = ir /\ pmAddr' = ToPm(pc)
    BY <1>4, <1>5, <2>2, <2>4
  <2>6. Started'
    BY <1>11, <2>2, <2>4 DEF Started
  <2> QED
    BY <1>1, <1>11, <2>5, <2>6
<1> QED
  BY <1>2, <1>3, <1>8, <1>9, <1>10, <1>11 DEF NextState, FsmState

LEMMA PipelineNext ==
  CoreTypeOK /\ Enables' /\ Pipeline /\ [CoreNext]_coreVars => Pipeline'
<1> SUFFICES ASSUME CoreTypeOK, Enables', Pipeline, [CoreNext]_coreVars PROVE Pipeline'
  OBVIOUS
<1>1. CASE CoreNext
  <2>1. PICK signal \in BOOLEAN : Cycle(signal)
    BY <1>1, CoreAssumption DEF CoreNext
  <2>2. pm' = pm
    BY <2>1 DEF Cycle, Memories, Enables
  <2>3. CASE SteadyProgram(pm)
    BY <2>1, <2>2, <2>3, PipelineStep DEF Pipeline
  <2>4. CASE ~ SteadyProgram(pm)
    BY <2>2, <2>4 DEF Pipeline
  <2> QED
    BY <2>3, <2>4
<1>2. CASE UNCHANGED coreVars
  BY <1>2 DEF coreVars, Pipeline, Started
<1> QED
  BY <1>1, <1>2

\* In a program without loads, stores and PRESENT the instruction executed
\* is the one before the program counter, through jumps and interrupts, and
\* where the counter wraps.
THEOREM FetchInOrder == CoreSpec => []FetchesPc
<1>1. Pipeline => FetchesPc
  BY DEF Pipeline, FetchesPc, SteadyProgram
<1> QED
  BY <1>1, PipelineInit, PipelineNext, EnablesHold, PTL DEF CoreSpec

(***************************************************************************)
(* What a DATACALL hands to the network.                                   *)
(***************************************************************************)
\* Outside of T2 nothing is handed over, and the reset only holds dpcr at
\* zero until the first instruction.
Quiet ==
  /\ cu.dpcr => fsm = "T2"
  /\ cu.reset => fsm \in {"Ini", "T0", "N1", "N2"} /\ dpcr = [hi |-> 0, lo |-> 0]

LEMMA QuietInit == CoreInit => Quiet
  BY DEF CoreInit, PowerUp, Quiet

LEMMA ExecuteReset ==
  ASSUME NEW c \in Controls, NEW i \in Instruction, NEW zero \in BOOLEAN
  PROVE  Execute(c, i, zero).reset = c.reset
<1>1. CASE i.am = "inherent"
  BY <1>1 DEF Execute, Controls
<1>2. CASE i.am = "direct"
  BY <1>2 DEF Execute, ExecuteDirect, Store, Controls
<1>3. CASE i.am = "indirect"
  BY <1>3 DEF Execute, ExecuteIndirect, Store, Jump, Alu, Controls
<1>4. CASE i.am = "immediate"
  BY <1>4 DEF Execute, ExecuteImmediate, Store, Jump, Alu, Controls
<1> QED
  BY <1>1, <1>2, <1>3, <1>4 DEF Instruction, Mode

\* The outputs of T2: dpcr is written by DATACALL alone.
LEMMA ExecuteHands ==
  ASSUME NEW c \in Controls, ~ c.dpcr, NEW i \in Instruction, NEW zero \in BOOLEAN,
         Execute(c, i, zero).dpcr
  PROVE  LET d == Execute(c, i, zero) IN
         /\ i.op = "datacall" /\ i.am \in {"immediate", "indirect"}
         /\ i.am = "immediate" => d.dpcrMux = "ir"
         /\ i.am = "indirect"  => d.dpcrMux = "rz" /\ d.selZ = 7
<1>1. i.am # "inherent"
  BY DEF Execute, Controls
<1>2. i.am # "direct"
  BY DEF Execute, ExecuteDirect, Store, Controls
<1>3. CASE i.am = "indirect"
  <2>1. i.op = "datacall"
    BY <1>3 DEF Execute, ExecuteIndirect, Store, Jump, Alu, Controls
  <2> QED
    BY <1>3, <2>1 DEF Execute, ExecuteIndirect, Controls
<1>4. CASE i.am = "immediate"
  <2>1. i.op = "datacall"
    BY <1>4 DEF Execute, ExecuteImmediate, Store, Jump, Alu, Controls
  <2> QED
    BY <1>4, <2>1 DEF Execute, ExecuteImmediate, Controls
<1> QED
  BY <1>1, <1>2, <1>3, <1>4 DEF Instruction, Mode

\* A cycle keeps Quiet and hands nothing over, unless it executes a DATACALL.
LEMMA QuietStep ==
  ASSUME CoreTypeOK, Quiet, NEW signal \in BOOLEAN, Cycle(signal)
  PROVE  Quiet' /\ (dpcr' # dpcr => fsm = "T1" /\ cu'.dpcr /\ ~ cu'.reset)
<1>1. fsm' = NextState(fsm, dpc, irq) /\ cu' = Control(cu, fsm', ir, z)
  BY DEF Cycle
<1>2. fsm \in FsmState /\ cu \in Controls /\ ir \in Instruction /\ z \in BOOLEAN
  BY DEF CoreTypeOK
<1>3. /\ cu'.reset => dpcr' = [hi |-> 0, lo |-> 0]
      /\ ~ cu'.reset /\ ~ cu'.dpcr => dpcr' = dpcr
  BY DEF Cycle, Registers, Register1
<1>4. CASE fsm = "T1"
  <2> DEFINE c == [cu EXCEPT !.pc = FALSE, !.ir = FALSE]
  <2>1. c \in Controls
    BY <1>2, FlagType DEF Flag
  <2>2. c.reset = cu.reset
    BY <1>2 DEF Controls
  <2>3. cu' = Execute(c, ir, z) /\ fsm' = "T2"
    BY <1>1, <1>4 DEF Control, NextState
  <2> HIDE DEF c
  <2>4. ~ cu'.reset
    BY <1>2, <1>4, <2>1, <2>2, <2>3, ExecuteReset DEF Quiet
  <2> QED
    BY <1>3, <1>4, <2>3, <2>4 DEF Quiet
<1>5. CASE fsm \in {"Ini", "N2"} \/ fsm = "N1" \/ fsm' = "N1" \/ fsm \in {"T3"}
  <2>1. fsm' \in {"T0", "N1", "N2"}
    BY <1>1, <1>5 DEF NextState
  <2>2. cu'.reset = cu.reset /\ cu'.dpcr = cu.dpcr
    BY <1>1, <1>2, <2>1 DEF Control, Controls
  <2>3. fsm # "T2"
    BY <1>1, <2>1 DEF NextState
  <2>4. ~ cu'.dpcr
    BY <2>2, <2>3 DEF Quiet
  <2>5. dpcr' = dpcr
    BY <1>3, <2>2, <2>4 DEF Quiet
  <2> QED
    BY <2>1, <2>2, <2>4, <2>5 DEF Quiet
<1>6. CASE fsm = "T0" /\ fsm' = "T1"
  <2>1. ~ cu'.reset /\ ~ cu'.dpcr
    BY <1>1, <1>2, <1>6 DEF Control, Controls
  <2> QED
    BY <1>3, <2>1 DEF Quiet
<1>7. CASE fsm = "T2"
  <2>1. fsm' = "T3"
    BY <1>1, <1>7 DEF NextState
  <2>2. ~ cu'.dpcr /\ cu'.reset = cu.reset
    BY <1>1, <1>2, <2>1 DEF Control, Jump, Controls
  <2>3. ~ cu.reset
    BY <1>7 DEF Quiet
  <2> QED
    BY <1>3, <2>2, <2>3 DEF Quiet
<1> QED
  BY <1>1, <1>2, <1>4, <1>5, <1>6, <1>7 DEF NextState, FsmState

\* The word the DATACALL i hands over in a step, whatever interrupts have
\* left in the selects: register 5 may stand for the register of the high
\* half, register 7 for that of the low half, nothing for the operand.
HandsOver(i) ==
  /\ i.op = "datacall"
  /\ dpcr'.hi \in {rf[i.rx], rf[5]}
  /\ \/ i.am = "immediate" /\ dpcr'.lo = i.operand
     \/ i.am = "indirect"  /\ dpcr'.lo \in {rf[i.rz], rf[7]}

\* A word for the network comes from a DATACALL of the program, wherever
\* interrupts and jumps go.
CallsFromProgram ==
  [][dpcr' # dpcr /\ SteadyProgram(pm) => \E a \in PmAddr : HandsOver(pm[a])]_coreVars

\* CallsExact fails in one way only: of the word a DATACALL hands over an
\* interrupt can replace the high half, by register 5, and the low half of
\* the indirect form, by register 7; no word is made up, repeated or cut
\* together from two instructions, and no other instruction sends.
THEOREM CallsHandOver == CoreSpec => CallsFromProgram
<1> DEFINE Hand == dpcr' # dpcr /\ SteadyProgram(pm) => \E a \in PmAddr : HandsOver(pm[a])
<1>1. CoreTypeOK /\ Quiet /\ [CoreNext]_coreVars => Quiet'
  <2> SUFFICES ASSUME CoreTypeOK, Quiet, [CoreNext]_coreVars PROVE Quiet'
    OBVIOUS
  <2>1. CASE CoreNext
    BY <2>1, CoreAssumption, QuietStep DEF CoreNext
  <2>2. CASE UNCHANGED coreVars
    BY <2>2 DEF coreVars, Quiet
  <2> QED
    BY <2>1, <2>2
<1>2. CoreTypeOK /\ Quiet /\ Pipeline /\ [CoreNext]_coreVars => [Hand]_coreVars
  <2> SUFFICES ASSUME CoreTypeOK, Quiet, Pipeline, CoreNext, dpcr' # dpcr, SteadyProgram(pm)
               PROVE  \E a \in PmAddr : HandsOver(pm[a])
    OBVIOUS
  <2> DEFINE c == [cu EXCEPT !.pc = FALSE, !.ir = FALSE]
             a == ToPm(pc - 1)
  <2>1. PICK signal \in BOOLEAN : Cycle(signal)
    BY CoreAssumption DEF CoreNext
  <2>2. fsm = "T1" /\ cu'.dpcr /\ ~ cu'.reset
    BY <2>1, QuietStep
  <2>3. ir = pm[a]
    BY <2>2 DEF Pipeline
  <2>4. a \in PmAddr
    <3>1. pc - 1 \in Int /\ 2 ^ PmBits \in Nat \ {0}
      BY Widths, WordZero DEF CoreTypeOK
    <3> QED
      BY <3>1, RemainderType DEF ToPm, PmAddr
  <2>5. ir \in Instruction /\ z \in BOOLEAN /\ c \in Controls
    BY FlagType DEF Flag, CoreTypeOK
  <2>6. ~ c.dpcr
    BY <2>2 DEF Quiet, CoreTypeOK, Controls
  <2>7. cu' = Execute(c, ir, z)
    BY <2>1, <2>2 DEF Cycle, Control, NextState
  <2> HIDE DEF c, a
  <2>8. /\ ir.op = "datacall" /\ ir.am \in {"immediate", "indirect"}
        /\ ir.am = "immediate" => cu'.dpcrMux = "ir"
        /\ ir.am = "indirect"  => cu'.dpcrMux = "rz" /\ cu'.selZ = 7
    BY <2>2, <2>5, <2>6, <2>7, ExecuteHands
  <2>9. dpcr' = [hi |-> Rx(cu'), lo |-> IF cu'.dpcrMux = "rz" THEN Rz(cu') ELSE ir.operand]
    BY <2>1, <2>2 DEF Cycle, Registers, Register1
  <2>10. Rx(cu') \in {rf[ir.rx], rf[5]} /\ (cu'.selZ = 7 => Rz(cu') \in {rf[ir.rz], rf[7]})
    BY DEF Rx, Rz, SelX, SelZ
  <2>11. HandsOver(ir)
    BY <2>8, <2>9, <2>10 DEF HandsOver
  <2> QED
    BY <2>3, <2>4, <2>11
<1> QED
  BY <1>1, <1>2, QuietInit, PipelineInit, PipelineNext, EnablesHold, PTL
     DEF CoreSpec, CallsFromProgram

\* Beside the slot counter of the network the processor is ReCOPCore: all
\* that is shown of CoreSpec, for packets in any cycle, holds of the machine
\* that is interrupted in every round of slots.
THEOREM SlotsOnCore ==
  ASSUME Signals = BOOLEAN
  PROVE  SlotSpec => CoreSpec
<1>1. SlotInit => CoreInit
  BY DEF SlotInit
<1>2. [SlotNext]_slotVars => [CoreNext]_coreVars
  <2>1. (slot = 0) \in BOOLEAN
    BY Zenon
  <2>2. SlotNext => CoreNext
    BY <2>1 DEF SlotNext, CoreNext
  <2> QED
    BY <2>2 DEF slotVars
<1> QED
  BY <1>1, <1>2, PTL DEF SlotSpec, CoreSpec

-----------------------------------------------------------------------------
(* The instruction set.                                                    *)

(***************************************************************************)
(* The words of the instruction set are those of the processor.            *)
(***************************************************************************)
LEMMA SameWords ==
  /\ Machine!PmAddr = PmAddr /\ Machine!Register = Register
  /\ \A word : Machine!ToPm(word) = ToPm(word)
  /\ \A word : Machine!Increased(word) = Increased(word)
  /\ \A a, b : Machine!Larger(a, b) = Larger(a, b)
  BY DEF Machine!PmAddr, PmAddr, Machine!Register, Register, Machine!ToPm, ToPm,
         Machine!Increased, Increased, Machine!Larger, Larger

LEMMA SameOnes == \A S : Machine!WithOnes(S) = WithOnes(S)
  BY DEF WithOnes, Machine!WithOnes, MapThenSumSet, Machine!MapThenSumSet,
         MapThenFoldSet, Machine!MapThenFoldSet

LEMMA SameAlu == \A op, a, b : Machine!AluOut(op, a, b) = AluOut(op, a, b)
  BY SameOnes DEF Machine!AluOut, AluOut, Machine!Ones, Ones, Machine!Bit, Bit

\* The program counter is one ahead of the instruction in state T1.
LEMMA OneAhead ==
  ASSUME NEW n \in Nat \ {0, 1}, NEW word \in 0 .. n - 1
  PROVE  (((word + 1) % n) - 1) % n = word /\ (((word - 1) % n) + 1) % n = word
<1>1. \A a \in 0 .. n - 1 : a % n = a
  OBVIOUS
<1>2. n % n = 0 /\ (0 - 1) % n = n - 1
  OBVIOUS
<1>3. (((word + 1) % n) - 1) % n = word
  <2>1. CASE word = n - 1
    <3>1. word + 1 = n
      BY <2>1
    <3> QED
      BY <1>2, <2>1, <3>1
  <2>2. CASE word # n - 1
    <3>1. word + 1 \in 0 .. n - 1 /\ word + 1 - 1 = word
      BY <2>2
    <3>2. (word + 1) % n = word + 1
      BY <1>1, <3>1
    <3> QED
      BY <1>1, <3>1, <3>2
  <2> QED
    BY <2>1, <2>2
<1>4. (((word - 1) % n) + 1) % n = word
  <2>1. CASE word = 0
    <3>1. ((word - 1) % n) + 1 = n
      BY <1>2, <2>1
    <3> QED
      BY <1>2, <2>1, <3>1
  <2>2. CASE word # 0
    <3>1. word - 1 \in 0 .. n - 1 /\ word - 1 + 1 = word
      BY <2>2
    <3>2. (word - 1) % n = word - 1
      BY <1>1, <3>1
    <3> QED
      BY <1>1, <3>1, <3>2
  <2> QED
    BY <2>1, <2>2
<1> QED
  BY <1>3, <1>4

LEMMA StepBack ==
  ASSUME NEW word \in Word
  PROVE  /\ (Increased(word) - 1) % 2 ^ W = word
         /\ Increased((word - 1) % 2 ^ W) = word
  BY Widths, OneAhead DEF Increased, Word

(***************************************************************************)
(* The outputs with which a kept instruction is executed.                  *)
(***************************************************************************)
Loads(i) == i.am # "inherent" /\ i.op \in {"ldr", "max", "subv", "add", "andd", "orr"}
Jumps(i) == i.am # "inherent" /\ i.op = "jmp"
Hands(i) == i.am # "inherent" /\ i.op = "datacall"
Shows(i) == i.am # "inherent" /\ i.op = "ssop"

Idle(c) == ~ c.we /\ ~ c.rf /\ ~ c.sop /\ ~ c.dpcr /\ ~ c.pc /\ ~ c.ir

LEMMA KeptExecute ==
  ASSUME NEW c \in Controls, Idle(c), NEW i \in Instruction, Machine!Kept(i),
         NEW zero \in BOOLEAN, c.selX => i.am = "immediate" /\ i.op = "ldr",
         NEW d, d = Execute(c, i, zero)
  PROVE  /\ ~ d.we /\ ~ d.ir /\ ~ d.selX
         /\ d.reset = c.reset /\ d.memSel = c.memSel /\ d.mAddr = c.mAddr
         /\ d.rf <=> Loads(i)
         /\ d.pc <=> Jumps(i)
         /\ d.dpcr <=> Hands(i)
         /\ d.sop <=> Shows(i)
         /\ Jumps(i) => d.pcMux = IF i.am = "indirect" THEN "rx" ELSE "ir"
         /\ Hands(i) => d.dpcrMux = "ir"
<1>1. CASE i.am = "inherent"
  BY <1>1 DEF Execute, Controls, Idle, Machine!Kept, Loads, Jumps, Hands, Shows
<1>2. CASE i.am = "immediate" /\ i.op \in {"ldr", "max", "subv", "andd", "orr"}
  BY <1>2 DEF Execute, ExecuteImmediate, Alu, Controls, Idle, Loads, Jumps, Hands, Shows
<1>3. CASE i.am = "immediate" /\ i.op \in {"jmp", "datacall"}
  BY <1>3 DEF Execute, ExecuteImmediate, Jump, Controls, Idle, Loads, Jumps, Hands, Shows
<1>4. CASE i.am = "indirect" /\ i.op \in {"add", "andd", "orr"}
  BY <1>4 DEF Execute, ExecuteIndirect, Alu, Controls, Idle, Loads, Jumps, Hands, Shows
<1>5. CASE i.am = "indirect" /\ i.op \in {"jmp", "ssop"}
  BY <1>5 DEF Execute, ExecuteIndirect, Jump, Controls, Idle, Loads, Jumps, Hands, Shows
<1> QED
  BY <1>1, <1>2, <1>3, <1>4, <1>5 DEF Machine!Kept

\* The word such an instruction loads.
LEMMA KeptLoads ==
  ASSUME NEW c \in Controls, Idle(c), Machine!Kept(ir), Loads(ir), NEW zero,
         NEW d, d = Execute(c, ir, zero), Rx(d) = rf[ir.rx], Rz(d) = rf[ir.rz]
  PROVE  RfInput(d) = Machine!Loaded(ir)
<1>1. CASE ir.am = "immediate" /\ ir.op = "ldr"
  <2>1. d.rfMux = "ir"
    BY <1>1 DEF Execute, ExecuteImmediate, Controls
  <2> QED
    BY <1>1, <2>1 DEF RfInput, Machine!Loaded
<1>2. CASE ir.am = "immediate" /\ ir.op = "max"
  <2>1. d.rfMux = "max"
    BY <1>2 DEF Execute, ExecuteImmediate, Controls
  <2> QED
    BY <1>2, <2>1, SameWords DEF RfInput, Machine!Loaded
<1>3. CASE ir.am = "immediate" /\ ir.op = "subv"
  <2>1. d.rfMux = "alu" /\ d.aluOp = "sub" /\ d.aluA = "ir" /\ d.aluB = "rx"
    BY <1>3 DEF Execute, ExecuteImmediate, Alu, Controls
  <2> QED
    BY <1>3, <2>1, SameAlu DEF RfInput, AluResult, Machine!Loaded
<1>4. CASE ir.am = "immediate" /\ ir.op \in {"andd", "orr"}
  <2>1. d.rfMux = "alu" /\ d.aluOp = ir.op /\ d.aluA = "ir" /\ d.aluB = "rx"
    BY <1>4 DEF Execute, ExecuteImmediate, Alu, Controls
  <2> QED
    BY <1>4, <2>1, SameAlu DEF RfInput, AluResult, Machine!Loaded
<1>5. CASE ir.am = "indirect" /\ ir.op \in {"add", "andd", "orr"}
  <2>1. d.rfMux = "alu" /\ d.aluOp = ir.op /\ d.aluA = "rx" /\ d.aluB = "rz"
    BY <1>5 DEF Execute, ExecuteIndirect, Alu, Controls
  <2> QED
    BY <1>5, <2>1, SameAlu DEF RfInput, AluResult, Machine!Loaded
<1> QED
  BY <1>1, <1>2, <1>3, <1>4, <1>5 DEF Machine!Kept, Loads

(***************************************************************************)
(* The pipeline of the fetch.  The word at pc appears in pmOut two falling *)
(* edges after pc has settled: pc settles in T2, its word is addressed in  *)
(* T3, read in T0 and in the instruction register in T1.                   *)
(***************************************************************************)
Fetch ==
  /\ fsm \in {"Ini", "T0", "T1", "T2", "T3"} /\ ~ irq
  /\ Machine!KeptProgram(pm)
  /\ ~ cu.we
  /\ fsm # "T2" => ~ cu.rf /\ ~ cu.sop /\ ~ cu.dpcr
  /\ fsm \in {"Ini", "T0", "T3"} => ~ cu.pc /\ ~ cu.ir
  /\ fsm = "Ini" => pc = 0 /\ pmAddr = 0 /\ dpcr = [hi |-> 0, lo |-> 0]
  /\ fsm = "T0" => pmOut = pm[ToPm(pc)]
  /\ fsm = "T1" => ir = pm[ToPm(At)]
  /\ fsm = "T3" => pmAddr = ToPm(pc)
  /\ fsm \in {"T1", "T2", "T3"} => ~ cu.reset /\ cu.memSel = "pm" /\ cu.mAddr = "pc"
  /\ fsm \in {"T2", "T3"} => Machine!Kept(ir)
  /\ cu.selX => fsm \in {"Ini", "T0", "T1"} /\ At = 0

LEMMA ZeroAddress == ToPm(0) = 0
  BY Widths DEF ToPm

LEMMA KeptAt ==
  ASSUME Machine!KeptProgram(pm), NEW word \in Word
  PROVE  /\ Machine!Kept(pm[ToPm(word)])
         /\ word = 0 => pm[ToPm(word)].am = "immediate" /\ pm[ToPm(word)].op = "ldr"
  BY AddressType, ZeroAddress, SameWords DEF Machine!KeptProgram

LEMMA AtType ==
  ASSUME CoreTypeOK
  PROVE  At \in Word
<1>1. pc - 1 \in Int /\ 2 ^ W \in Nat \ {0}
  BY Widths, WordZero DEF CoreTypeOK
<1> QED
  BY <1>1, RemainderType DEF At, CoreTypeOK, Word

LEMMA FetchInit ==
  ASSUME \A p \in Programs : Machine!KeptProgram(p), CoreInit
  PROVE  Fetch
  BY DEF CoreInit, PowerUp, Fetch, At

\* What each cycle of a kept program does, and that it keeps Fetch.
LEMMA IniStep ==
  ASSUME CoreTypeOK, Fetch, Cycle(FALSE), fsm = "Ini"
  PROVE  Fetch' /\ UNCHANGED <<At, rf, dpcr, sop, pm>>
<1>1. fsm' = "T0" /\ cu' = [cu EXCEPT !.sop = FALSE]
  BY DEF Cycle, NextState, Control
<1>2. /\ ~ cu'.we /\ ~ cu'.rf /\ ~ cu'.sop /\ ~ cu'.dpcr /\ ~ cu'.pc /\ ~ cu'.ir
      /\ cu'.selX = cu.selX
  BY <1>1 DEF Fetch, CoreTypeOK, Controls
<1>3. /\ pc' = 0 /\ rf' = rf /\ dpcr' = dpcr /\ sop' = sop /\ ~ irq'
  BY <1>2 DEF Cycle, Registers, Register1, Fetch, CoreTypeOK
<1>4. pmOut' = pm[0] /\ pm' = pm
  BY <1>2 DEF Cycle, Memories, Fetch
<1> QED
  BY <1>1, <1>2, <1>3, <1>4, ZeroAddress DEF Fetch, At

LEMMA T0Step ==
  ASSUME CoreTypeOK, Fetch, Cycle(FALSE), fsm = "T0"
  PROVE  Fetch' /\ UNCHANGED <<At, rf, dpcr, sop, pm>>
<1>1. fsm' = "T1" /\ cu' = Control(cu, "T1", ir, z)
  BY DEF Cycle, NextState, Fetch
<1>2. /\ ~ cu'.we /\ ~ cu'.rf /\ ~ cu'.sop /\ ~ cu'.dpcr /\ ~ cu'.reset
      /\ cu'.pc /\ cu'.ir /\ cu'.selX = cu.selX
  BY <1>1 DEF Control, Fetch, CoreTypeOK, Controls
<1>3. cu'.memSel = "pm" /\ cu'.mAddr = "pc" /\ cu'.pcMux = "const"
  BY <1>1 DEF Control, CoreTypeOK, Controls
<1>4. /\ pc' = Increased(pc) /\ ir' = pmOut /\ ~ irq'
      /\ rf' = rf /\ dpcr' = dpcr /\ sop' = sop
  BY <1>2, <1>3 DEF Cycle, Registers, Register1, PcInput, Fetch, CoreTypeOK
<1>5. pm' = pm
  BY <1>2 DEF Cycle, Memories
<1>6. At' = pc /\ At = pc
  BY <1>1, <1>4, StepBack DEF At, CoreTypeOK
<1> QED
  BY <1>1, <1>2, <1>3, <1>4, <1>5, <1>6 DEF Fetch

LEMMA T2Step ==
  ASSUME CoreTypeOK, Fetch, Cycle(FALSE), fsm = "T2"
  PROVE  Fetch' /\ UNCHANGED <<At, rf, dpcr, sop, pm>>
<1>1. fsm' = "T3" /\ cu' = Control(cu, "T3", ir, z)
  BY DEF Cycle, NextState
<1>2. ~ (ir.am = "immediate" /\ ir.op = "present")
  BY DEF Fetch, Machine!Kept
<1>3. /\ ~ cu'.we /\ ~ cu'.rf /\ ~ cu'.sop /\ ~ cu'.dpcr /\ ~ cu'.pc /\ ~ cu'.ir
      /\ ~ cu'.reset /\ cu'.memSel = "pm" /\ cu'.mAddr = "pc" /\ ~ cu'.selX
  BY <1>1, <1>2 DEF Control, Fetch, CoreTypeOK, Controls
<1>4. /\ pc' = pc /\ ir' = ir /\ ~ irq'
      /\ rf' = rf /\ dpcr' = dpcr /\ sop' = sop
  BY <1>3 DEF Cycle, Registers, Register1, Fetch, CoreTypeOK
<1>5. pm' = pm /\ pmAddr' = ToPm(pc)
  BY <1>3 DEF Cycle, Memories, Address
<1> QED
  BY <1>1, <1>3, <1>4, <1>5 DEF Fetch, At

LEMMA T3Step ==
  ASSUME CoreTypeOK, Fetch, Cycle(FALSE), fsm = "T3"
  PROVE  Fetch' /\ UNCHANGED <<At, rf, dpcr, sop, pm>>
<1>1. fsm' = "T0" /\ cu' = [cu EXCEPT !.sop = FALSE]
  BY DEF Cycle, NextState, Control
<1>2. /\ ~ cu'.we /\ ~ cu'.rf /\ ~ cu'.sop /\ ~ cu'.dpcr /\ ~ cu'.pc /\ ~ cu'.ir
      /\ ~ cu'.reset /\ ~ cu'.selX
  BY <1>1 DEF Fetch, CoreTypeOK, Controls
<1>3. pc' = pc /\ rf' = rf /\ dpcr' = dpcr /\ sop' = sop /\ ~ irq'
  BY <1>2 DEF Cycle, Registers, Register1, Fetch, CoreTypeOK
<1>4. pmOut' = pm[ToPm(pc)] /\ pm' = pm
  BY <1>2 DEF Cycle, Memories, Fetch
<1> QED
  BY <1>1, <1>2, <1>3, <1>4 DEF Fetch, At

\* The instruction at At takes effect in the step from T1 to T2.
LEMMA T1Step ==
  ASSUME CoreTypeOK, Fetch, Cycle(FALSE), fsm = "T1"
  PROVE  Fetch' /\ Machine!IsaStep
<1> DEFINE c == [cu EXCEPT !.pc = FALSE, !.ir = FALSE]
<1>1. fsm' = "T2" /\ cu' = Execute(c, ir, z)
  BY DEF Cycle, NextState, Control
<1>2. c \in Controls
  BY FlagType DEF Flag, CoreTypeOK
<1>3. Idle(c) /\ ~ c.reset /\ c.memSel = "pm" /\ c.mAddr = "pc" /\ c.selX = cu.selX
  BY DEF Fetch, Idle, CoreTypeOK, Controls
<1>4. ir = pm[ToPm(At)] /\ Machine!Kept(ir)
      /\ (c.selX => ir.am = "immediate" /\ ir.op = "ldr")
  BY <1>3, KeptAt, AtType DEF Fetch
<1> HIDE DEF c
<1>5. ir \in Instruction /\ z \in BOOLEAN
  BY DEF CoreTypeOK
<1>6. /\ ~ cu'.we /\ ~ cu'.ir /\ ~ cu'.selX
      /\ ~ cu'.reset /\ cu'.memSel = "pm" /\ cu'.mAddr = "pc"
      /\ cu'.rf <=> Loads(ir)
      /\ cu'.pc <=> Jumps(ir)
      /\ cu'.dpcr <=> Hands(ir)
      /\ cu'.sop <=> Shows(ir)
      /\ Jumps(ir) => cu'.pcMux = IF ir.am = "indirect" THEN "rx" ELSE "ir"
      /\ Hands(ir) => cu'.dpcrMux = "ir"
  BY <1>1, <1>2, <1>3, <1>4, <1>5, KeptExecute
<1>7. SelX(cu') = ir.rx /\ SelZ(cu') = ir.rz
  BY <1>6 DEF SelX, SelZ
<1>8. Rx(cu') = rf[ir.rx] /\ Rz(cu') = rf[ir.rz]
  BY <1>7 DEF Rx, Rz
<1>9. /\ pc' = IF Jumps(ir) THEN IF ir.am = "indirect" THEN rf[ir.rx] ELSE ir.operand
               ELSE pc
      /\ ir' = ir /\ ~ irq'
      /\ dpcr' = IF Hands(ir) THEN [hi |-> rf[ir.rx], lo |-> ir.operand] ELSE dpcr
      /\ sop' = IF Shows(ir) THEN rf[ir.rx] ELSE sop
      /\ rf' = IF Loads(ir) THEN [rf EXCEPT ![ir.rz] = RfInput(cu')] ELSE rf
  BY <1>6, <1>7, <1>8 DEF Cycle, Registers, Register1, PcInput, Fetch, CoreTypeOK
<1>10. pm' = pm
  BY <1>6 DEF Cycle, Memories
<1>11. Fetch'
  BY <1>1, <1>4, <1>6, <1>9, <1>10 DEF Fetch
<1>12. At' = pc' /\ pc = Increased(At)
  BY <1>1, StepBack DEF At, CoreTypeOK
<1>13. At' = IF Jumps(ir) THEN IF ir.am = "indirect" THEN rf[ir.rx] ELSE ir.operand
             ELSE Machine!Increased(At)
  BY <1>9, <1>12, SameWords
<1>14. pm[Machine!ToPm(At)] = ir
  BY <1>4, SameWords
<1>15. Machine!IsaStep <=>
         \/ Machine!IsaLoad(ir) \/ Machine!IsaJump(ir) \/ Machine!IsaCall(ir)
         \/ Machine!IsaOutput(ir) \/ Machine!IsaNothing(ir)
  BY <1>4, <1>10, <1>14 DEF Machine!IsaStep
<1>16. CASE Loads(ir)
  <2>1. RfInput(cu') = Machine!Loaded(ir)
    BY <1>1, <1>2, <1>3, <1>4, <1>8, <1>16, KeptLoads
  <2>2. ~ Jumps(ir) /\ ~ Hands(ir) /\ ~ Shows(ir)
    BY <1>16 DEF Loads, Jumps, Hands, Shows
  <2>3. Machine!IsaLoad(ir)
    BY <1>9, <1>13, <1>16, <2>1, <2>2 DEF Machine!IsaLoad, Loads
  <2> QED
    BY <1>11, <1>15, <2>3
<1>17. CASE Jumps(ir)
  <2>1. ~ Loads(ir) /\ ~ Hands(ir) /\ ~ Shows(ir)
    BY <1>17 DEF Loads, Jumps, Hands, Shows
  <2>2. Machine!IsaJump(ir)
    BY <1>9, <1>13, <1>17, <2>1 DEF Machine!IsaJump, Jumps
  <2> QED
    BY <1>11, <1>15, <2>2
<1>18. CASE Hands(ir)
  <2>1. ~ Loads(ir) /\ ~ Jumps(ir) /\ ~ Shows(ir)
    BY <1>18 DEF Loads, Jumps, Hands, Shows
  <2>2. Machine!IsaCall(ir)
    BY <1>9, <1>13, <1>18, <2>1 DEF Machine!IsaCall, Hands
  <2> QED
    BY <1>11, <1>15, <2>2
<1>19. CASE Shows(ir)
  <2>1. ~ Loads(ir) /\ ~ Jumps(ir) /\ ~ Hands(ir)
    BY <1>19 DEF Loads, Jumps, Hands, Shows
  <2>2. Machine!IsaOutput(ir)
    BY <1>9, <1>13, <1>19, <2>1 DEF Machine!IsaOutput, Shows
  <2> QED
    BY <1>11, <1>15, <2>2
<1>20. CASE ir.am = "inherent"
  <2>1. ~ Loads(ir) /\ ~ Jumps(ir) /\ ~ Hands(ir) /\ ~ Shows(ir)
    BY <1>20 DEF Loads, Jumps, Hands, Shows
  <2>2. Machine!IsaNothing(ir)
    BY <1>9, <1>13, <1>20, <2>1 DEF Machine!IsaNothing
  <2> QED
    BY <1>11, <1>15, <2>2
<1> QED
  BY <1>4, <1>11, <1>16, <1>17, <1>18, <1>19, <1>20
     DEF Machine!Kept, Loads, Jumps, Hands, Shows

\* Every cycle of a kept program is an instruction or none.
LEMMA FetchStep ==
  ASSUME Signals \subseteq {FALSE}, CoreTypeOK, Fetch, [CoreNext]_coreVars
  PROVE  Fetch' /\ [Machine!IsaStep]_<<At, rf, dpcr, sop, pm>>
<1>1. CASE CoreNext
  <2>1. Cycle(FALSE)
    BY <1>1 DEF CoreNext
  <2>2. fsm \in {"Ini", "T0", "T1", "T2", "T3"}
    BY DEF Fetch
  <2> QED
    BY <2>1, <2>2, IniStep, T0Step, T1Step, T2Step, T3Step
<1>2. CASE UNCHANGED coreVars
  BY <1>2 DEF coreVars, Fetch, At
<1> QED
  BY <1>1, <1>2

-----------------------------------------------------------------------------
\* Without interrupts, and with programs of kept instructions that start
\* with a load, every cycle of the processor is an instruction of ReCOPIsa
\* or none: the latches, the two-stage fetch and the register selects never
\* show in the registers.
THEOREM ProcessorImplements ==
  ASSUME Signals \subseteq {FALSE}, \A p \in Programs : Machine!KeptProgram(p)
  PROVE  CoreSpec => ImplementsIsa
<1>1. CoreInit => Fetch
  BY FetchInit
<1>2. CoreTypeOK /\ Fetch /\ [CoreNext]_coreVars
        => Fetch' /\ [Machine!IsaStep]_<<At, rf, dpcr, sop, pm>>
  BY FetchStep
<1>3. CoreInit => Machine!IsaInit
  BY SameWords DEF CoreInit, Machine!IsaInit, At
<1> QED
  BY <1>1, <1>2, <1>3, CoreTypeCorrect, PTL
     DEF CoreSpec, ImplementsIsa, Machine!IsaSpec, Machine!isaVars

(***************************************************************************)
(* Paired programs.                                                        *)
(***************************************************************************)
\* The program is paired, and before a DATACALL its register holds what the
\* instruction before it loads.
Ready ==
  /\ pm \in Programs /\ Paired(pm)
  /\ Hands(pm[ToPm(At)]) => rf[pm[ToPm(At)].rx] = pm[ToPm(At) - 1].operand

\* The address after another, in program memory.
LEMMA AddressAfter ==
  ASSUME NEW word \in Word, ToPm(Increased(word)) # 0
  PROVE  ToPm(Increased(word)) - 1 = ToPm(word)
<1> DEFINE b == 2 ^ PmBits
           next == Increased(word)
<1>1. b \in Nat \ {0, 1} /\ next \in Int
  BY Widths, IncreasedType, WordZero
<1>2. (next - 1) % b = word % b /\ next % b # 0
  BY AddressBefore DEF ToPm
<1> HIDE DEF b, next
<1>3. (next - 1) % b = (next % b) - 1
  BY <1>1, <1>2, RemainderBefore
<1> QED
  BY <1>2, <1>3 DEF ToPm, b, next

\* What an instruction leaves for the next one.
LEMMA ReadyStep ==
  ASSUME CoreTypeOK, Ready, Machine!IsaStep
  PROVE  /\ Ready'
         /\ dpcr' # dpcr => dpcr' \in Calls(pm)
<1> DEFINE a == ToPm(At)
           i == pm[a]
           b == ToPm(At')
<1>1. At \in Word /\ a \in PmAddr
  BY AtType, AddressType
<1>2. /\ Machine!Kept(i) /\ pm' = pm
      /\ \/ Machine!IsaLoad(i) \/ Machine!IsaJump(i) \/ Machine!IsaCall(i)
         \/ Machine!IsaOutput(i) \/ Machine!IsaNothing(i)
  BY SameWords DEF Machine!IsaStep
<1>3. pm \in [PmAddr -> Instruction] /\ rf \in [Register -> Word] /\ i \in Instruction
  BY <1>1 DEF CoreTypeOK
\* The next instruction is a DATACALL only after its load.
<1>4. ASSUME At' = Machine!Increased(At), b \in PmAddr, Hands(pm[b])
      PROVE  b - 1 = a /\ LoadsFor(i, pm[b])
  <2>1. b # 0 /\ LoadsFor(pm[b - 1], pm[b])
    BY <1>4 DEF Ready, Paired, Hands
  <2>2. b = ToPm(Increased(At))
    BY <1>4, SameWords
  <2>3. b - 1 = a
    BY <1>1, <2>1, <2>2, AddressAfter
  <2> QED
    BY <2>1, <2>3
<1>5. At' = Machine!Increased(At) => b \in PmAddr
  BY <1>1, SameWords, IncreasedType, AddressType
<1>6. ASSUME Hands(pm[b]) => rf'[pm[b].rx] = pm[b - 1].operand PROVE Ready'
  BY <1>2, <1>6 DEF Ready
<1>7. CASE Machine!IsaLoad(i)
  <2>1. /\ At' = Machine!Increased(At) /\ dpcr' = dpcr
        /\ rf' = [rf EXCEPT ![i.rz] = Machine!Loaded(i)]
    BY <1>7 DEF Machine!IsaLoad
  <2>2. ASSUME Hands(pm[b]) PROVE rf'[pm[b].rx] = pm[b - 1].operand
    <3>1. b - 1 = a /\ LoadsFor(i, pm[b])
      BY <1>4, <1>5, <2>1, <2>2
    <3>2. Machine!Loaded(i) = i.operand
      BY <3>1 DEF LoadsFor, Machine!Loaded
    <3>3. i.rz \in Register /\ i.rz = pm[b].rx
      BY <1>3, <3>1 DEF LoadsFor, Instruction
    <3>4. rf'[i.rz] = i.operand
      BY <1>3, <2>1, <3>2, <3>3
    <3> QED
      BY <3>1, <3>3, <3>4
  <2> QED
    BY <1>6, <2>1, <2>2
<1>8. CASE Machine!IsaJump(i)
  <2>1. i.am # "inherent" /\ i.op = "jmp" /\ dpcr' = dpcr
    BY <1>8 DEF Machine!IsaJump
  <2>2. i.am = "immediate" /\ (ToPm(i.operand) \in PmAddr => ~ Hands(pm[ToPm(i.operand)]))
    BY <1>1, <2>1 DEF Ready, Paired, Hands
  <2>3. At' = i.operand
    BY <1>8, <2>2 DEF Machine!IsaJump
  <2>4. b \in PmAddr
    BY <1>3, <2>3, AddressType DEF Instruction
  <2> QED
    BY <1>6, <2>1, <2>2, <2>3, <2>4
<1>9. CASE Machine!IsaCall(i)
  <2>1. /\ i.am # "inherent" /\ i.op = "datacall" /\ At' = Machine!Increased(At)
        /\ dpcr' = [hi |-> rf[i.rx], lo |-> i.operand]
    BY <1>9 DEF Machine!IsaCall
  <2>2. ~ Hands(pm[b])
    BY <1>4, <1>5, <2>1 DEF LoadsFor
  <2>3. i.am = "immediate"
    BY <1>2, <2>1 DEF Machine!Kept
  <2>4. a \in PmAddr \ {0} /\ LoadsFor(pm[a - 1], i)
    BY <1>1, <2>1 DEF Ready, Paired
  <2>5. rf[i.rx] = pm[a - 1].operand
    BY <2>1 DEF Ready, Hands
  <2>6. dpcr' \in Calls(pm)
    BY <2>1, <2>3, <2>4, <2>5 DEF Calls, LoadsFor
  <2> QED
    BY <1>6, <2>2, <2>6
<1>10. CASE Machine!IsaOutput(i) \/ Machine!IsaNothing(i)
  <2>1. At' = Machine!Increased(At) /\ dpcr' = dpcr /\ ~ (i.am = "immediate" /\ i.op = "ldr")
    BY <1>10 DEF Machine!IsaOutput, Machine!IsaNothing
  <2>2. ~ Hands(pm[b])
    BY <1>4, <1>5, <2>1 DEF LoadsFor
  <2> QED
    BY <1>6, <2>1, <2>2
<1> QED
  BY <1>2, <1>7, <1>8, <1>9, <1>10

\* The words a paired program hands to the network when nothing interrupts it.
CallsExactAlone ==
  [][dpcr' # dpcr => dpcr' \in UNION {Calls(p) : p \in Programs}]_coreVars

\* What CallsExact asks for is true of every program written like the one
\* that is shipped, as long as no interrupt comes: each DATACALL hands over
\* its operand and what the instruction before it loaded.  The interrupt is
\* all that breaks it.
THEOREM CallsExactUndisturbed ==
  ASSUME Signals \subseteq {FALSE}, \A p \in Programs : Paired(p)
  PROVE  CoreSpec => CallsExactAlone
<1> DEFINE Exact == dpcr' # dpcr => dpcr' \in UNION {Calls(p) : p \in Programs}
<1>1. CoreInit => Fetch
  BY FetchInit DEF Paired
<1>2. CoreInit => Ready
  <2> SUFFICES ASSUME CoreInit PROVE Ready
    OBVIOUS
  <2>1. pm \in Programs /\ Paired(pm) /\ At = 0
    BY DEF CoreInit, At
  <2>2. ~ Hands(pm[ToPm(At)])
    BY <2>1, ZeroAddress, SameWords DEF Paired, Machine!KeptProgram, Hands
  <2> QED
    BY <2>1, <2>2 DEF Ready
<1>3. CoreTypeOK /\ Fetch /\ [CoreNext]_coreVars => Fetch'
  BY FetchStep
<1>4. CoreTypeOK /\ Fetch /\ Ready /\ [CoreNext]_coreVars => Ready' /\ [Exact]_coreVars
  <2> SUFFICES ASSUME CoreTypeOK, Fetch, Ready, [CoreNext]_coreVars
               PROVE  Ready' /\ Exact
    OBVIOUS
  <2>1. CASE Machine!IsaStep
    BY <2>1, ReadyStep DEF Ready
  <2>2. CASE UNCHANGED <<At, rf, dpcr, sop, pm>>
    BY <2>2 DEF Ready
  <2> QED
    BY <2>1, <2>2, FetchStep
<1> QED
  BY <1>1, <1>2, <1>3, <1>4, CoreTypeCorrect, PTL DEF CoreSpec, CallsExactAlone
=============================================================================
