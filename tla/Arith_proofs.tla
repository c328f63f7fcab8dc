---------------------------- MODULE Arith_proofs ----------------------------
(***************************************************************************)
(* The arithmetic of a word of any width stays within the word.            *)
(***************************************************************************)
EXTENDS Arith, TLAPS

(* Reducing an integer to a word gives a word, and a word is left alone.   *)
LEMMA WrapWord == \A n \in Int : Wrap(n) \in Word
  BY MaxIntAssumption DEF Wrap, Word, MinInt

LEMMA WrapId == \A n \in Word : Wrap(n) = n
  BY MaxIntAssumption DEF Wrap, Word, MinInt

(* Euclid's division of naturals, on which truncating division rests.      *)
LEMMA DivisionOfNaturals ==
  ASSUME NEW a \in Nat, NEW b \in Nat \ {0}
  PROVE  /\ a \div b \in Nat
         /\ a % b \in 0 .. b - 1
         /\ a = b * (a \div b) + (a % b)
         /\ a \div b <= a
         /\ b >= 2 => 2 * (a \div b) <= a
  <1>1. a \div b \in Int /\ a % b \in 0 .. b - 1 /\ a = b * (a \div b) + (a % b)
    OBVIOUS
  <1> DEFINE q == a \div b
  <1>2. q \in Nat
    BY <1>1
  <1>3. q <= b * q
    BY <1>2
  <1>4. b >= 2 => 2 * q <= b * q
    BY <1>2
  <1> QED
    BY <1>1, <1>2, <1>3, <1>4

(* The C++ quotient of two words is a word, except for MinInt / -1.        *)
LEMMA TruncDivWord ==
  ASSUME NEW a \in Word, NEW b \in Word, b # 0, ~(a = MinInt /\ b = -1)
  PROVE  TruncDiv(a, b) \in Word
  <1> DEFINE q == Abs(a) \div Abs(b)
  <1>1. Abs(a) \in Nat /\ Abs(b) \in Nat \ {0}
    BY MaxIntAssumption DEF Abs, Word, MinInt
  <1>2. q \in Nat /\ q <= Abs(a) /\ (Abs(b) >= 2 => 2 * q <= Abs(a))
    BY <1>1, DivisionOfNaturals
  <1>3. TruncDiv(a, b) = IF (a < 0) = (b < 0) THEN q ELSE -q
    BY DEF TruncDiv
  <1> HIDE DEF q
  <1>4. CASE a > MinInt
    BY <1>2, <1>3, <1>4, MaxIntAssumption DEF Abs, Word, MinInt
  <1>5. CASE a = MinInt
    BY <1>2, <1>3, <1>5, MaxIntAssumption DEF Abs, Word, MinInt
  <1> QED
    BY <1>4, <1>5, MaxIntAssumption DEF Word, MinInt

(* So is the remainder, which is smaller than the divisor, without         *)
(* exception.                                                              *)
LEMMA TruncModWord ==
  ASSUME NEW a \in Word, NEW b \in Word, b # 0
  PROVE  TruncMod(a, b) \in Word
  <1> DEFINE q == Abs(a) \div Abs(b)
             r == Abs(a) % Abs(b)
  <1>1. Abs(a) \in Nat /\ Abs(b) \in Nat \ {0}
    BY MaxIntAssumption DEF Abs, Word, MinInt
  <1>2. q \in Nat /\ r \in 0 .. Abs(b) - 1 /\ Abs(a) = Abs(b) * q + r
    BY <1>1, DivisionOfNaturals
  <1>3. TruncMod(a, b) = a - b * (IF (a < 0) = (b < 0) THEN q ELSE -q)
    BY DEF TruncMod, TruncDiv
  <1> HIDE DEF q, r
  <1>4. TruncMod(a, b) = IF a < 0 THEN -r ELSE r
    BY <1>2, <1>3, MaxIntAssumption DEF Abs, Word, MinInt
  <1> QED
    BY <1>2, <1>4, MaxIntAssumption DEF Abs, Word, MinInt

-----------------------------------------------------------------------------
(* Every computing opcode of the VM that does not trap leaves a word.      *)
LEMMA AluWord ==
  ASSUME NEW o \in BinaryOps, NEW a \in Word, NEW b \in Word, ~DividesByZero(o, b)
  PROVE  Alu(o, a, b) \in Word
  <1>1. a \in Int /\ b \in Int /\ {0, 1, MinInt} \subseteq Word
    BY MaxIntAssumption DEF Word, MinInt
  <1>2. CASE o \in {"Add", "Sub", "Mul"}
    BY <1>1, <1>2, WrapWord DEF Alu
  <1>3. CASE o = "Div"
    BY <1>1, <1>3, TruncDivWord DEF Alu, Quotient, DividesByZero
  <1>4. CASE o = "Mod"
    BY <1>1, <1>4, TruncModWord DEF Alu, Remainder, DividesByZero
  <1>5. CASE o \in CompareOps
    BY <1>1, <1>5 DEF Alu, Bit, CompareOps
  <1> QED
    BY <1>2, <1>3, <1>4, <1>5 DEF BinaryOps, ArithOps

LEMMA Alu1Word ==
  ASSUME NEW o \in {"Neg", "Not"}, NEW a \in Word
  PROVE  Alu1(o, a) \in Word
  <1>1. a \in Int /\ {0, 1} \subseteq Word
    BY MaxIntAssumption DEF Word, MinInt
  <1> QED
    BY <1>1, WrapWord DEF Alu1, Bit
=============================================================================
