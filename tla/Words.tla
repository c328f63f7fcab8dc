------------------------------- MODULE Words -------------------------------
(***************************************************************************)
(* Machine integers of the language.  The compiler computes with int64_t   *)
(* and, because signed overflow is undefined in C++, does every addition,  *)
(* subtraction, multiplication and negation in uint64_t and converts back. *)
(* The width is a parameter: MaxInt stands for INT64_MAX, so that TLC can  *)
(* enumerate a narrow word and the proofs cover every width.               *)
(*                                                                         *)
(* The two evaluators of the program, the constant folder and the VM, each *)
(* have their own copy of the arithmetic helpers; their models (ConstFold, *)
(* VM) share only the conversion below and C++'s own division.             *)
(***************************************************************************)
EXTENDS Integers

CONSTANT MaxInt      \* INT64_MAX; at least 1, so that TRUE is a word

ASSUME MaxIntAssumption == MaxInt \in Nat \ {0}

MinInt == -MaxInt - 1
Word == MinInt .. MaxInt

(* (int64_t) of the uint64_t congruent to x: the word equal to x modulo    *)
(* 2^width.                                                                *)
Wrap(x) == ((x - MinInt) % (2 * (MaxInt + 1))) + MinInt

(* C++'s / and % on signed operands truncate towards zero; TLA+'s \div and *)
(* % round down.  Undefined in C++ for y = 0 and for MinInt / -1: the code *)
(* guards both before it divides.                                          *)
Abs(x) == IF x < 0 THEN -x ELSE x
TruncDiv(x, y) ==
  LET q == Abs(x) \div Abs(y)
  IN  IF (x < 0) = (y < 0) THEN q ELSE -q
TruncMod(x, y) == x - y * TruncDiv(x, y)

(* A C++ bool converted to int64_t.                                        *)
Bit(p) == IF p THEN 1 ELSE 0

(* What the language's operators mean: the mathematical result, reduced to *)
(* a word.  Undefined for a division by zero, which stops the program.     *)
Meaning(op, x, y) ==
  CASE op = "add" -> Wrap(x + y)
    [] op = "sub" -> Wrap(x - y)
    [] op = "mul" -> Wrap(x * y)
    [] op = "div" -> Wrap(TruncDiv(x, y))
    [] op = "mod" -> Wrap(TruncMod(x, y))
    [] op = "lt"  -> Bit(x < y)
    [] op = "le"  -> Bit(x <= y)
    [] op = "gt"  -> Bit(y < x)
    [] op = "ge"  -> Bit(y <= x)
    [] op = "eq"  -> Bit(x = y)
    [] op = "ne"  -> Bit(x # y)
    [] op = "and" -> Bit(x = 1 /\ y = 1)
    [] op = "or"  -> Bit(x = 1 \/ y = 1)

UnaryMeaning(op, x) ==
  CASE op = "neg" -> Wrap(-x)
    [] op = "not" -> 1 - x
=============================================================================
