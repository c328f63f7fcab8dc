------------------------------- MODULE Arith -------------------------------
(***************************************************************************)
(* The arithmetic of the VM (vm.cpp): what each computing opcode does to   *)
(* the words in its operands.  These helpers are the VM's own copies; the  *)
(* constant folder has others (ConstFold).                                 *)
(***************************************************************************)
EXTENDS Bytecode

(* Whether a binary instruction traps, and the word it leaves otherwise.   *)
DividesByZero(op, y) == op \in {"Div", "Mod"} /\ y = 0

\* A faulty variant, on which a property must fail.
Quotient_saturating(x, y) == IF x = MinInt /\ y = -1 THEN MaxInt ELSE TruncDiv(x, y)

Quotient(x, y) == IF x = MinInt /\ y = -1 THEN MinInt ELSE TruncDiv(x, y)
Remainder(x, y) == IF x = MinInt /\ y = -1 THEN 0 ELSE TruncMod(x, y)

Alu(op, x, y) ==
  CASE op = "Add" -> Wrap(x + y)
    [] op = "Sub" -> Wrap(x - y)
    [] op = "Mul" -> Wrap(x * y)
    [] op = "Div" -> Quotient(x, y)
    [] op = "Mod" -> Remainder(x, y)
    [] op = "Lt"  -> Bit(x < y)
    [] op = "Le"  -> Bit(x <= y)
    [] op = "Gt"  -> Bit(x > y)
    [] op = "Ge"  -> Bit(x >= y)
    [] op = "Eq"  -> Bit(x = y)
    [] op = "Ne"  -> Bit(x # y)
    [] op = "And" -> Bit(x # 0 /\ y # 0)
    [] op = "Or"  -> Bit(x # 0 \/ y # 0)

Alu1(op, x) ==
  CASE op = "Neg" -> Wrap(0 - x)
    [] op = "Not" -> Bit(x = 0)
=============================================================================
