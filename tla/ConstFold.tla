------------------------------ MODULE ConstFold ------------------------------
(***************************************************************************)
(* The constant-folding pass (passes/constfold.cpp): an instruction whose  *)
(* operands are all constants becomes `const'.  Its arithmetic is the      *)
(* second copy of the helpers the VM has; the two must agree, or the same  *)
(* expression would have one value compiled and another one run.           *)
(***************************************************************************)
EXTENDS Words, IR

(* fold_binary: [ok |-> FALSE] leaves the instruction for the VM to trap.  *)
Folded(c) == [ok |-> TRUE, out |-> c]
NotFolded == [ok |-> FALSE, out |-> 0]

\* A faulty variant, on which a property must fail.
FoldDiv_unguarded(a, b) == TruncDiv(a, b)

FoldDiv(a, b) == IF a = MinInt /\ b = -1 THEN MinInt ELSE TruncDiv(a, b)
FoldMod(a, b) == IF a = MinInt /\ b = -1 THEN 0 ELSE TruncMod(a, b)

\* A faulty variant, on which a property must fail.
FoldNeg_saturating(a) == IF a = MinInt THEN MaxInt ELSE 0 - a

FoldNeg(a) == Wrap(0 - a)

fold_binary(op, a, b) ==
  IF op \in {"div", "mod"} /\ b = 0 THEN NotFolded
  ELSE CASE op = "add" -> Folded(Wrap(a + b))
         [] op = "sub" -> Folded(Wrap(a - b))
         [] op = "mul" -> Folded(Wrap(a * b))
         [] op = "div" -> Folded(FoldDiv(a, b))
         [] op = "mod" -> Folded(FoldMod(a, b))
         [] op = "lt"  -> Folded(Bit(a < b))
         [] op = "le"  -> Folded(Bit(a <= b))
         [] op = "gt"  -> Folded(Bit(a > b))
         [] op = "ge"  -> Folded(Bit(a >= b))
         [] op = "eq"  -> Folded(Bit(a = b))
         [] op = "ne"  -> Folded(Bit(a # b))
         [] op = "and" -> Folded(Bit(a # 0 /\ b # 0))
         [] op = "or"  -> Folded(Bit(a # 0 \/ b # 0))
         [] OTHER      -> NotFolded

(* What the pass computes for one instruction.  A call with two constant   *)
(* arguments has the shape of a binary operation and is refused by         *)
(* fold_binary's default.                                                  *)
AllConst(in) == \A i \in DOMAIN in.args : is_const(in.args[i])

FoldOf(in) ==
  IF in.dst < 0 \/ in.op \in {"const", "copy"} \/ ~AllConst(in)
  THEN NotFolded
  ELSE LET c(i) == in.args[i].n
       IN  CASE in.op = "neg" /\ Len(in.args) = 1 -> Folded(FoldNeg(c(1)))
             [] in.op = "not" /\ Len(in.args) = 1 -> Folded(Bit(c(1) = 0))
             [] in.op \notin {"neg", "not"} /\ Len(in.args) = 2 -> fold_binary(in.op, c(1), c(2))
             [] OTHER -> NotFolded

constfold(f) ==
  [f |-> [f EXCEPT !.blocks = [k \in DOMAIN f.blocks |-> [i \in DOMAIN f.blocks[k] |->
            LET in == f.blocks[k][i]
                r  == FoldOf(in)
            IN  IF r.ok THEN make_const(in, r.out) ELSE in]]],
   changed |-> \E in \in InstrsOf(f) : FoldOf(in).ok]
=============================================================================
