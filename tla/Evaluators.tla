----------------------------- MODULE Evaluators -----------------------------
(***************************************************************************)
(* One expression, two evaluators.  An operation whose operands the        *)
(* compiler knows is computed by the constant folder, the same operation   *)
(* unoptimised is computed by the VM, and one of whose operands the        *)
(* compiler knows little is rewritten by the algebraic simplifier.  The    *)
(* three must agree, or -O0 and -O1 would differ.                          *)
(*                                                                         *)
(* The state is the end of a chain of operations  x op y,  or  op x  with  *)
(* y = 0, in which each x is the result before it: `op', `x', `y' are the  *)
(* last one, `folded' what the folder made of the chain and `ran' what the *)
(* VM did; [ok |-> FALSE] is a refusal to fold, or a trap.                 *)
(***************************************************************************)
EXTENDS ConstFold, Algebraic, Codegen, Arith

VARIABLES op, x, y, folded, ran

vars == <<op, x, y, folded, ran>>

UnaryIROps == {"neg", "not"}
IROps == BinaryIROps \cup UnaryIROps

(* A unary operation is folded by the pass and run by the VM, and neither  *)
(* ever refuses it.                                                        *)
FoldUnary(o, a) == FoldOf(Ins(o, 2, <<Const(a)>>))
RunUnary(o, a) == Folded(Alu1(IF o = "neg" THEN "Neg" ELSE "Not", a))

RunBinary(o, a, b) ==
  IF DividesByZero(bin_bop[o], b) THEN NotFolded ELSE Folded(Alu(bin_bop[o], a, b))

(* && and || only ever combine bits, and only bits are negated by !.       *)
Operands(o) == IF o \in {"and", "or", "not"} THEN {0, 1} ELSE Word

Init ==
  /\ op = "add" /\ x \in Word /\ y = 0
  /\ folded = fold_binary(op, x, y)
  /\ ran = RunBinary(op, x, y)

StepUnary(o) ==
  /\ ran.ok /\ ran.out \in Operands(o)
  /\ op' = o /\ x' = ran.out /\ y' = 0
  /\ folded' = FoldUnary(o, folded.out)
  /\ ran' = RunUnary(o, ran.out)

StepBinary(o, b) ==
  /\ ran.ok /\ ran.out \in Operands(o) /\ b \in Operands(o)
  /\ op' = o /\ x' = ran.out /\ y' = b
  /\ folded' = fold_binary(o, folded.out, b)
  /\ ran' = RunBinary(o, ran.out, b)

Next ==
  \/ \E o \in UnaryIROps : StepUnary(o)
  \/ \E o \in BinaryIROps, b \in Word : StepBinary(o, b)

Spec == Init /\ [][Next]_vars

-----------------------------------------------------------------------------
(* The folder and the VM compute the same word, and the folder refuses     *)
(* exactly what the VM traps on ("both sides use identical helpers so a    *)
(* folded constant and a runtime computation can never disagree", SPEC.md).*)
FolderAgreesWithVM == folded = ran

(* What the VM computes is the mathematical result of the operation        *)
(* wrapped to a word, MinInt / -1 and its remainder included.              *)
VMComputesTheMeaning ==
  ran.ok => /\ ran.out \in Word
            /\ ran.out = IF op \in UnaryIROps THEN UnaryMeaning(op, x) ELSE Meaning(op, x, y)

(* The operands as the simplifier may see them: each a constant or a temp, *)
(* two operands of one value possibly the same temp.                       *)
BinaryViews == { v \in {Const(x), Temp(0)} \X {Const(y), Temp(0), Temp(1)} :
                   v = <<Temp(0), Temp(0)>> => x = y }
Views == IF op \in UnaryIROps THEN { <<Const(x)>>, <<Temp(0)>> } ELSE BinaryViews
ValueOf(v, a) == IF is_const(v) THEN v.n ELSE IF v = a THEN x ELSE y

(* What the simplifier replaces an operation by has the value the VM would *)
(* have computed, whatever it knows of the operands, and it never rewrites *)
(* an operation that traps.                                                *)
SimplifierAgreesWithVM ==
  \A v \in Views :
    LET in == Ins(op, 2, v)
        new == Simplified(in)
    IN  new # in => /\ ran.ok
                    /\ new.dst = 2 /\ new.op \in {"const", "copy"}
                    /\ ValueOf(new.args[1], v[1]) = ran.out
=============================================================================
