------------------------------ MODULE Algebraic ------------------------------
(***************************************************************************)
(* The algebraic-simplification pass (passes/algebraic.cpp): an operation  *)
(* one of whose operands decides or does not affect the result becomes     *)
(* `const' or `copy'.                                                      *)
(***************************************************************************)
EXTENDS IR

\* A faulty variant, on which a property must fail.
Is_by_payload(v, c) == v.n = c

Is(v, c) == v = Const(c)          \* is_const(v, c)
Either(a, b, c) == Is(a, c) \/ Is(b, c)

(* The instruction that replaces in, or in itself.  The order of the cases *)
(* is the order of the code's tests.                                       *)
Simplified(in) ==
  IF in.dst < 0 \/ Len(in.args) # 2 THEN in
  ELSE
  LET a == in.args[1]
      b == in.args[2]
      NeutralElse(c, other) == IF Is(b, c) THEN make_copy(in, a)
                               ELSE IF Is(a, c) THEN make_copy(in, b) ELSE other
  IN  CASE in.op = "add" -> NeutralElse(0, in)
        [] in.op = "sub" -> IF Is(b, 0) THEN make_copy(in, a)
                            ELSE IF a = b THEN make_const(in, 0) ELSE in
        [] in.op \in {"mul", "and"} -> IF Either(a, b, 0) THEN make_const(in, 0)
                                       ELSE NeutralElse(1, in)
        [] in.op = "div" -> IF Is(b, 1) THEN make_copy(in, a) ELSE in
        [] in.op = "mod" -> IF Is(b, 1) THEN make_const(in, 0) ELSE in
        [] in.op = "or"  -> IF Either(a, b, 1) THEN make_const(in, 1)
                            ELSE NeutralElse(0, in)
        [] OTHER -> in

algebraic(f) ==
  [f |-> [f EXCEPT !.blocks = [k \in DOMAIN f.blocks |->
            [i \in DOMAIN f.blocks[k] |-> Simplified(f.blocks[k][i])]]],
   changed |-> \E in \in InstrsOf(f) : Simplified(in) # in]
=============================================================================
