------------------------------- MODULE Syntax -------------------------------
(***************************************************************************)
(* The syntax trees of ast.h, as the parser hands them to Sema and IRGen.  *)
(* A program is a sequence of functions, a block a sequence of statements. *)
(* Operators are named as in the IR (binop_to_ir is then a relabelling),   *)
(* literals hold words, and source positions are left out.                 *)
(***************************************************************************)
EXTENDS Naturals, Sequences

IntLit(v) == [kind |-> "IntLit", value |-> v]
BoolLit(b) == [kind |-> "BoolLit", truth |-> b]
Var(x) == [kind |-> "Var", name |-> x]
Unary(op, e) == [kind |-> "Unary", op |-> op, operand |-> e]
Binary(op, l, r) == [kind |-> "Binary", op |-> op, lhs |-> l, rhs |-> r]
CallExpr(fn, args) == [kind |-> "Call", callee |-> fn, args |-> args]

Let(x, ty, e) == [kind |-> "Let", name |-> x, declared |-> ty, init |-> e]
Assign(x, e) == [kind |-> "Assign", name |-> x, value |-> e]
IfElse(c, s, t) == [kind |-> "If", cond |-> c, then_blk |-> s, has_else |-> TRUE, else_blk |-> t]
If(c, s) == [kind |-> "If", cond |-> c, then_blk |-> s, has_else |-> FALSE, else_blk |-> <<>>]
While(c, s) == [kind |-> "While", cond |-> c, body |-> s]
Return(e) == [kind |-> "Return", value |-> e]
PrintStmt(e) == [kind |-> "Print", value |-> e]
ExprStmt(e) == [kind |-> "ExprStmt", expr |-> e]
BlockStmt(s) == [kind |-> "Block", stmts |-> s]

Param(x, ty) == [name |-> x, type |-> ty]
Function(f, params, ty, body) == [name |-> f, params |-> params, ret_type |-> ty, body |-> body]
=============================================================================
