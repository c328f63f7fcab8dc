-------------------------------- MODULE IRGen --------------------------------
(***************************************************************************)
(* Lowering of a checked syntax tree to IR (irgen.cpp).  The generator's   *)
(* members are threaded through as a record g:                             *)
(*    f       the function being built                                     *)
(*    cur     the block instructions are appended to                       *)
(*    done    terminated_: whether that block has its terminator           *)
(*    scopes  innermost last, each a map from names to slots               *)
(* Syntax trees are the records of module Syntax.                          *)
(***************************************************************************)
EXTENDS IR, Syntax

(* Growing the function.                                                   *)
new_block(g) == [g EXCEPT !.f.blocks = Append(@, <<>>)]
new_blocks(g, n) == [g EXCEPT !.f.blocks = @ \o [i \in 1 .. n |-> <<>>]]
NextBlock(g) == Len(g.f.blocks)

emit(g, in) == [g EXCEPT !.f.blocks[g.cur + 1] = Append(@, in)]
emit_terminator(g, in) == IF g.done THEN g ELSE [emit(g, in) EXCEPT !.done = TRUE]
set_cur(g, b) == [g EXCEPT !.cur = b, !.done = FALSE]

(* A fresh temp holding the result of the instruction.                     *)
EmitValue(g, in) ==
  [g |-> [emit(g, [in EXCEPT !.dst = g.f.next_temp]) EXCEPT !.f.next_temp = @ + 1],
   v |-> Temp(g.f.next_temp)]

StoreTo(slot, v) == [Ins("store", -1, <<v>>) EXCEPT !.slot = slot]
LoadFrom(slot) == [Ins("load", -1, <<>>) EXCEPT !.slot = slot]
Br(b) == [Ins("br", -1, <<>>) EXCEPT !.bb_true = b]
CondBr(c, t, e) == [Ins("condbr", -1, <<c>>) EXCEPT !.bb_true = t, !.bb_false = e]

(* Scopes.                                                                 *)
push_scope(g) == [g EXCEPT !.scopes = Append(@, <<>>)]
pop_scope(g) == [g EXCEPT !.scopes = Front(@)]
new_slot(g) == [g EXCEPT !.f.num_slots = @ + 1]
declare_slot(g, name) ==
  [new_slot(g) EXCEPT !.scopes[Len(g.scopes)] = (name :> g.f.num_slots) @@ @]
lookup_slot(g, name) ==
  LET i == SelectLastInSeq(g.scopes, LAMBDA s : name \in DOMAIN s)
  IN  IF i = 0 THEN -1 ELSE g.scopes[i][name]

-----------------------------------------------------------------------------
RECURSIVE gen_expr(_, _), gen_args(_, _), gen_short_circuit(_, _), gen_stmt(_, _), gen_block(_, _)

gen_expr(g, e) ==
  CASE e.kind = "IntLit"  -> [g |-> g, v |-> Const(e.value)]
    [] e.kind = "BoolLit" -> [g |-> g, v |-> Const(IF e.truth THEN 1 ELSE 0)]
    [] e.kind = "Var"     -> EmitValue(g, LoadFrom(lookup_slot(g, e.name)))
    [] e.kind = "Unary"   -> LET o == gen_expr(g, e.operand)
                             IN  EmitValue(o.g, Ins(e.op, -1, <<o.v>>))
    [] e.kind = "Binary"  -> IF e.op \in {"and", "or"} THEN gen_short_circuit(g, e)
                             ELSE LET l == gen_expr(g, e.lhs)
                                      r == gen_expr(l.g, e.rhs)
                                  IN  EmitValue(r.g, Ins(e.op, -1, <<l.v, r.v>>))
    [] e.kind = "Call"    -> LET a == gen_args(g, e.args)
                             IN  EmitValue(a.g, [Ins("call", -1, a.v) EXCEPT !.callee = e.callee])

(* Arguments left to right, each operand kept until the call.              *)
gen_args(g, es) ==
  IF es = <<>> THEN [g |-> g, v |-> <<>>]
  ELSE LET init == gen_args(g, Front(es))
           last == gen_expr(init.g, Last(es))
       IN  [g |-> last.g, v |-> Append(init.v, last.v)]

(* && and ||: a branch diamond whose arms store the result in a scratch    *)
(* slot, taken before the left operand is lowered.                         *)
gen_short_circuit(g, b) ==
  LET scratch == g.f.num_slots
      l       == gen_expr(new_slot(g), b.lhs)
      rhsBB   == NextBlock(l.g)
      shortBB == rhsBB + 1
      mergeBB == rhsBB + 2
      isAnd   == b.op = "and"
      g1 == emit_terminator(new_blocks(l.g, 3),
                            IF isAnd THEN CondBr(l.v, rhsBB, shortBB) ELSE CondBr(l.v, shortBB, rhsBB))
      g2 == emit(set_cur(g1, shortBB), StoreTo(scratch, Const(IF isAnd THEN 0 ELSE 1)))
      r  == gen_expr(set_cur(emit_terminator(g2, Br(mergeBB)), rhsBB), b.rhs)
      g3 == emit_terminator(emit(r.g, StoreTo(scratch, r.v)), Br(mergeBB))
  IN  EmitValue(set_cur(g3, mergeBB), LoadFrom(scratch))

(* What follows a return in its block is not lowered.                      *)
gen_next(g, s) == IF g.done THEN g ELSE gen_stmt(g, s)
gen_block(g, stmts) == pop_scope(FoldLeft(gen_next, push_scope(g), stmts))

(* The arms of an if whose condition c is lowered, into the blocks after   *)
(* it; the last new block is the merge.                                    *)
gen_arms(c, arms) ==
  LET first == NextBlock(c.g)
      merge == first + Len(arms)
      Arm(h, k) == emit_terminator(gen_block(set_cur(h, first + k - 1), arms[k]), Br(merge))
      g1 == emit_terminator(new_blocks(c.g, Len(arms) + 1), CondBr(c.v, first, first + 1))
  IN  set_cur(FoldLeft(Arm, g1, [k \in DOMAIN arms |-> k]), merge)
gen_if(g, s) ==
  gen_arms(gen_expr(g, s.cond),
           IF s.has_else THEN <<s.then_blk, s.else_blk>> ELSE <<s.then_blk>>)

gen_while(g, s) ==
  LET headerBB == NextBlock(g)
      c      == gen_expr(set_cur(emit_terminator(new_block(g), Br(headerBB)), headerBB), s.cond)
      bodyBB == NextBlock(c.g)
      exitBB == bodyBB + 1
      g1 == emit_terminator(new_blocks(c.g, 2), CondBr(c.v, bodyBB, exitBB))
      g2 == emit_terminator(gen_block(set_cur(g1, bodyBB), s.body), Br(headerBB))
  IN  set_cur(g2, exitBB)

(* Let evaluates its initialiser before the name is declared.              *)
gen_stmt(g, s) ==
  CASE s.kind = "Let"      -> LET v == gen_expr(g, s.init)
                              IN  emit(declare_slot(v.g, s.name), StoreTo(v.g.f.num_slots, v.v))
    [] s.kind = "Assign"   -> LET v == gen_expr(g, s.value)
                              IN  emit(v.g, StoreTo(lookup_slot(v.g, s.name), v.v))
    [] s.kind = "Print"    -> LET v == gen_expr(g, s.value) IN emit(v.g, Ins("print", -1, <<v.v>>))
    [] s.kind = "Return"   -> LET v == gen_expr(g, s.value)
                              IN  emit_terminator(v.g, Ins("ret", -1, <<v.v>>))
    [] s.kind = "ExprStmt" -> gen_expr(g, s.expr).g
    [] s.kind = "Block"    -> gen_block(g, s.stmts)
    [] s.kind = "If"       -> gen_if(g, s)
    [] s.kind = "While"    -> gen_while(g, s)

-----------------------------------------------------------------------------
(* A block left without a terminator gets an implicit `ret 0'.             *)
finalize_terminators(f) ==
  [f EXCEPT !.blocks = [k \in DOMAIN @ |->
     IF @[k] = <<>> \/ ~op_is_terminator(Last(@[k]).op)
     THEN Append(@[k], Ins("ret", -1, <<Const(0)>>)) ELSE @[k]]]

(* Parameters take the first slots in order, in a scope of their own.      *)
gen_function(fn) ==
  LET f0 == [name |-> fn.name, num_params |-> Len(fn.params), num_slots |-> 0,
             next_temp |-> 0, blocks |-> <<>>]
      g0 == push_scope([f |-> f0, cur |-> -1, done |-> FALSE, scopes |-> <<>>])
      g1 == FoldLeft(LAMBDA g, p : declare_slot(g, p.name), g0, fn.params)
      g2 == gen_block(set_cur(new_block(g1), 0), fn.body)
  IN  finalize_terminators(pop_scope(g2).f)

generate(program) == [i \in DOMAIN program |-> gen_function(program[i])]
=============================================================================
