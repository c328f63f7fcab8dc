------------------------------ MODULE Printers ------------------------------
(***************************************************************************)
(* What --emit=ast (ast_print.cpp) and --emit=bc (codegen.cpp) print of a  *)
(* program: lines of words, a tree's with their indentation.               *)
(***************************************************************************)
EXTENDS IRGen, Codegen, TLC

binop_str == [add |-> "+", sub |-> "-", mul |-> "*", div |-> "/", mod |-> "%", lt |-> "<", le |-> "<=",
              gt |-> ">", ge |-> ">=", eq |-> "==", ne |-> "!=", and |-> "&&", or |-> "||"]
unop_str == [neg |-> "-", not |-> "!"]

RECURSIVE expr_to_string(_), print_block(_, _)

\* A faulty variant, on which a property must fail.
Group_open(ws) == ws

Group(ws) == <<"(">> \o ws \o <<")">>

expr_to_string(e) ==
  CASE e.kind = "IntLit"  -> << ToString(e.value) >>
    [] e.kind = "BoolLit" -> << IF e.truth THEN "true" ELSE "false" >>
    [] e.kind = "Var"     -> << e.name >>
    [] e.kind = "Unary"   -> Group(<< unop_str[e.op] >> \o expr_to_string(e.operand))
    [] e.kind = "Binary"  -> Group(<< binop_str[e.op] >> \o expr_to_string(e.lhs) \o expr_to_string(e.rhs))
    [] e.kind = "Call"    -> Group(<< "call", e.callee >>
                                   \o FlattenSeq([i \in DOMAIN e.args |-> expr_to_string(e.args[i])]))

Line(depth, ws) == << [depth |-> depth, words |-> ws] >>

(* A statement's own line, and the blocks below it.                        *)
Heading(s) ==
  CASE s.kind = "Let"      -> <<"let", s.name, ":", s.declared, "=">> \o expr_to_string(s.init)
    [] s.kind = "Assign"   -> <<"assign", s.name, "=">> \o expr_to_string(s.value)
    [] s.kind = "If"       -> <<"if">> \o expr_to_string(s.cond)
    [] s.kind = "While"    -> <<"while">> \o expr_to_string(s.cond)
    [] s.kind = "Return"   -> <<"return">> \o expr_to_string(s.value)
    [] s.kind = "Print"    -> <<"print">> \o expr_to_string(s.value)
    [] s.kind = "ExprStmt" -> <<"expr">> \o expr_to_string(s.expr)
    [] s.kind = "Block"    -> <<"block">>

print_stmt(s, depth) ==
  Line(depth, Heading(s)) \o
  CASE s.kind = "If"    -> print_block(s.then_blk, depth + 1)
                           \o IF s.has_else THEN Line(depth, <<"else">>) \o print_block(s.else_blk, depth + 1)
                              ELSE <<>>
    [] s.kind = "While" -> print_block(s.body, depth + 1)
    [] s.kind = "Block" -> print_block(s.stmts, depth + 1)
    [] OTHER            -> <<>>

print_block(b, depth) == FlattenSeq([i \in DOMAIN b |-> print_stmt(b[i], depth)])

FunctionLines(f) ==
  Line(0, <<"fn", f.name>> \o FlattenSeq([i \in DOMAIN f.params |-> <<f.params[i].name, f.params[i].type>>])
          \o <<"->", f.ret_type>>)
  \o print_block(f.body, 1)

ast_to_string(p) == FlattenSeq([i \in DOMAIN p |-> FunctionLines(p[i])])
-----------------------------------------------------------------------------
(* Bytecode.                                                               *)
\* A faulty variant, on which a property must fail.
ostr_bare(o) == ToString(IF o.imm THEN o.val ELSE o.reg)

ostr(o) == IF o.imm THEN ToString(o.val) ELSE "r" \o ToString(o.reg)

CodeLine(c) ==
  (IF c.dst >= 0 /\ c.op # "StoreSlot" THEN <<c.op, "r" \o ToString(c.dst)>> ELSE <<c.op>>) \o
  CASE c.op \in {"LoadConst", "Move", "Neg", "Not", "Print", "Ret"} -> <<ostr(c.a)>>
    [] c.op = "LoadSlot"   -> << "@" \o ToString(c.slot_idx) >>
    [] c.op = "StoreSlot"  -> << "@" \o ToString(c.slot_idx), ostr(c.a) >>
    [] c.op = "Jmp"        -> << "->" \o ToString(c.target) >>
    [] c.op = "JmpIfFalse" -> << ostr(c.a), "->" \o ToString(c.target) >>
    [] c.op = "Call"       -> << ToString(c.callee) >> \o [i \in DOMAIN c.args |-> ostr(c.args[i])]
    [] OTHER               -> << ostr(c.a), ostr(c.b) >>

bc_to_string(p) ==
  FlattenSeq([i \in DOMAIN p.funcs |->
    << <<"fn", ToString(p.funcs[i].num_regs), ToString(p.funcs[i].num_slots), ToString(p.funcs[i].num_params)>> >>
    \o [k \in DOMAIN p.funcs[i].code |-> CodeLine(p.funcs[i].code[k])]])
=============================================================================
