-------------------------------- MODULE Sema --------------------------------
(***************************************************************************)
(* Semantic analysis (sema.cpp): scopes, types, calls, and the             *)
(* all-paths-return rule.  The checker's members are threaded through as   *)
(* a record s:                                                             *)
(*    funcs   signatures, collected before any body is checked             *)
(*    scopes  innermost last, each a map from names to types               *)
(*    ret     return type of the function being checked                    *)
(*    errors  the diagnostics, each abstracted to the rule it reports      *)
(***************************************************************************)
EXTENDS Syntax, FiniteSets, SequencesExt

Error(s, rule) == [s EXCEPT !.errors = Append(@, rule)]
ErrorIf(s, bad, rule) == IF bad THEN Error(s, rule) ELSE s

(* A type that is wrong, unless it is the poison of an earlier error.      *)
Mismatch(actual, wanted) == actual # "error" /\ actual # wanted

OpenScope(s) == [s EXCEPT !.scopes = Append(@, <<>>)]
CloseScope(s) == [s EXCEPT !.scopes = Front(@)]

(* declare: a second declaration of a name in its scope is an error and    *)
(* leaves the first.                                                       *)
declare(s, name, t, rule) ==
  IF name \in DOMAIN Last(s.scopes) THEN Error(s, rule)
  ELSE [s EXCEPT !.scopes[Len(s.scopes)] = (name :> t) @@ @]

lookup(s, name) ==
  LET i == SelectLastInSeq(s.scopes, LAMBDA m : name \in DOMAIN m)
  IN  IF i = 0 THEN [found |-> FALSE, type |-> "error"]
      ELSE [found |-> TRUE, type |-> s.scopes[i][name]]

-----------------------------------------------------------------------------
Typed(s, t) == [s |-> s, t |-> t]
Poison(s, rule) == Typed(Error(s, rule), "error")

(* Operand and result types of the operators.                              *)
BinaryType(s, op, lt, rt) ==
  LET Both(t) == lt = t /\ rt = t
      Check(good, t) == IF good THEN Typed(s, t) ELSE Poison(s, "operands")
  IN  IF lt = "error" \/ rt = "error" THEN Typed(s, "error")
      ELSE CASE op \in {"add", "sub", "mul", "div", "mod"} -> Check(Both("int"), "int")
             [] op \in {"lt", "le", "gt", "ge"} -> Check(Both("int"), "bool")
             [] op \in {"eq", "ne"} -> Check(lt = rt, "bool")
             [] op \in {"and", "or"} -> Check(Both("bool"), "bool")

\* A faulty variant, on which a property must fail.
UnaryType_cascading(s, op, t) ==
  LET wanted == IF op = "neg" THEN "int" ELSE "bool"
  IN  IF t # wanted THEN Poison(s, "operands") ELSE Typed(s, wanted)

UnaryType(s, op, t) ==
  LET wanted == IF op = "neg" THEN "int" ELSE "bool"
  IN  IF t = "error" THEN Typed(s, t)
      ELSE IF t # wanted THEN Poison(s, "operands") ELSE Typed(s, wanted)

(* A call's arguments are already checked (types ts) when its callee is    *)
(* looked up; a call of the wrong arity still has the callee's type.       *)
CallType(s, callee, ts) ==
  IF callee \notin DOMAIN s.funcs THEN Poison(s, "undefined function")
  ELSE LET sig == s.funcs[callee]
           bad == { i \in DOMAIN ts : Mismatch(ts[i], sig.params[i]) }
       IN  Typed(IF Len(ts) # Len(sig.params) THEN Error(s, "arity")
                 ELSE [s EXCEPT !.errors = @ \o [k \in 1 .. Cardinality(bad) |-> "argument"]],
                 sig.ret)

RECURSIVE check_expr(_, _), check_args(_, _), check_stmt(_, _), check_block(_, _)

check_expr(s, e) ==
  CASE e.kind = "IntLit"  -> Typed(s, "int")
    [] e.kind = "BoolLit" -> Typed(s, "bool")
    [] e.kind = "Var"     -> LET d == lookup(s, e.name)
                             IN  IF d.found THEN Typed(s, d.type)
                                 ELSE Poison(s, "undeclared variable")
    [] e.kind = "Unary"   -> LET o == check_expr(s, e.operand) IN UnaryType(o.s, e.op, o.t)
    [] e.kind = "Binary"  -> LET l == check_expr(s, e.lhs)
                                 r == check_expr(l.s, e.rhs)
                             IN  BinaryType(r.s, e.op, l.t, r.t)
    [] e.kind = "Call"    -> LET a == check_args(s, e.args) IN CallType(a.s, e.callee, a.t)

check_args(s, es) ==
  IF es = <<>> THEN Typed(s, <<>>)
  ELSE LET init == check_args(s, Front(es))
           last == check_expr(init.s, Last(es))
       IN  Typed(last.s, Append(init.t, last.t))

check_block(s, stmts) == CloseScope(FoldLeft(check_stmt, OpenScope(s), stmts))

check_stmt(s, st) ==
  CASE st.kind = "Let" ->
         LET r == check_expr(s, st.init)
         IN  declare(ErrorIf(r.s, Mismatch(r.t, st.declared), "initialiser"),
                     st.name, st.declared, "redeclaration")
    [] st.kind = "Assign" ->
         LET r == check_expr(s, st.value)
             d == lookup(r.s, st.name)
         IN  IF ~d.found THEN Error(r.s, "assignment to undeclared")
             ELSE ErrorIf(r.s, Mismatch(r.t, d.type), "assignment")
    [] st.kind \in {"If", "While"} ->
         LET c  == check_expr(s, st.cond)
             s1 == ErrorIf(c.s, Mismatch(c.t, "bool"), "condition")
         IN  IF st.kind = "While" THEN check_block(s1, st.body)
             ELSE LET s2 == check_block(s1, st.then_blk)
                  IN  IF st.has_else THEN check_block(s2, st.else_blk) ELSE s2
    [] st.kind = "Return" ->
         LET r == check_expr(s, st.value) IN ErrorIf(r.s, Mismatch(r.t, s.ret), "return type")
    [] st.kind = "Print" ->
         LET r == check_expr(s, st.value) IN ErrorIf(r.s, Mismatch(r.t, "int"), "print")
    [] st.kind = "ExprStmt" -> check_expr(s, st.expr).s
    [] st.kind = "Block" -> check_block(s, st.stmts)

-----------------------------------------------------------------------------
(* All-paths-return: conservative, no loop is assumed to run.              *)
RECURSIVE stmt_always_returns(_)
always_returns(stmts) == \E i \in DOMAIN stmts : stmt_always_returns(stmts[i])
\* A faulty variant, on which a property must fail.
stmt_always_returns_without_else(st) ==
  \/ st.kind = "Return"
  \/ st.kind = "If" /\ always_returns(st.then_blk)
  \/ st.kind = "Block" /\ always_returns(st.stmts)

stmt_always_returns(st) ==
  \/ st.kind = "Return"
  \/ st.kind = "If" /\ st.has_else /\ always_returns(st.then_blk) /\ always_returns(st.else_blk)
  \/ st.kind = "Block" /\ always_returns(st.stmts)

check_function(s, fn) ==
  LET s1 == FoldLeft(LAMBDA t, p : declare(t, p.name, p.type, "duplicate parameter"),
                     OpenScope([s EXCEPT !.ret = fn.ret_type]), fn.params)
      s2 == CloseScope(check_block(s1, fn.body))
  IN  ErrorIf(s2, ~always_returns(fn.body), "missing return")

(* Signatures first: a function of a name already taken is reported and    *)
(* keeps out of the table, but its body is checked all the same.           *)
CollectSignature(s, fn) ==
  IF fn.name \in DOMAIN s.funcs THEN Error(s, "duplicate function")
  ELSE [s EXCEPT !.funcs = (fn.name :> [ret |-> fn.ret_type,
                                        params |-> [i \in DOMAIN fn.params |-> fn.params[i].type]]) @@ @]

CheckMain(s) ==
  IF "main" \notin DOMAIN s.funcs THEN Error(s, "no main")
  ELSE ErrorIf(s, s.funcs["main"] # [ret |-> "int", params |-> <<>>], "main signature")

(* The diagnostics of a program, function by function after those of the   *)
(* signatures; it is accepted if there are none.  A body is checked against*)
(* the signatures alone: it leaves no scope behind.                        *)
check(program) ==
  LET s0 == [funcs |-> <<>>, scopes |-> <<>>, ret |-> "int", errors |-> <<>>]
      s1 == CheckMain(FoldLeft(CollectSignature, s0, program))
      bodies == [i \in DOMAIN program |->
                   check_function([s1 EXCEPT !.errors = <<>>], program[i]).errors]
  IN  s1.errors \o FlattenSeq(bodies)
=============================================================================
