------------------------------ MODULE Language ------------------------------
(***************************************************************************)
(* The reference: what a source program means, as a big-step interpreter   *)
(* of the syntax tree.  Nothing in the repository does this; the compiler  *)
(* and the VM are checked against it.  && and || short-circuit, evaluation *)
(* is left to right, arithmetic wraps, and a division by zero or a call    *)
(* deeper than kMaxDepth stops the program.  Values carry their type, and  *)
(* an operation on a value of the wrong type, an unknown name, a wrong     *)
(* number of arguments or a function that ends without returning leaves    *)
(* the program "stuck": it has no meaning.                                 *)
(*                                                                         *)
(* The interpreter threads a record c: the scopes `env' (innermost last),  *)
(* the words printed so far `out', the control state `ctl', the value of   *)
(* the expression just evaluated `val', and `fuel', a bound on calls and   *)
(* iterations for programs that would run for ever.                        *)
(***************************************************************************)
EXTENDS Words, Syntax, SequencesExt

CONSTANTS kMaxDepth, Fuel

Int64(n) == [type |-> "int", word |-> n]
Bool(b) == [type |-> "bool", word |-> Bit(b)]

Go == "go"
Running(c) == c.ctl = Go
Stop(c, why) == [c EXCEPT !.ctl = why]
Then(c, next) == IF Running(c) THEN next ELSE c
Yield(c, v) == [c EXCEPT !.val = v]
(* c goes on if what it has just evaluated is of the type.                 *)
Need(c, type) == IF Running(c) /\ type \notin {"any", c.val.type} THEN Stop(c, "stuck") ELSE c

Scope(c, name) == SelectLastInSeq(c.env, LAMBDA m : name \in DOMAIN m)
Bind(c, i, name, v) == [c EXCEPT !.env[i] = (name :> v) @@ @]

(* A strict binary operator applied to l and the value of c.               *)
Apply(c, op, l) ==
  CASE l.type # c.val.type \/ (op \notin {"eq", "ne"} /\ l.type # "int") -> Stop(c, "stuck")
    [] op \in {"div", "mod"} /\ l.type = "int" /\ c.val = Int64(0) ->
         Stop(c, IF op = "div" THEN "division_by_zero" ELSE "modulo_by_zero")
    [] OTHER -> LET w == Meaning(op, l.word, c.val.word)
                IN  Yield(c, IF op \in {"add", "sub", "mul", "div", "mod"} THEN Int64(w) ELSE Bool(w = 1))

(* The expression of a statement, and the type its value must have; "any"  *)
(* for a statement that takes both.  An assignment needs a variable.       *)
Subject(s) == CASE s.kind = "Let" -> s.init
                [] s.kind \in {"Assign", "Print", "Return"} -> s.value
                [] s.kind = "ExprStmt" -> s.expr
                [] s.kind \in {"If", "While"} -> s.cond
Wanted(c, s) == CASE s.kind = "Let" -> s.declared
                  [] s.kind = "Assign" -> IF Scope(c, s.name) = 0 THEN "none"
                                          ELSE c.env[Scope(c, s.name)][s.name].type
                  [] s.kind = "Print" -> "int"
                  [] s.kind \in {"If", "While"} -> "bool"
                  [] s.kind \in {"Return", "ExprStmt"} -> "any"

(* Back from the body of f, called by c; and from a block to the scopes    *)
(* around it.                                                              *)
Returned(c, f, r) ==
  CASE r.ctl = "return" -> Need([r EXCEPT !.ctl = Go, !.env = c.env], f.ret_type)
    [] r.ctl = Go -> Stop(r, "stuck")
    [] OTHER -> r
Leave(c) == IF Running(c) THEN [c EXCEPT !.env = Front(@)] ELSE c

RECURSIVE Eval(_, _, _, _), EvalArgs(_, _, _, _), Invoke(_, _, _, _, _), Exec(_, _, _, _),
          ExecAll(_, _, _, _), ExecEach(_, _, _, _), Do(_, _, _, _)

(* P is the program, d the current call depth.                             *)
Eval(P, d, c, e) ==
  IF ~Running(c) THEN c
  ELSE CASE e.kind = "IntLit"  -> Yield(c, Int64(e.value))
         [] e.kind = "BoolLit" -> Yield(c, Bool(e.truth))
         [] e.kind = "Var" -> LET i == Scope(c, e.name)
                              IN  IF i = 0 THEN Stop(c, "stuck") ELSE Yield(c, c.env[i][e.name])
         [] e.kind = "Unary" -> LET o == Need(Eval(P, d, c, e.operand), IF e.op = "neg" THEN "int" ELSE "bool")
                                IN  Then(o, Yield(o, IF e.op = "neg" THEN Int64(Wrap(-o.val.word))
                                                     ELSE Bool(o.val.word = 0)))
         [] e.kind = "Binary" /\ e.op \in {"and", "or"} ->
              LET l == Need(Eval(P, d, c, e.lhs), "bool")
              IN  IF ~Running(l) \/ l.val = Bool(e.op = "or") THEN l ELSE Need(Eval(P, d, l, e.rhs), "bool")
         [] e.kind = "Binary" /\ e.op \notin {"and", "or"} ->
              LET l == Eval(P, d, c, e.lhs)
                  r == Eval(P, d, l, e.rhs)
              IN  Then(r, Apply(r, e.op, l.val))
         [] e.kind = "Call" -> LET a == EvalArgs(P, d, c, e.args)
                               IN  Then(a, Invoke(P, d, a, e.callee, a.val))

EvalArgs(P, d, c, es) ==
  IF es = <<>> THEN Yield(c, <<>>)
  ELSE LET init == EvalArgs(P, d, c, Front(es))
           last == Eval(P, d, init, Last(es))
       IN  Then(last, Yield(last, Append(init.val, last.val)))

(* The callee runs in scopes of its own and must return.                   *)
Invoke(P, d, c, fn, args) ==
  LET i == SelectInSeq(P, LAMBDA f : f.name = fn)
      f == P[i]
      Fits == /\ Len(args) = Len(f.params)
              /\ \A k \in DOMAIN args : args[k].type = f.params[k].type
      params == [n \in { f.params[k].name : k \in DOMAIN f.params } |->
                   args[SelectInSeq(f.params, LAMBDA p : p.name = n)]]
  IN  CASE i = 0 -> Stop(c, "stuck")
        [] i # 0 /\ ~Fits -> Stop(c, "stuck")
        [] i # 0 /\ Fits /\ d + 1 > kMaxDepth -> Stop(c, "stack_overflow")
        [] i # 0 /\ Fits /\ d + 1 <= kMaxDepth /\ c.fuel = 0 -> Stop(c, "diverges")
        [] OTHER ->
             Returned(c, f, ExecAll(P, d + 1, [c EXCEPT !.env = <<params>>, !.fuel = @ - 1], f.body))

ExecAll(P, d, c, stmts) == Leave(ExecEach(P, d, [c EXCEPT !.env = Append(@, <<>>)], stmts))

ExecEach(P, d, c, stmts) ==
  IF stmts = <<>> THEN c ELSE Exec(P, d, ExecEach(P, d, c, Front(stmts)), Last(stmts))

(* Every statement but a block begins by evaluating its expression.        *)
Exec(P, d, c, s) ==
  CASE ~Running(c) -> c
    [] Running(c) /\ s.kind = "Block" -> ExecAll(P, d, c, s.stmts)
    [] OTHER -> Do(P, d, Need(Eval(P, d, c, Subject(s)), Wanted(c, s)), s)

(* The rest of statement s, the value of its expression being c's.         *)
Do(P, d, c, s) ==
  CASE ~Running(c) -> c
    [] Running(c) /\ s.kind = "Let" -> Bind(c, Len(c.env), s.name, c.val)
    [] Running(c) /\ s.kind = "Assign" -> Bind(c, Scope(c, s.name), s.name, c.val)
    [] Running(c) /\ s.kind = "Print" -> [c EXCEPT !.out = Append(@, c.val.word)]
    [] Running(c) /\ s.kind = "Return" -> Stop(c, "return")
    [] Running(c) /\ s.kind = "ExprStmt" -> c
    [] Running(c) /\ s.kind = "If" ->
         ExecAll(P, d, c, IF c.val = Bool(TRUE) THEN s.then_blk ELSE s.else_blk)
    [] Running(c) /\ s.kind = "While" ->
         CASE c.val = Bool(FALSE) -> c
           [] c.val = Bool(TRUE) /\ c.fuel = 0 -> Stop(c, "diverges")
           [] OTHER -> Exec(P, d, ExecAll(P, d, [c EXCEPT !.fuel = @ - 1], s.body), s)

(* What the program does, run from main: what it prints, how it ends ("ok" *)
(* or the reason it stops), and the value main returns.                    *)
Outcome(P) ==
  LET c0 == [env |-> <<>>, out |-> <<>>, ctl |-> Go, val |-> Int64(0), fuel |-> Fuel]
      c  == Invoke(P, 0, c0, "main", <<>>)
  IN  [out |-> c.out, end |-> IF Running(c) THEN "ok" ELSE c.ctl,
       value |-> IF Running(c) THEN c.val.word ELSE 0]
=============================================================================
