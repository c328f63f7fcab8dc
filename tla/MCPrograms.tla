----------------------------- MODULE MCPrograms -----------------------------
(***************************************************************************)
(* The source programs of the model-checking runs: families with holes     *)
(* filled from small sets, chosen so that each rewrite of each pass, each  *)
(* branch of the generator and each rule of Sema has programs it fires on  *)
(* and programs it must leave alone.  A parameter of a function is what    *)
(* the optimiser cannot know: nothing is propagated across calls.          *)
(***************************************************************************)
EXTENDS Words, Syntax

I(v) == IntLit(v)
p == Var("p")
x == Var("x")
y == Var("y")
Plus(a, b) == Binary("add", a, b)
Less(a, b) == Binary("lt", a, b)
IntFn(f, params, body) == Function(f, [i \in DOMAIN params |-> Param(params[i], "int")], "int", body)
Main(body) == IntFn("main", <<>>, body)

(* main prints f(a), and f has a parameter p.                              *)
Calling(f, a) == << IntFn("f", <<"p">>, f),
                    Main(<<PrintStmt(CallExpr("f", <<a>>)), Return(I(0))>>) >>

IntOps == {"add", "sub", "mul", "div", "mod"}

(* Straight-line arithmetic: identities, folding, traps, dead results.     *)
Arith ==
  { Calling(<< Let("x", "int", Binary(op1, e1, e2)),
               Let("y", "int", Binary(op2, x, e3)),
               PrintStmt(p),
               Return(r) >>, a) :
      op1 \in IntOps, op2 \in IntOps, e1 \in {p, I(1)}, e2 \in {p, I(0), I(1)},
      e3 \in {x, I(0), I(1)}, r \in {x, y}, a \in {I(0), I(5)} }

(* Conditions: constant, opaque, short-circuit with a guarded division and *)
(* with nested operators.                                                  *)
True == BoolLit(TRUE)
Six(e) == Less(Binary("div", I(6), e), I(3))
Conds == { True, BoolLit(FALSE), Less(p, I(1)), Unary("not", Binary("ge", x, p)),
           Binary("and", Binary("ne", p, I(0)), Six(p)),
           Binary("or", Binary("eq", p, I(0)), Six(p)),
           Binary("eq", Binary("or", Less(p, I(1)), True), Binary("and", True, Binary("gt", x, p))) }

(* Branches whose arms assign, shadow, print, return early or do nothing,  *)
(* with code after a return.                                               *)
Arms == { <<>>,
          << Assign("x", Plus(x, I(1))) >>,
          << Let("x", "int", I(4)), PrintStmt(x) >>,
          << Assign("x", I(3)), Assign("x", p) >>,
          << BlockStmt(<< Return(p) >>), PrintStmt(x) >> }
(* An arm that leaves a block out of reach, and arms whose blocks come     *)
(* after it and are renumbered.                                            *)
Leaving == << IfElse(Less(x, p), << Return(x) >>, << Return(p) >>) >>
Renumbered == { << If(Less(x, p), << Assign("x", I(3)) >>) >>,
                << While(Less(x, p), << Assign("x", Plus(x, I(1))) >>) >> }
Branches ==
  { Calling(<< Let("x", "int", I(1)), s, PrintStmt(x), Return(x) >>, a) :
      a \in {I(0), I(4)}, s \in { IfElse(c, t, e) : c \in Conds, t \in Arms, e \in Arms }
                                \cup { IfElse(c, Leaving, e) : c \in Conds, e \in Renumbered }
                                \cup { If(c, t) : c \in Conds, t \in Arms } }

(* Loops over an opaque bound: the body's effects, early exits and a       *)
(* nested loop; a loop that never runs.                                    *)
Bodies == { <<>>, << PrintStmt(x) >>,
            << If(Binary("eq", x, I(1)), << Return(Plus(x, p)) >>) >>,
            << Let("y", "int", Binary("mul", x, x)), PrintStmt(Plus(y, I(0))) >>,
            << Let("y", "int", x), While(Less(I(0), y), << Assign("y", Binary("sub", y, I(1))) >>),
               PrintStmt(y) >>,
            << PrintStmt(Binary("mod", I(5), x)) >> }
Loops ==
  { Calling(<< Let("x", "int", I(0)),
               While(c, b \o << Assign("x", Plus(x, I(1))) >>),
               Return(x) >>, a) :
      b \in Bodies, a \in {I(0), I(2)},
      c \in {Less(x, p), BoolLit(FALSE), Binary("and", Less(x, I(3)), Less(x, Plus(p, I(1))))} }

(* Calls: g prints and returns its argument plus one, h prints it and      *)
(* compares; their effects must survive whatever happens to the results.   *)
Callees == << IntFn("g", <<"q">>, << PrintStmt(Var("q")), Return(Plus(Var("q"), I(1))) >>),
              Function("h", <<Param("q", "int")>>, "bool",
                       << PrintStmt(Var("q")), Return(Less(Var("q"), I(2))) >>),
              IntFn("sub", <<"q", "p">>, << Assign("q", Binary("sub", Var("q"), p)), Return(Var("q")) >>) >>
g(e) == CallExpr("g", <<e>>)
h(e) == CallExpr("h", <<e>>)
CallBodies ==
  { << Return(g(g(p))) >>,
    << Return(Binary("sub", g(p), g(I(1)))) >>,
    << Return(Binary("mul", g(p), I(0))) >>,
    << Let("x", "int", p), Assign("x", g(x)), Let("y", "int", Plus(x, g(I(1)))), Return(x) >>,
    << Let("x", "int", I(1)), ExprStmt(g(x)), Assign("x", I(2)), Return(x) >>,
    << Let("x", "int", g(p)), Return(I(0)) >>,
    << If(Binary("and", h(p), h(I(1))), << Return(I(1)) >>), Return(I(2)) >>,
    << If(Binary("or", h(p), h(I(5))), << Return(I(1)) >>), Return(I(2)) >>,
    << Let("x", "int", I(3)), Let("y", "int", CallExpr("sub", <<x, p>>)), PrintStmt(x), Return(y) >>,
    << Return(CallExpr("sub", <<g(p), g(I(2))>>)) >>,
    << If(Less(p, I(1)), << Return(I(1)) >>), Return(Binary("mul", p, CallExpr("f", <<Binary("sub", p, I(1))>>))) >>,
    << PrintStmt(p), Return(CallExpr("f", <<Plus(p, I(1))>>)) >> }
Calls == { Callees \o Calling(b, I(a)) : b \in CallBodies, a \in 0 .. 3 }

(* Programs about names and types, most of them wrong in one place.        *)
Stmts ==
  { Let("x", "int", x), Let("x", "int", I(2)), Let("p", "int", Plus(p, I(1))), Let("b", "bool", p),
    Let("b", "int", Binary("and", True, p)), Assign("z", I(1)), Assign("x", True), Assign("x", Var("z")),
    BlockStmt(<< Let("x", "int", Plus(x, I(1))), Assign("x", I(5)), PrintStmt(x) >>),
    BlockStmt(<< Let("z", "int", I(1)) >>), PrintStmt(Var("z")), PrintStmt(Less(p, I(1))),
    If(p, <<>>), While(Binary("eq", True, p), <<>>), ExprStmt(Unary("neg", True)),
    ExprStmt(Unary("not", Unary("neg", True))), ExprStmt(CallExpr("f", <<>>)), ExprStmt(CallExpr("f", <<True>>)),
    ExprStmt(CallExpr("k", <<Plus(True, I(1))>>)), PrintStmt(Plus(Plus(Var("z"), True), I(1))),
    Return(True), Return(I(3)) }
Endings == { <<>>, << Return(x) >>, << While(True, << Return(x) >>) >>,
             << If(Less(p, I(1)), << Return(x) >>) >>,
             << IfElse(Less(p, I(1)), << Return(x) >>, << BlockStmt(<< Return(p), PrintStmt(x) >>) >>) >> }
Names == { Calling(<< Let("x", "int", p), s >> \o e, I(1)) : s \in Stmts, e \in Endings }

(* A wrong expression under operators and in statements that fit it.       *)
Wrong == { Var("z"), Plus(True, I(1)), Unary("neg", True), CallExpr("k", <<>>), CallExpr("f", <<True>>),
           Binary("and", p, True), Binary("eq", p, True) }
Over(e) == { Plus(e, I(1)), Less(p, e), Unary("neg", e), Unary("not", e), Binary("and", True, e),
             Binary("ne", e, True) }
Using(e) == { Let("y", "int", e), Assign("x", e), PrintStmt(e), Return(e), ExprStmt(e),
              PrintStmt(CallExpr("f", <<e>>)) }
Testing(e) == { Let("y", "bool", e), If(e, <<>>), While(e, <<>>) }
Poisoned ==
  LET poison == UNION { Over(w) : w \in Wrong \ {CallExpr("f", <<True>>)} }
      stmts == UNION { Using(w) : w \in Wrong } \cup UNION { Using(w) \cup Testing(w) : w \in poison }
                 \cup UNION { Using(v) \cup Testing(v) : v \in UNION { Over(w) : w \in poison } }
  IN  { Calling(<< Let("x", "int", p), s, Return(x) >>, I(1)) : s \in stmts }

(* Programs that differ in little: grouping, an arm more or less, a block. *)
Atoms == {p, I(1), CallExpr("f", <<p>>)}
Grouped == Atoms
           \cup UNION { { Unary("neg", Binary(op, p, e)), Binary(op, e, Unary("neg", p)), Binary(op, Unary("neg", p), e),
                          Binary(op, p, Unary("neg", e)) } : op \in {"sub", "add"}, e \in Atoms }
           \cup UNION { { Binary("sub", Binary("sub", p, a), b), Binary("sub", p, Binary("sub", a, b)) } :
                          a \in Atoms, b \in Atoms }
Inner == { <<>>, << PrintStmt(p) >>, << BlockStmt(<< PrintStmt(p) >>) >>, << ExprStmt(p) >> }
AlikeBodies ==
  { << PrintStmt(e), Return(p) >> : e \in Grouped }
  \cup UNION { { << If(c, a) >> \o b \o << Return(p) >>, << IfElse(c, a, b), Return(p) >>,
                 << While(c, a) >> \o b \o << Return(p) >> } :
                  c \in {Less(p, I(1)), Binary("le", p, I(1)), True}, a \in Inner, b \in Inner }
  \cup { << Assign("p", e), Return(I(1)) >> : e \in Grouped }
  \cup UNION { { << Let("p", "int", e), Return(I(1)) >>, << Let("p", "bool", Less(e, I(1))), Return(I(1)) >> } : e \in Atoms }
Alike == { Calling(b, I(0)) : b \in AlikeBodies }

(* Divisions by zero whose quotient nothing uses, alone, in a branch and   *)
(* in a loop.                                                              *)
DeadTraps ==
  { Calling(<< PrintStmt(p), s, PrintStmt(I(7)), Return(p) >>, I(a)) :
      a \in 0 .. 2,
      s \in { Let("x", "int", Binary(op, d, p)) : op \in {"div", "mod"}, d \in {I(6), p} }
            \cup { If(Less(p, I(1)), << ExprStmt(Binary(op, I(6), p)) >>) : op \in {"div", "mod"} } }

(* main adds 3 * n ones to one, in three statements, and prints the sum.   *)
AddOnes(e, n) == LET sum[k \in 0 .. n] == IF k = 0 THEN e ELSE Plus(sum[k - 1], I(1)) IN sum[n]
Summing(n) ==
  << Main(<< Let("x", "int", AddOnes(I(1), n)), Let("y", "int", AddOnes(x, n)),
             PrintStmt(AddOnes(y, n)), Return(I(0)) >>) >>

Heads ==
  LET one == IntFn("f", <<"p">>, << Return(p) >>)
      main == Main(<< Return(I(0)) >>)
  IN  { <<>>, <<one>>, <<main>>, <<one, main>>, <<main, one, one>>, <<main, main>>,
        << IntFn("f", <<"p", "p">>, << Return(p) >>), main >>,
        << Function("main", <<>>, "bool", << Return(True) >>) >>,
        << IntFn("main", <<"p">>, << Return(p) >>) >> }
=============================================================================
