------------------------------- MODULE MCDslc -------------------------------
(***************************************************************************)
(* Instances of the whole program: the programs of MCPrograms spelled out  *)
(* as texts, with the fewest parentheses and in two layouts, and texts     *)
(* that spell none.                                                        *)
(***************************************************************************)
EXTENDS Dslc

P == INSTANCE MCPrograms
G == INSTANCE Grammar WITH BlockIsStatement <- TRUE, ReturnMayBeBare <- FALSE

Levels == G!Levels
SymbolOf(op) == G!OpNames[CHOOSE i \in DOMAIN G!OpNames : G!OpNames[i][2] = op][1]
LevelOf(op) == CHOOSE m \in DOMAIN Levels : SymbolOf(op) \in Levels[m]
Digit(n) == SubSeq("0123456789", n + 1, n + 1)

(* parts[i] up to parts[j] in a row, for strings and for sequences.        *)
RECURSIVE Cat(_, _, _, _)
Cat(parts, i, j, none) ==
  IF i > j THEN none ELSE IF i = j THEN parts[i]
  ELSE LET m == (i + j) \div 2 IN Cat(parts, i, m, none) \o Cat(parts, m + 1, j, none)
Flat(parts) == Cat(parts, 1, Len(parts), <<>>)
Joined(parts, sep) == Flat([i \in DOMAIN parts |-> IF i = 1 THEN parts[i] ELSE <<sep>> \o parts[i]])

RECURSIVE SpellExpr(_, _), SpellBlock(_)

(* The lexemes of an expression that stands where one of the level must.   *)
SpellExpr(e, level) ==
  CASE e.kind = "IntLit"  -> <<Digit(e.value)>>
    [] e.kind = "BoolLit" -> <<IF e.truth THEN "true" ELSE "false">>
    [] e.kind = "Var"     -> <<e.name>>
    [] e.kind = "Unary"   -> <<IF e.op = "neg" THEN "-" ELSE "!">> \o SpellExpr(e.operand, 7)
    [] e.kind = "Call"    -> <<e.callee, "(">>
                             \o Joined([i \in DOMAIN e.args |-> SpellExpr(e.args[i], 1)], ",") \o <<")">>
    [] e.kind = "Binary"  ->
         LET m == LevelOf(e.op)
             s == SpellExpr(e.lhs, m) \o <<SymbolOf(e.op)>> \o SpellExpr(e.rhs, m + 1)
         IN  IF m < level THEN <<"(">> \o s \o <<")">> ELSE s

SpellStmt(s) ==
  CASE s.kind = "Let"    -> <<"let", s.name, ":", s.declared, "=">> \o SpellExpr(s.init, 1) \o <<";">>
    [] s.kind = "Assign" -> <<s.name, "=">> \o SpellExpr(s.value, 1) \o <<";">>
    [] s.kind = "Return" -> <<"return">> \o SpellExpr(s.value, 1) \o <<";">>
    [] s.kind = "Print"  -> <<"print", "(">> \o SpellExpr(s.value, 1) \o <<")", ";">>
    [] s.kind = "ExprStmt" -> SpellExpr(s.expr, 1) \o <<";">>
    [] s.kind = "While"  -> <<"while", "(">> \o SpellExpr(s.cond, 1) \o <<")">> \o SpellBlock(s.body)
    [] s.kind = "Block"  -> SpellBlock(s.stmts)
    [] s.kind = "If"     -> <<"if", "(">> \o SpellExpr(s.cond, 1) \o <<")">> \o SpellBlock(s.then_blk)
                            \o IF s.has_else THEN <<"else">> \o SpellBlock(s.else_blk) ELSE <<>>

SpellBlock(b) == <<"{">> \o Flat([i \in DOMAIN b |-> SpellStmt(b[i])]) \o <<"}">>

SpellFunction(f) ==
  <<"fn", f.name, "(">> \o Joined([i \in DOMAIN f.params |-> <<f.params[i].name, ":", f.params[i].type>>], ",")
  \o <<")", "->", f.ret_type>> \o SpellBlock(f.body)
Spell(p) == Flat([i \in DOMAIN p |-> SpellFunction(p[i])])

(* Layouts: no character too many, and comments, tabs and new lines.       *)
IsWord(w) == SubSeq(w, 1, 1) \in Lex!WordChars
Tight(ws) == Cat([i \in DOMAIN ws |-> (IF i > 1 /\ IsWord(ws[i]) /\ IsWord(ws[i - 1]) THEN " " ELSE "") \o ws[i]],
                 1, Len(ws), "")
Airy(ws) == Cat([i \in DOMAIN ws |-> ws[i] \o CASE ws[i] \in {"{", "}"} -> " //=9 @}\n\t" [] ws[i] = ";" -> "\r\n" [] OTHER -> " "],
                1, Len(ws), "")

(* Programs of every family, the same functions with another argument of   *)
(* main taken once, and expressions that need their parentheses.           *)
Grouped == { P!Calling(<<Return(e)>>, P!I(2)) : e \in {
  Binary("sub", P!I(7), Binary("sub", P!p, P!I(1))), Binary("sub", Binary("sub", P!I(7), P!p), P!I(1)),
  Binary("mul", Binary("add", P!p, P!I(1)), P!I(3)), Binary("add", P!p, Binary("mul", P!I(1), P!I(3))),
  Unary("neg", Binary("add", P!p, P!I(1))), Binary("add", Unary("neg", P!p), P!I(1)),
  Unary("neg", Unary("neg", P!p)), Binary("div", P!I(6), Binary("mod", P!p, P!I(3))) } }
(* One program that ends, one that Sema rejects, and two that divide by    *)
(* zero, for nothing and for a result.                                     *)
Outcomes == { P!Calling(b, P!I(1)) : b \in
                { <<Return(P!p)>>, <<Return(Var("z"))>>, <<Return(Binary("div", P!p, P!I(0)))>>,
                  <<Let("x", "int", Binary("div", P!p, P!I(0))), Return(P!p)>> } }
Samples == Grouped \cup Outcomes \cup P!Loops \cup P!DeadTraps \cup P!Heads
           \cup { P!Callees \o P!Calling(b, P!I(2)) : b \in P!CallBodies }
           \cup { src \in P!Names : Len(src[1].body) = 3 }

(* Texts that spell no program, by the lexemes of a right one.             *)
Right == Spell(P!Calling(<<Let("x", "int", P!p), Return(P!x)>>, P!I(1)))
NoPrograms == { RemoveAt(Right, i) : i \in {2, 9, 12, 14, 16, 19} }
              \cup { ReplaceAt(Right, i, w) : i \in {12, 15, 16}, w \in {"print", ")", "->"} }
              \cup { InsertAt(Right, i, w) : i \in {10, 16, 17}, w \in {"+", ")", "int", "x"} }
NoLexemes == { InsertAt(Right, i, w) : i \in {1, 5, 15, Len(Right) + 1}, w \in {"@", "&", "8", "|"} }

Spelled(tree, layout) == [text |-> IF layout = "tight" THEN Tight(Spell(tree)) ELSE Airy(Spell(tree)), tree |-> tree]
Entries == { Spelled(src, lay) : src \in Samples, lay \in {"tight", "airy"} }
           \cup { [text |-> Airy(ws), tree |-> NoTree] : ws \in NoPrograms }
           \cup { [text |-> Tight(ws), tree |-> NoTokens] : ws \in NoLexemes }
Table == [t \in { e.text : e \in Entries } |-> (CHOOSE e \in Entries : e.text = t).tree]
TreeIn(t) == Table[t]

Disk(t) == "a.dsl" :> t
AllDisks == { Disk(e.text) : e \in Entries }
Compiled == { <<"a.dsl">>, <<"-O0", "a.dsl">> }

(* Files of every kind, and command lines in every order.                  *)
FewDisks == { Disk(t) : t \in { Tight(Spell(src)) : src \in Outcomes }
                             \cup { Airy(RemoveAt(Right, 16)), Tight(InsertAt(Right, 15, "@")) } }
Args == { "a.dsl", "none.dsl", "-O0", "-O1", "--stats", "--run", "--emit=" }
        \cup { "--emit=tokens", "--emit=ast", "--emit=sema", "--emit=ir", "--emit=ir-opt", "--emit=bc", "--emit=x" }
CommandLines == { <<>>, <<"">>, <<"a.dsl", "">> } \cup { <<a>> : a \in Args } \cup { <<a, b>> : a \in Args, b \in Args }
                \cup { <<"-O0", "a.dsl", a>> : a \in Args } \cup { <<"--emit=ast", "a.dsl", "--emit=bc", a>> : a \in Args }

AllSessions == [argv : Compiled, disk : AllDisks] \cup [argv : CommandLines, disk : FewDisks]
=============================================================================
