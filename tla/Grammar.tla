------------------------------ MODULE Grammar ------------------------------
(***************************************************************************)
(* The grammar of SPEC.md, section 2, independently of how the parser goes *)
(* about it: the set of syntax trees a token sequence can be read as.  It  *)
(* is empty for what is no sentence, and has two members for an ambiguous  *)
(* one.  On two rules SPEC.md and the syntax tree (ast.h) disagree, and    *)
(* each is a parameter.                                                    *)
(***************************************************************************)
EXTENDS Sequences, Integers, Syntax

CONSTANTS BlockIsStatement,   \* ast.h has Block : Stmt, SPEC.md no such statement
          ReturnMayBeBare     \* SPEC.md has "return" expr? ";", ast.h a value that is
                              \* "always present in this language"

LOCAL Sub(s, i, j) == SubSeq(s, i, j)
LOCAL Is(s, i, k) == i \in 1 .. Len(s) /\ s[i].kind = k
LOCAL Opens(s, k) == Is(s, 1, k)
LOCAL Closes(s, k) == Is(s, Len(s), k)

(* The precedence table, lowest level first; unary operators are level 7.  *)
Levels == << {"||"}, {"&&"}, {"==", "!="}, {"<", "<=", ">", ">="}, {"+", "-"}, {"*", "/", "%"} >>
OpNames == << <<"||", "or">>, <<"&&", "and">>, <<"==", "eq">>, <<"!=", "ne">>, <<"<", "lt">>, <<"<=", "le">>,
              <<">", "gt">>, <<">=", "ge">>, <<"+", "add">>, <<"-", "sub">>, <<"*", "mul">>, <<"/", "div">>,
              <<"%", "mod">> >>
OpName(k) == OpNames[CHOOSE i \in DOMAIN OpNames : OpNames[i][1] = k][2]

LOCAL Atoms(s) ==
  IF Len(s) # 1 THEN {}
  ELSE CASE s[1].kind = "Int"  -> { IntLit(s[1].int_val) }
         [] s[1].kind \in {"true", "false"} -> { BoolLit(s[1].kind = "true") }
         [] s[1].kind = "Ident" -> { Var(s[1].lexeme) }
         [] OTHER -> {}

RECURSIVE Exprs(_, _), Args(_)

(* Expressions of at least the given level.  An operator of a level has    *)
(* operands of that level on its left and of the next one on its right.    *)
Exprs(level, s) ==
  Atoms(s)
  \cup { Unary(IF Is(s, 1, "-") THEN "neg" ELSE "not", e) :
           e \in IF Opens(s, "-") \/ Opens(s, "!") THEN Exprs(7, Tail(s)) ELSE {} }
  \cup (IF Opens(s, "(") /\ Closes(s, ")") THEN Exprs(1, Sub(s, 2, Len(s) - 1)) ELSE {})
  \cup { CallExpr(s[1].lexeme, a) :
           a \in IF Opens(s, "Ident") /\ Is(s, 2, "(") /\ Closes(s, ")") THEN Args(Sub(s, 3, Len(s) - 1)) ELSE {} }
  \cup UNION { UNION { { Binary(OpName(s[i].kind), l, r) : r \in Exprs(m + 1, Sub(s, i + 1, Len(s))) } :
                         l \in Exprs(m, Sub(s, 1, i - 1)) } :
                 <<m, i>> \in { <<m, i>> \in (level .. 6) \X (2 .. Len(s) - 1) : s[i].kind \in Levels[m] } }

Args(s) ==
  IF s = <<>> THEN { <<>> }
  ELSE { <<e>> : e \in Exprs(1, s) }
       \cup UNION { UNION { { <<e>> \o rest : rest \in Args(Sub(s, i + 1, Len(s))) } : e \in Exprs(1, Sub(s, 1, i - 1)) } :
                      i \in { i \in 2 .. Len(s) - 1 : s[i].kind = "," } }

RECURSIVE Blocks(_), Lists(_)

(* The tree of a return without a value, which ast.h does not have.        *)
NoValue == [kind |-> "None"]

(* A simple statement, from its first token to its semicolon.              *)
LOCAL Typed(s) == Is(s, 1, "Ident") /\ Is(s, 2, ":") /\ (Is(s, 3, "int") \/ Is(s, 3, "bool"))
Simple(s) ==
  LET b == Sub(s, 1, Len(s) - 1)
  IN  IF ~Closes(s, ";") THEN {}
      ELSE { ExprStmt(e) : e \in Exprs(1, b) }
        \cup { Assign(b[1].lexeme, e) :
                 e \in IF Opens(b, "Ident") /\ Is(b, 2, "=") THEN Exprs(1, Sub(b, 3, Len(b))) ELSE {} }
        \cup { Return(e) : e \in IF Opens(b, "return") THEN Exprs(1, Tail(b)) ELSE {} }
        \cup (IF ReturnMayBeBare /\ Len(b) = 1 /\ Opens(b, "return") THEN { Return(NoValue) } ELSE {})
        \cup { PrintStmt(e) :
                 e \in IF Opens(b, "print") /\ Is(b, 2, "(") /\ Closes(b, ")") THEN Exprs(1, Sub(b, 3, Len(b) - 1)) ELSE {} }
        \cup { Let(b[2].lexeme, b[4].kind, e) :
                 e \in IF Opens(b, "let") /\ Typed(Tail(b)) /\ Is(b, 5, "=") THEN Exprs(1, Sub(b, 6, Len(b))) ELSE {} }

(* "(" condition ")" and what follows: for i the place of the ")".         *)
LOCAL Conditions(s) == { i \in 3 .. Len(s) - 1 : Is(s, 2, "(") /\ s[i].kind = ")" /\ s[i + 1].kind = "{" }

LOCAL Compound(s) ==
  LET Test(i) == Exprs(1, Sub(s, 3, i - 1))
  IN  CASE Opens(s, "while") ->
             UNION { UNION { { While(c, b) : b \in Blocks(Sub(s, i + 1, Len(s))) } : c \in Test(i) } : i \in Conditions(s) }
        [] Opens(s, "if") ->
             UNION { UNION { { If(c, b) : b \in Blocks(Sub(s, i + 1, Len(s))) }
                             \cup UNION { { IfElse(c, b, d) : d \in Blocks(Sub(s, j + 1, Len(s))), b \in Blocks(Sub(s, i + 1, j - 1)) } :
                                            j \in { j \in i + 1 .. Len(s) : s[j].kind = "else" } } :
                               c \in Test(i) } : i \in Conditions(s) }
        [] Opens(s, "{") /\ BlockIsStatement -> { BlockStmt(b) : b \in Blocks(s) }
        [] OTHER -> {}

Blocks(s) == IF Len(s) > 1 /\ Opens(s, "{") /\ Closes(s, "}") THEN Lists(Sub(s, 2, Len(s) - 1)) ELSE {}

Lists(s) ==
  IF s = <<>> THEN { <<>> }
  ELSE UNION { UNION { { <<a>> \o rest : rest \in Lists(Sub(s, i + 1, Len(s))) } :
                         a \in Simple(Sub(s, 1, i)) \cup Compound(Sub(s, 1, i)) } :
                 i \in { i \in 1 .. Len(s) : s[i].kind \in {";", "}"} } }

RECURSIVE Params(_)
LOCAL Params(s) ==
  IF ~Typed(s) THEN {}
  ELSE IF Len(s) = 3 THEN { << Param(s[1].lexeme, s[3].kind) >> }
  ELSE { << Param(s[1].lexeme, s[3].kind) >> \o rest :
           rest \in IF Is(s, 4, ",") THEN Params(Sub(s, 5, Len(s))) ELSE {} }

(* "fn" IDENT "(" params? ")" "->" type block: i is the place of the ")".  *)
LOCAL Functions(s) ==
  IF ~(Opens(s, "fn") /\ Is(s, 2, "Ident") /\ Is(s, 3, "(")) THEN {}
  ELSE UNION { UNION { { Function(s[2].lexeme, ps, s[i + 2].kind, b) : b \in Blocks(Sub(s, i + 3, Len(s))) } :
                         ps \in IF i = 4 THEN { <<>> } ELSE Params(Sub(s, 4, i - 1)) } :
                 i \in { i \in 4 .. Len(s) - 2 : s[i].kind = ")" /\ s[i + 1].kind = "->" /\ s[i + 2].kind \in {"int", "bool"} } }

RECURSIVE Programs(_)
Programs(s) ==
  IF s = <<>> THEN { <<>> }
  ELSE UNION { UNION { { <<f>> \o rest : rest \in Programs(Sub(s, i + 1, Len(s))) } : f \in Functions(Sub(s, 1, i)) } :
                 i \in { i \in 1 .. Len(s) : s[i].kind = "}" } }
=============================================================================
