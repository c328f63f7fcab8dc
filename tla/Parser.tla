------------------------------- MODULE Parser -------------------------------
(***************************************************************************)
(* The parser (parser.cpp): recursive descent with precedence climbing and *)
(* panic-mode recovery.  The C++ call stack is explicit: `todo' is what    *)
(* the active parse functions have still to do, innermost first, and       *)
(* `vals' the values they have built so far, newest first.  One step is    *)
(* one decision of one function.                                           *)
(*                                                                         *)
(* A diagnostic is the index of its token (pos_ counts from 0).  errors is *)
(* a set: a parse that reports one place over and over, which it can do    *)
(* forever, stays in finitely many states.                                 *)
(***************************************************************************)
EXTENDS Tokens, Syntax, Integers

CONSTANT TokenLists     \* what the lexer may hand over

(* A token list ends with its only Eof (lexer.h).                          *)
EndsInEof(ts) == Len(ts) > 0 /\ \A i \in 1 .. Len(ts) : (ts[i].kind = "<eof>") <=> (i = Len(ts))

ASSUME TokenListsAssumption ==
  \A ts \in TokenLists : ts \in Seq([kind : Kinds, lexeme : STRING, line : Nat, col : Nat, int_val : Nat])
                         /\ EndsInEof(ts)

VARIABLES toks, pos, errors, panicking, todo, vals
vars == <<toks, pos, errors, panicking, todo, vals>>

(* The cursor.                                                             *)
peek(ahead) == toks[IF pos + ahead < Len(toks) THEN pos + ahead + 1 ELSE Len(toks)]
cur == peek(0)
check(k) == cur.kind = k
at_end == check("<eof>")

(* The code's test for Eof is left out: no caller is at the Eof (that pos  *)
(* stays on the tokens is proved), so that it changes nothing.             *)
advance == pos' = pos + 1
Stay == UNCHANGED pos

(* A diagnostic at the current token, unless one has already been given    *)
(* since the last resynchronisation.                                       *)
error == /\ panicking' = TRUE
         /\ errors' = IF panicking THEN errors ELSE errors \cup {pos}
Quiet == UNCHANGED <<errors, panicking>>

(* Pending work.                                                           *)
Do(what, arg) == [do |-> what, arg |-> arg]
Call(what) == Do(what, "none")
Expect(k) == Do("expect", k)
Name == Call("name")
Type == Call("type")
Empty == Call("empty")          \* an empty list
List(of) == Do("list", of)      \* its elements, up to a ')'
More(of) == Do("more", of)
Block == Call("block")
Statements == Call("statements")
Statement == Call("statement")
Else == Call("else")
Expr == Do("binary", 1)
Build(node) == Do("build", node)
Resync == Call("resync")

Doing(what) == todo # <<>> /\ Head(todo).do = what
Then(work) == todo' = work \o Tail(todo)
Pop == todo' = Tail(todo)
Push(v) == vals' = <<v>> \o vals
Keep == UNCHANGED vals

Init == /\ toks \in TokenLists
        /\ pos = 0 /\ errors = {} /\ panicking = FALSE
        /\ todo = << Call("program") >> /\ vals = << <<>> >>

Done == todo = <<>>
program == vals[1]
-----------------------------------------------------------------------------
\* A faulty variant, on which a property must fail.
PastSemicolon_on_it(q, junk) == toks[q + 1].kind = ";"

(* Recovery.  The loop of synchronize stops at the first place that is     *)
(* just past a ';' or at a token that may begin or end a statement.  At    *)
(* pos_ = 0 it reads toks_[-1], which is undefined: whether that looks     *)
(* like a ';' (junk) is anybody's guess.                                   *)
Boundaries == {"fn", "let", "if", "while", "return", "print", "}", "<eof>"}
PastSemicolon(q, junk) == IF q = 0 THEN junk ELSE toks[q].kind = ";"

\* A faulty variant, on which a property must fail.
StopsAt_keywords(q, junk) == toks[q + 1].kind \in Boundaries

StopsAt(q, junk) == toks[q + 1].kind \in Boundaries \/ PastSemicolon(q, junk)

\* A faulty variant, on which a property must fail.
synchronize_stays == panicking' = FALSE /\ Stay

synchronize ==
  /\ panicking' = FALSE
  /\ \E junk \in BOOLEAN, q \in pos .. Len(toks) - 1 :
       /\ StopsAt(q, junk) /\ \A r \in pos .. q - 1 : ~StopsAt(r, junk)
       /\ pos' = q

resync ==
  /\ Doing("resync") /\ Pop
  /\ IF panicking THEN synchronize ELSE Stay /\ UNCHANGED panicking
  /\ UNCHANGED <<toks, errors, vals>>

\* A faulty variant, on which a property must fail.
expect_skips ==
  /\ Doing("expect") /\ Pop /\ Keep /\ advance
  /\ IF check(Head(todo).arg) THEN Quiet ELSE error
  /\ UNCHANGED toks

(* expect: a missing token is reported, and taken as read.                 *)
expect ==
  /\ Doing("expect") /\ Pop /\ Keep
  /\ IF check(Head(todo).arg) THEN advance /\ Quiet ELSE error /\ Stay
  /\ UNCHANGED toks

(* expect(Tok::Ident).lexeme: of whatever token is there.                  *)
name ==
  /\ Doing("name") /\ Pop /\ Push(cur.lexeme)
  /\ IF check("Ident") THEN advance /\ Quiet ELSE error /\ Stay
  /\ UNCHANGED toks

parse_type ==
  /\ Doing("type") /\ Pop
  /\ IF cur.kind \in {"int", "bool"} THEN Push(cur.kind) /\ advance /\ Quiet
     ELSE Push("error") /\ error /\ Stay
  /\ UNCHANGED toks

empty_list == Doing("empty") /\ Pop /\ Push(<<>>) /\ Stay /\ Quiet /\ UNCHANGED toks
-----------------------------------------------------------------------------
(* A finished node takes the values of its parts.  The tree of a program   *)
(* with a mistake is dropped (main), and its lists are not extended here:  *)
(* a parse that never ends would extend one forever.                       *)
Node(node, v) ==
  CASE node = "append"   -> IF errors = {} THEN Append(v[2], v[1]) ELSE v[2]
    [] node = "param"    -> Param(v[2], v[1])
    [] node = "function" -> Function(v[4], v[3], v[2], v[1])
    [] node = "let"      -> Let(v[3], v[2], v[1])
    [] node = "assign"   -> Assign(v[2], v[1])
    [] node = "if"       -> If(v[2], v[1])
    [] node = "if_else"  -> IfElse(v[3], v[2], v[1])
    [] node = "while"    -> While(v[2], v[1])
    [] node = "return"   -> Return(v[1])
    [] node = "print"    -> PrintStmt(v[1])
    [] node = "expr"     -> ExprStmt(v[1])
    [] node = "block"    -> BlockStmt(v[1])
    [] node = "call"     -> CallExpr(v[2], v[1])
    [] node = "unary"    -> Unary(v[2], v[1])
    [] node = "binary"   -> Binary(v[2], v[3], v[1])
Parts(node) ==
  CASE node = "function" -> 4
    [] node \in {"let", "if_else", "binary"} -> 3
    [] node \in {"append", "param", "assign", "if", "while", "block", "call", "unary"} -> 2
    [] OTHER -> 1

build ==
  /\ Doing("build") /\ Pop
  /\ LET node == Head(todo).arg
     IN  vals' = <<Node(node, vals)>> \o SubSeq(vals, Parts(node) + 1, Len(vals))
  /\ Stay /\ Quiet /\ UNCHANGED toks

(* do { element } while (match(Tok::Comma)), skipped before a ')'.         *)
Element(of) == IF of = "param" THEN <<Name, Expect(":"), Type, Build("param"), Build("append")>>
               ELSE <<Expr, Build("append")>>
list ==
  /\ Doing("list")
  /\ LET of == Head(todo).arg
     IN  IF check(")") THEN Pop ELSE Then(Element(of) \o <<More(of)>>)
  /\ Stay /\ Quiet /\ Keep /\ UNCHANGED toks

more ==
  /\ Doing("more")
  /\ LET of == Head(todo).arg
     IN  IF check(",") THEN Then(Element(of) \o <<More(of)>>) /\ advance ELSE Pop /\ Stay
  /\ Quiet /\ Keep /\ UNCHANGED toks
-----------------------------------------------------------------------------
parse_function ==
  /\ Doing("program") /\ check("fn")
  /\ todo' = <<Name, Expect("("), Empty, List("param"), Expect(")"), Expect("->"), Type, Block,
               Build("function"), Build("append"), Resync>> \o todo
  /\ advance /\ Quiet /\ Keep /\ UNCHANGED toks

not_a_function ==
  /\ Doing("program") /\ ~check("fn") /\ ~at_end
  /\ errors' = errors \cup {pos}
  /\ synchronize
  /\ UNCHANGED <<toks, todo, vals>>

end_of_program == Doing("program") /\ at_end /\ Pop /\ UNCHANGED <<toks, pos, errors, panicking, vals>>

parse_block ==
  /\ Doing("block")
  /\ Then(<<Expect("{"), Empty, Statements, Expect("}")>>)
  /\ Stay /\ Quiet /\ Keep /\ UNCHANGED toks

statements ==
  /\ Doing("statements")
  /\ IF check("}") \/ at_end THEN Pop
     ELSE todo' = <<Statement, Build("append"), Resync>> \o todo
  /\ Stay /\ Quiet /\ Keep /\ UNCHANGED toks

(* parse_statement, which looks at the next token or two, and the function *)
(* it calls.                                                               *)
keyword_stmt(k, work) ==
  Doing("statement") /\ check(k) /\ advance /\ Then(work) /\ Quiet /\ Keep /\ UNCHANGED toks

parse_let == keyword_stmt("let", <<Name, Expect(":"), Type, Expect("="), Expr, Expect(";"), Build("let")>>)
parse_if == keyword_stmt("if", <<Expect("("), Expr, Expect(")"), Block, Else>>)
parse_while == keyword_stmt("while", <<Expect("("), Expr, Expect(")"), Block, Build("while")>>)
parse_return == keyword_stmt("return", <<Expr, Expect(";"), Build("return")>>)
parse_print == keyword_stmt("print", <<Expect("("), Expr, Expect(")"), Expect(";"), Build("print")>>)

parse_else ==
  /\ Doing("else")
  /\ IF check("else") THEN Then(<<Block, Build("if_else")>>) /\ advance
     ELSE Then(<<Build("if")>>) /\ Stay
  /\ Quiet /\ Keep /\ UNCHANGED toks

(* A block as a statement; the mark is the node it will be, like the       *)
(* operator of an expression under way.                                    *)
block_stmt ==
  /\ Doing("statement") /\ check("{")
  /\ Then(<<Block, Build("block")>>) /\ Push("block")
  /\ Stay /\ Quiet /\ UNCHANGED toks

parse_simple_stmt ==
  /\ Doing("statement") /\ cur.kind \notin {"let", "if", "while", "return", "print", "{"}
  /\ IF check("Ident") /\ peek(1).kind = "="
     THEN Then(<<Expr, Expect(";"), Build("assign")>>) /\ Push(cur.lexeme) /\ pos' = pos + 2
     ELSE Then(<<Expr, Expect(";"), Build("expr")>>) /\ Keep /\ Stay
  /\ Quiet /\ UNCHANGED toks
-----------------------------------------------------------------------------
(* Expressions: "binary" is parse_binary(min_prec), "climb" its loop.      *)
bin_info(k) ==
  CASE k = "||" -> [op |-> "or",  prec |-> 1]
    [] k = "&&" -> [op |-> "and", prec |-> 2]
    [] k = "==" -> [op |-> "eq",  prec |-> 3]
    [] k = "!=" -> [op |-> "ne",  prec |-> 3]
    [] k = "<"  -> [op |-> "lt",  prec |-> 4]
    [] k = "<=" -> [op |-> "le",  prec |-> 4]
    [] k = ">"  -> [op |-> "gt",  prec |-> 4]
    [] k = ">=" -> [op |-> "ge",  prec |-> 4]
    [] k = "+"  -> [op |-> "add", prec |-> 5]
    [] k = "-"  -> [op |-> "sub", prec |-> 5]
    [] k = "*"  -> [op |-> "mul", prec |-> 6]
    [] k = "/"  -> [op |-> "div", prec |-> 6]
    [] k = "%"  -> [op |-> "mod", prec |-> 6]
    [] OTHER    -> [op |-> "none", prec |-> 0]
is_binop(k) == bin_info(k).prec > 0

parse_binary ==
  /\ Doing("binary")
  /\ Then(<<Call("unary"), Do("climb", Head(todo).arg)>>)
  /\ Stay /\ Quiet /\ Keep /\ UNCHANGED toks

\* A faulty variant, on which a property must fail.
climb_right_associative ==
  /\ Doing("climb")
  /\ LET info == bin_info(cur.kind)
     IN  IF is_binop(cur.kind) /\ info.prec >= Head(todo).arg
         THEN todo' = <<Do("binary", info.prec), Build("binary")>> \o todo /\ Push(info.op) /\ advance
         ELSE Pop /\ Keep /\ Stay
  /\ Quiet /\ UNCHANGED toks

(* Left-associative: the right side must bind strictly tighter.            *)
climb ==
  /\ Doing("climb")
  /\ LET info == bin_info(cur.kind)
     IN  IF is_binop(cur.kind) /\ info.prec >= Head(todo).arg
         THEN todo' = <<Do("binary", info.prec + 1), Build("binary")>> \o todo /\ Push(info.op) /\ advance
         ELSE Pop /\ Keep /\ Stay
  /\ Quiet /\ UNCHANGED toks

parse_unary ==
  /\ Doing("unary") /\ cur.kind \in {"-", "!"}
  /\ Then(<<Call("unary"), Build("unary")>>)
  /\ Push(IF check("-") THEN "neg" ELSE "not")
  /\ advance /\ Quiet /\ UNCHANGED toks

literal ==
  /\ Doing("unary") /\ cur.kind \in {"Int", "true", "false"}
  /\ Push(IF check("Int") THEN IntLit(cur.int_val) ELSE BoolLit(check("true")))
  /\ Pop /\ advance /\ Quiet /\ UNCHANGED toks

name_or_call ==
  /\ Doing("unary") /\ check("Ident")
  /\ IF peek(1).kind = "("
     THEN Then(<<Empty, List("arg"), Expect(")"), Build("call")>>) /\ Push(cur.lexeme) /\ pos' = pos + 2
     ELSE Pop /\ Push(Var(cur.lexeme)) /\ advance
  /\ Quiet /\ UNCHANGED toks

parenthesised ==
  /\ Doing("unary") /\ check("(")
  /\ Then(<<Expr, Expect(")")>>)
  /\ advance /\ Quiet /\ Keep /\ UNCHANGED toks

(* Nothing that begins an expression: a literal stands in for it.          *)
no_expression ==
  /\ Doing("unary") /\ cur.kind \notin {"-", "!", "Int", "true", "false", "Ident", "("}
  /\ Push(IntLit(0)) /\ error
  /\ Pop /\ Stay /\ UNCHANGED toks

Next ==
  \/ parse_function \/ not_a_function \/ end_of_program \/ resync
  \/ expect \/ name \/ parse_type \/ empty_list \/ list \/ more \/ build
  \/ parse_block \/ statements \/ parse_let \/ parse_if \/ parse_else \/ parse_while
  \/ parse_return \/ parse_print \/ block_stmt \/ parse_simple_stmt
  \/ parse_binary \/ climb \/ parse_unary \/ literal \/ name_or_call \/ parenthesised \/ no_expression

Spec == Init /\ [][Next]_vars /\ WF_vars(Next)

-----------------------------------------------------------------------------
(* The cursor stays on the tokens, Eof included, and so do the positions   *)
(* of diagnostics; something is reported before anything is suppressed.    *)
TypeOK ==
  /\ EndsInEof(toks)
  /\ pos \in 0 .. Len(toks) - 1
  /\ errors \subseteq 0 .. Len(toks) - 1
  /\ panicking \in BOOLEAN
  /\ panicking => errors # {}

(* Tokens that neither begin a statement or an expression nor continue or  *)
(* end one: parse_statement reports such a token and leaves it.            *)
Idle == {"fn", "else", "int", "bool", ")", ",", ":", "->", "="}

(* The parser stands at a loop that will not get past the current token:   *)
(* what the loop calls reports it and leaves it, and synchronize, which is *)
(* to skip it, stops on the spot, because the token is a boundary or       *)
(* because the one before is a semicolon that was there all along.         *)
Begins == {"let", "if", "while", "return", "print", "}"}
AfterSemicolon == pos > 0 /\ toks[pos].kind = ";"
StuckInBlock == Doing("statements") /\ cur.kind \in Idle /\ (check("fn") \/ AfterSemicolon)
StuckAtTop == Doing("program") /\ ~check("fn") /\ ~at_end /\ (cur.kind \in Begins \/ AfterSemicolon)
Stuck == StuckInBlock \/ StuckAtTop
(* At the very first token it depends on what the memory before toks_      *)
(* holds, each time.                                                       *)
MayBeStuck == Stuck \/ (Doing("program") /\ pos = 0 /\ ~check("fn") /\ ~at_end)
=============================================================================
