--------------------------- MODULE Parser_proofs ---------------------------
(***************************************************************************)
(* The parser's cursor never leaves the tokens, whatever they are, and a   *)
(* parser that is stuck between two functions never gets away.             *)
(***************************************************************************)
EXTENDS Parser, TLAPS

(* The inductive invariant.  No pending work waits for the Eof: the cursor *)
(* moves only past a token that some function asked for.                   *)
Plain == {"program", "statements", "block", "statement", "else", "name", "type", "empty", "unary", "resync"}
Lists == {"param", "arg"}
Nodes == {"append", "param", "function", "let", "assign", "if", "if_else", "while", "return", "print",
          "expr", "block", "call", "unary", "binary"}
Toil == { Call(w) : w \in Plain } \cup { Expect(k) : k \in Symbols } \cup { Build(node) : node \in Nodes }
        \cup { Do(w, of) : w \in {"list", "more"}, of \in Lists }
        \cup { Do(w, prec) : w \in {"binary", "climb"}, prec \in 1 .. 7 }
Tokens_ == Seq([kind : Kinds, lexeme : STRING, line : Nat, col : Nat, int_val : Nat])
Inv == TypeOK /\ toks \in Tokens_ /\ todo \in Seq(Toil)

-----------------------------------------------------------------------------
(* The cursor is on a token, which only the last one's place makes Eof.    *)
LEMMA Current ==
  ASSUME Inv
  PROVE  /\ cur = toks[pos + 1] /\ Len(toks) \in Nat /\ pos \in Nat /\ pos < Len(toks)
         /\ (cur.kind = "<eof>") <=> (pos + 1 = Len(toks))
  <1>1. toks \in Seq([kind : Kinds, lexeme : STRING, line : Nat, col : Nat, int_val : Nat]) /\ Len(toks) \in Nat
    BY DEF Inv, Tokens_
  <1>2. pos \in 0 .. Len(toks) - 1
    BY DEF Inv, TypeOK
  <1>3. cur = toks[pos + 1]
    BY <1>1, <1>2 DEF cur, peek
  <1>4. (toks[pos + 1].kind = "<eof>") <=> (pos + 1 = Len(toks))
    BY <1>1, <1>2 DEF Inv, TypeOK, EndsInEof
  <1> QED
    BY <1>1, <1>2, <1>3, <1>4

(* A token that is looked at ahead and is not the Eof has another behind.  *)
LEMMA Ahead ==
  ASSUME Inv, peek(1).kind # "<eof>"
  PROVE  pos + 2 < Len(toks)
  <1>1. Len(toks) \in Nat /\ pos \in Nat /\ pos < Len(toks) /\ toks[Len(toks)].kind = "<eof>"
    BY Current DEF Inv, TypeOK, EndsInEof
  <1>2. pos + 1 < Len(toks) /\ peek(1) = toks[pos + 2]
    BY <1>1 DEF peek
  <1> QED
    BY <1>1, <1>2

(* What a step may do to the tokens, the cursor and the diagnostics.       *)
Moves ==
  /\ toks' = toks
  /\ \/ pos' = pos
     \/ pos' = pos + 1 /\ cur.kind # "<eof>"
     \/ pos' = pos + 2 /\ peek(1).kind # "<eof>"
     \/ pos' \in pos .. Len(toks) - 1
Reports ==
  \/ errors' = errors /\ panicking' = panicking
  \/ errors' \in {errors, errors \cup {pos}} /\ panicking' = FALSE
  \/ errors' = (IF panicking THEN errors ELSE errors \cup {pos}) /\ panicking' = TRUE

LEMMA StepsKeepTheInvariant ==
  ASSUME Inv, Moves, Reports, todo' \in Seq(Toil)
  PROVE  Inv'
  <1>1. Len(toks) \in Nat /\ pos \in Nat /\ pos < Len(toks) /\ toks' = toks
    BY Current DEF Moves
  <1>2. pos' \in 0 .. Len(toks) - 1
    BY <1>1, Current, Ahead DEF Moves
  <1>3. errors' \subseteq 0 .. Len(toks) - 1 /\ panicking' \in BOOLEAN /\ (panicking' => errors' # {})
    <2>1. pos \in 0 .. Len(toks) - 1 /\ errors \subseteq 0 .. Len(toks) - 1
      BY DEF Inv, TypeOK
    <2>2. panicking \in BOOLEAN /\ (panicking => errors # {})
      BY DEF Inv, TypeOK
    <2>3. errors' \in {errors, errors \cup {pos}}
      BY DEF Reports
    <2>4. errors' \subseteq 0 .. Len(toks) - 1
      BY <2>1, <2>3, Zenon
    <2>5. panicking' \in BOOLEAN
      BY <2>2 DEF Reports
    <2>6. panicking' => errors' # {}
      BY <2>2, Zenon DEF Reports
    <2> QED
      BY <2>4, <2>5, <2>6
  <1> QED
    BY <1>1, <1>2, <1>3 DEF Inv, TypeOK

(* Pending work, taken off and put on.                                     *)
LEMMA Work ==
  ASSUME Inv, todo # <<>>
  PROVE  /\ Head(todo) \in Toil /\ Tail(todo) \in Seq(Toil)
         /\ \A w \in Seq(Toil) : w \o Tail(todo) \in Seq(Toil) /\ w \o todo \in Seq(Toil)
  BY DEF Inv

LEMMA SymbolsAreNotEof == "<eof>" \notin Symbols
  BY Zenon DEF Symbols

LEMMA Arguments ==
  ASSUME NEW w \in Toil
  PROVE  /\ w.do = "expect" => w.arg # "<eof>"
         /\ w.do \in {"list", "more"} => w.arg \in Lists
         /\ w.do \in {"binary", "climb"} => w.arg \in 1 .. 7
  BY SymbolsAreNotEof DEF Toil, Call, Expect, Build, Do, Plain

LEMMA Calls ==
  /\ Name \in Toil /\ Type \in Toil /\ Empty \in Toil /\ Block \in Toil /\ Statements \in Toil
  /\ Statement \in Toil /\ Else \in Toil /\ Resync \in Toil
  /\ Call("unary") \in Toil /\ Call("program") \in Toil
  BY DEF Toil, Plain, Name, Type, Empty, Block, Statements, Statement, Else, Resync

LEMMA Expects ==
  /\ Expect("(") \in Toil /\ Expect(")") \in Toil /\ Expect("{") \in Toil /\ Expect("}") \in Toil
  /\ Expect(":") \in Toil /\ Expect(";") \in Toil /\ Expect("=") \in Toil /\ Expect("->") \in Toil
  BY DEF Toil, Symbols

LEMMA Builds ==
  /\ Build("append") \in Toil /\ Build("param") \in Toil /\ Build("function") \in Toil /\ Build("let") \in Toil
  /\ Build("assign") \in Toil /\ Build("if") \in Toil /\ Build("if_else") \in Toil /\ Build("while") \in Toil
  /\ Build("return") \in Toil /\ Build("print") \in Toil /\ Build("expr") \in Toil /\ Build("block") \in Toil
  /\ Build("call") \in Toil /\ Build("unary") \in Toil /\ Build("binary") \in Toil
  BY DEF Toil, Nodes

LEMMA Exprs == Expr \in Toil /\ List("param") \in Toil /\ List("arg") \in Toil
  BY DEF Toil, Expr, List, Lists

LEMMA Parameterised ==
  /\ \A prec \in 1 .. 7 : Do("binary", prec) \in Toil /\ Do("climb", prec) \in Toil
  /\ \A of \in Lists : More(of) \in Toil
  BY DEF Toil, More

(* Sequences of pending work, by their lengths.                            *)
LEMMA Row1 ==
  \A a \in Toil : <<a>> \in Seq(Toil)
  OBVIOUS

LEMMA Row2 ==
  \A a, b \in Toil : <<a, b>> \in Seq(Toil)
  OBVIOUS

LEMMA Row3 ==
  \A a, b, c \in Toil : <<a, b, c>> \in Seq(Toil)
  OBVIOUS

LEMMA Row4 ==
  \A a, b, c, d \in Toil : <<a, b, c, d>> \in Seq(Toil)
  OBVIOUS

LEMMA Row5 ==
  \A a, b, c, d, e \in Toil : <<a, b, c, d, e>> \in Seq(Toil)
  OBVIOUS

LEMMA Row7 ==
  \A a, b, c, d, e, f, g \in Toil : <<a, b, c, d, e, f, g>> \in Seq(Toil)
  OBVIOUS

LEMMA Row11 ==
  \A a, b, c, d, e, f, g, h, i, j, k \in Toil : <<a, b, c, d, e, f, g, h, i, j, k>> \in Seq(Toil)
  OBVIOUS

LEMMA Elements ==
  ASSUME NEW of \in Lists
  PROVE  Element(of) \in Seq(Toil) /\ <<More(of)>> \in Seq(Toil)
  <1>1. <<Name, Expect(":"), Type, Build("param"), Build("append")>> \in Seq(Toil)
    BY Calls, Expects, Builds, Row5, Zenon
  <1>2. <<Expr, Build("append")>> \in Seq(Toil)
    BY Builds, Exprs, Row2, Zenon
  <1> QED
    BY <1>1, <1>2, Parameterised DEF Element

-----------------------------------------------------------------------------
(* Every action of the parser is such a step.                              *)
Step == Moves /\ Reports /\ todo' \in Seq(Toil)

LEMMA Declarations ==
  ASSUME Inv, parse_function \/ not_a_function \/ end_of_program
  PROVE  Step
  <1>1. CASE parse_function
    <2>1. <<Name, Expect("("), Empty, List("param"), Expect(")"), Expect("->"), Type, Block,
            Build("function"), Build("append"), Resync>> \in Seq(Toil)
      BY Calls, Expects, Builds, Exprs, Row11, Zenon
    <2>2. todo' \in Seq(Toil)
      BY <1>1, <2>1, Work DEF parse_function, Doing
    <2> QED
      BY <1>1, <2>2 DEF parse_function, Step, Moves, Reports, advance, check, Quiet
  <1>2. CASE not_a_function
    BY <1>2 DEF not_a_function, synchronize, Step, Moves, Reports, Inv
  <1>3. CASE end_of_program
    BY <1>3, Work DEF end_of_program, Doing, Pop, Step, Moves, Reports
  <1> QED
    BY <1>1, <1>2, <1>3

LEMMA TokensRead ==
  ASSUME Inv, expect \/ name \/ parse_type \/ resync
  PROVE  Step
  <1>1. CASE expect
    <2>1. Head(todo).arg # "<eof>" /\ Tail(todo) \in Seq(Toil)
      BY <1>1, Work, Arguments DEF expect, Doing
    <2> QED
      BY <1>1, <2>1 DEF expect, Pop, advance, check, Quiet, error, Stay, Step, Moves, Reports
  <1>2. CASE name
    BY <1>2, Work DEF name, Doing, Pop, advance, check, Quiet, error, Stay, Step, Moves, Reports
  <1>3. CASE parse_type
    BY <1>3, Work DEF parse_type, Doing, Pop, advance, Quiet, error, Stay, Step, Moves, Reports
  <1>4. CASE resync
    BY <1>4, Work DEF resync, synchronize, Doing, Pop, Stay, Step, Moves, Reports
  <1> QED
    BY <1>1, <1>2, <1>3, <1>4

LEMMA ListsRead ==
  ASSUME Inv, empty_list \/ list \/ more \/ build
  PROVE  Step
  <1>1. CASE empty_list
    BY <1>1, Work DEF empty_list, Doing, Pop, Stay, Quiet, Step, Moves, Reports
  <1>2. CASE build
    BY <1>2, Work DEF build, Doing, Pop, Stay, Quiet, Step, Moves, Reports
  <1> DEFINE of == Head(todo).arg
  <1>3. CASE list \/ more
    <2>1. of \in Lists
      BY <1>3, Work, Arguments DEF list, more, Doing
    <2>2. Element(of) \o <<More(of)>> \in Seq(Toil)
      BY <2>1, Elements
    <2>3. todo' \in Seq(Toil)
      BY <1>3, <2>2, Work DEF list, more, Doing, Then, Pop
    <2> QED
      BY <1>3, <2>3 DEF list, more, Stay, advance, check, Quiet, Step, Moves, Reports
  <1> QED
    BY <1>1, <1>2, <1>3

LEMMA StatementsParsed ==
  ASSUME Inv, \/ parse_block \/ statements \/ parse_let \/ parse_if \/ parse_else \/ parse_while
              \/ parse_return \/ parse_print \/ block_stmt \/ parse_simple_stmt
  PROVE  Step
  <1>1. CASE parse_block
    <2>1. <<Expect("{"), Empty, Statements, Expect("}")>> \in Seq(Toil)
      BY Calls, Expects, Row4, Zenon
    <2> QED
      BY <1>1, <2>1, Work DEF parse_block, Doing, Then, Stay, Quiet, Step, Moves, Reports
  <1>2. CASE statements
    <2>1. <<Statement, Build("append"), Resync>> \in Seq(Toil)
      BY Calls, Builds, Row3, Zenon
    <2> QED
      BY <1>2, <2>1, Work DEF statements, Doing, Pop, Stay, Quiet, Step, Moves, Reports
  <1>3. ASSUME NEW k, k # "<eof>", NEW work \in Seq(Toil), keyword_stmt(k, work)
        PROVE  Step
    BY <1>3, Work DEF keyword_stmt, Doing, Then, advance, check, Quiet, Step, Moves, Reports
  <1>4. CASE parse_let
    <2>1. <<Name, Expect(":"), Type, Expect("="), Expr, Expect(";"), Build("let")>> \in Seq(Toil)
      BY Calls, Expects, Builds, Exprs, Row7, Zenon
    <2> QED
      BY <1>3, <1>4, <2>1 DEF parse_let
  <1>5. CASE parse_if
    <2>1. <<Expect("("), Expr, Expect(")"), Block, Else>> \in Seq(Toil)
      BY Calls, Expects, Exprs, Row5, Zenon
    <2> QED
      BY <1>3, <1>5, <2>1 DEF parse_if
  <1>6. CASE parse_while
    <2>1. <<Expect("("), Expr, Expect(")"), Block, Build("while")>> \in Seq(Toil)
      BY Calls, Expects, Builds, Exprs, Row5, Zenon
    <2> QED
      BY <1>3, <1>6, <2>1 DEF parse_while
  <1>7. CASE parse_return
    <2>1. <<Expr, Expect(";"), Build("return")>> \in Seq(Toil)
      BY Expects, Builds, Exprs, Row3, Zenon
    <2> QED
      BY <1>3, <1>7, <2>1 DEF parse_return
  <1>8. CASE parse_print
    <2>1. <<Expect("("), Expr, Expect(")"), Expect(";"), Build("print")>> \in Seq(Toil)
      BY Expects, Builds, Exprs, Row5, Zenon
    <2> QED
      BY <1>3, <1>8, <2>1 DEF parse_print
  <1>9. CASE parse_else
    <2>1. <<Block, Build("if_else")>> \in Seq(Toil) /\ <<Build("if")>> \in Seq(Toil)
      BY Calls, Builds, Row1, Row2, Zenon
    <2> QED
      BY <1>9, <2>1, Work DEF parse_else, Doing, Then, advance, check, Stay, Quiet, Step, Moves, Reports
  <1>10. CASE block_stmt
    <2>1. <<Block, Build("block")>> \in Seq(Toil)
      BY Calls, Builds, Row2, Zenon
    <2> QED
      BY <1>10, <2>1, Work DEF block_stmt, Doing, Then, Stay, Quiet, Step, Moves, Reports
  <1>11. CASE parse_simple_stmt
    <2>1. <<Expr, Expect(";"), Build("assign")>> \in Seq(Toil) /\ <<Expr, Expect(";"), Build("expr")>> \in Seq(Toil)
      BY Expects, Builds, Exprs, Row3, Zenon
    <2> QED
      BY <1>11, <2>1, Work DEF parse_simple_stmt, Doing, Then, Stay, Quiet, Step, Moves, Reports
  <1> QED
    BY <1>1, <1>2, <1>4, <1>5, <1>6, <1>7, <1>8, <1>9, <1>10, <1>11

LEMMA Expressions ==
  ASSUME Inv, \/ parse_binary \/ climb \/ parse_unary \/ literal \/ name_or_call
              \/ parenthesised \/ no_expression
  PROVE  Step
  <1>1. CASE parse_binary
    <2>1. Head(todo).arg \in 1 .. 7
      BY <1>1, Work, Arguments DEF parse_binary, Doing
    <2>2. <<Call("unary"), Do("climb", Head(todo).arg)>> \in Seq(Toil)
      BY <2>1, Calls, Parameterised
    <2> QED
      BY <1>1, <2>2, Work DEF parse_binary, Doing, Then, Stay, Quiet, Step, Moves, Reports
  <1>2. CASE climb
    <2>1. bin_info(cur.kind).prec \in 0 .. 6 /\ (is_binop(cur.kind) => cur.kind # "<eof>")
      BY DEF bin_info, is_binop
    <2>2. <<Do("binary", bin_info(cur.kind).prec + 1), Build("binary")>> \in Seq(Toil)
      <3>1. bin_info(cur.kind).prec + 1 \in 1 .. 7
        BY <2>1
      <3> QED
        BY <3>1, Builds, Parameterised
    <2>3. todo' \in Seq(Toil)
      BY <1>2, <2>2, Work DEF climb, Doing, Pop
    <2> QED
      BY <1>2, <2>1, <2>3 DEF climb, advance, Stay, Quiet, Step, Moves, Reports
  <1>3. CASE parse_unary
    <2>1. <<Call("unary"), Build("unary")>> \in Seq(Toil)
      BY Calls, Builds, Row2, Zenon
    <2> QED
      BY <1>3, <2>1, Work DEF parse_unary, Doing, Then, advance, Quiet, Step, Moves, Reports
  <1>4. CASE literal
    BY <1>4, Work DEF literal, Doing, Pop, advance, Quiet, Step, Moves, Reports
  <1>5. CASE name_or_call
    <2>1. <<Empty, List("arg"), Expect(")"), Build("call")>> \in Seq(Toil)
      BY Calls, Expects, Builds, Exprs, Row4, Zenon
    <2> QED
      BY <1>5, <2>1, Work DEF name_or_call, Doing, Then, Pop, advance, check, Quiet, Step, Moves, Reports
  <1>6. CASE parenthesised
    <2>1. <<Expr, Expect(")")>> \in Seq(Toil)
      BY Expects, Exprs, Row2, Zenon
    <2> QED
      BY <1>6, <2>1, Work DEF parenthesised, Doing, Then, advance, check, Quiet, Step, Moves, Reports
  <1>7. CASE no_expression
    BY <1>7, Work DEF no_expression, Doing, Pop, error, Stay, Step, Moves, Reports
  <1> QED
    BY <1>1, <1>2, <1>3, <1>4, <1>5, <1>6, <1>7

LEMMA InvHolds == Spec => []Inv
  <1>1. Init => Inv
    <2> SUFFICES ASSUME Init PROVE Inv
      OBVIOUS
    <2>1. toks \in Tokens_ /\ EndsInEof(toks)
      BY TokenListsAssumption DEF Init, Tokens_
    <2>2. pos \in 0 .. Len(toks) - 1
      BY <2>1 DEF Init, EndsInEof, Tokens_
    <2>3. todo \in Seq(Toil)
      BY Calls DEF Init
    <2> QED
      BY <2>1, <2>2, <2>3 DEF Init, Inv, TypeOK
  <1>2. Inv /\ [Next]_vars => Inv'
    <2> SUFFICES ASSUME Inv, [Next]_vars PROVE Inv'
      OBVIOUS
    <2>1. CASE Next
      <3>1. Step
        BY <2>1, Declarations, TokensRead, ListsRead, StatementsParsed, Expressions DEF Next
      <3> QED
        BY <3>1, StepsKeepTheInvariant DEF Step
    <2>2. CASE UNCHANGED vars
      BY <2>2 DEF vars, Inv, TypeOK, EndsInEof
    <2> QED
      BY <2>1, <2>2
  <1> QED
    BY <1>1, <1>2, PTL DEF Spec

(* On every list of tokens the cursor stays on a token, Eof the last, and  *)
(* so does every diagnostic; nothing is suppressed before something is     *)
(* reported (advance, error and synchronize of parser.cpp).                *)
THEOREM CursorStaysOnTheTokens == Spec => []TypeOK
  BY InvHolds, PTL DEF Inv

-----------------------------------------------------------------------------
(* Between functions, at a token that may begin or end a statement or      *)
(* behind a semicolon, parse_program reports and synchronize does not      *)
(* move, so that the same token is met again: the parser never returns,    *)
(* whatever follows.                                                       *)
LEMMA StuckStaysStuck ==
  ASSUME Inv, StuckAtTop, [Next]_vars
  PROVE  StuckAtTop'
  <1>1. CASE UNCHANGED vars
    BY <1>1 DEF vars, StuckAtTop, Doing, check, at_end, cur, peek, AfterSemicolon
  <1>2. CASE Next
    <2>1. not_a_function
      BY <1>2, Zenon DEF Next, StuckAtTop, Doing, at_end, parse_function, end_of_program, resync, expect, name, parse_type,
         empty_list, list, more, build, parse_block, statements, keyword_stmt, parse_let, parse_if, parse_else,
         parse_while, parse_return, parse_print, block_stmt, parse_simple_stmt, parse_binary, climb,
         parse_unary, literal, name_or_call, parenthesised, no_expression
    <2>2. \A junk \in BOOLEAN : StopsAt(pos, junk)
      <3>1. pos \in Nat /\ cur = toks[pos + 1]
        BY Current
      <3>2. Begins \subseteq Boundaries
        BY Zenon DEF Begins, Boundaries
      <3>3. cur.kind \in Begins \/ AfterSemicolon
        BY Zenon DEF StuckAtTop
      <3>4. pos > 0 => pos # 0
        BY <3>1
      <3> QED
        BY <3>1, <3>2, <3>3, <3>4, Zenon DEF AfterSemicolon, StopsAt, PastSemicolon
    <2>3. pos' = pos
      <3>1. PICK junk \in BOOLEAN, q \in pos .. Len(toks) - 1 :
              (\A r \in pos .. q - 1 : ~StopsAt(r, junk)) /\ pos' = q
        BY <2>1 DEF not_a_function, synchronize
      <3>2. q \in Nat /\ pos \in Nat /\ ~(pos \in pos .. q - 1)
        BY <2>2, <3>1, Current
      <3> QED
        BY <3>1, <3>2
    <2> QED
      BY <2>1, <2>3 DEF not_a_function, StuckAtTop, Doing, check, at_end, cur, peek, AfterSemicolon
  <1> QED
    BY <1>1, <1>2

(* Recovery that stops where parse_program does not go on never ends:      *)
(* `synchronize' (parser.cpp:71-82) and its caller (parser.cpp:93).        *)
THEOREM StuckAtTopIsForever == Spec => [](StuckAtTop => []~Done)
  <1>1. StuckAtTop => ~Done
    BY DEF StuckAtTop, Doing, Done
  <1>2. Inv /\ StuckAtTop /\ [Next]_vars => StuckAtTop'
    BY StuckStaysStuck
  <1> QED
    BY <1>1, <1>2, InvHolds, PTL DEF Spec
=============================================================================
