------------------------------ MODULE Parsing ------------------------------
(***************************************************************************)
(* What the parser promises: it accepts the sentences of the grammar, with *)
(* the one tree each can be read as, and no others; a rejected program is  *)
(* told of each of its mistakes; and parsing ends, where it does.          *)
(***************************************************************************)
EXTENDS Parser, FiniteSets

(* The grammar to the letter of SPEC.md, and the one whose trees ast.h can *)
(* hold: they differ in two rules.                                         *)
SpecMd == INSTANCE Grammar WITH BlockIsStatement <- FALSE, ReturnMayBeBare <- TRUE
AstH == INSTANCE Grammar WITH BlockIsStatement <- TRUE, ReturnMayBeBare <- FALSE

text == SubSeq(toks, 1, Len(toks) - 1)       \* without the Eof
-----------------------------------------------------------------------------
(* Without a diagnostic the token list is a sentence, the tree is what it  *)
(* says, and it says nothing else: levels and associativity are as in      *)
(* SPEC.md, nothing is skipped, and no placeholder of the recovery is in   *)
(* the tree.  With one it is no sentence.  The sentences are SPEC.md's but *)
(* for the two rules of AstH; this property says that the parser departs   *)
(* from SPEC.md in no other, and FunctionsAreSpecMds fails by both.        *)
AcceptsExactlyTheGrammar ==
  Done \/ Stuck => AstH!Programs(text) = IF Done /\ errors = {} THEN {program} ELSE {}

(* Tokens i to j are a function: fn, up to the next.                       *)
AtFn(i) == text[i].kind = "fn"
IsFunction(i, j) ==
  /\ i <= j /\ AtFn(i) /\ \A k \in i + 1 .. j : ~AtFn(k)
  /\ j = Len(text) \/ AtFn(j + 1)

(* Each function of the text is told of a mistake exactly if SPEC.md's     *)
(* grammar does not derive it: parse_return must do without the expression *)
(* of returnStmt := "return" expr? ";", and parse_statement must know no   *)
(* statements but those of its list, in which there is no block.           *)
FunctionsAreSpecMds ==
  Done => \A i, j \in DOMAIN text :
            IsFunction(i, j) => ( { e \in errors : e + 1 \in i .. j } = {}
                                    <=> SpecMd!Programs(SubSeq(text, i, j)) # {} )

(* In a body of simple statements every wrong statement gets its own       *)
(* diagnostic, whatever is wrong with the others, and a right one gets     *)
(* none ("synchronize ... so we can report more than one error per run",   *)
(* SPEC.md; test_error_recovery).  It gets just one unless it holds a      *)
(* keyword at which the parser thinks the next statement begins.  A bare   *)
(* return counts as wrong here (FunctionsAreSpecMds is about it).          *)
Body == 8 .. Len(toks) - 2
FlatBody ==
  /\ Len(toks) > 8
  /\ [i \in 1 .. 7 |-> toks[i].kind] = << "fn", "Ident", "(", ")", "->", "int", "{" >>
  /\ toks[Len(toks) - 1].kind = "}"
  /\ \A i \in Body : toks[i].kind \notin {"{", "}"}
Ends == { i \in Body : toks[i].kind = ";" }
FirstOf(i) == LET before == { j \in Ends : j < i } IN IF before = {} THEN 8 ELSE 1 + CHOOSE j \in before : \A k \in before : k <= j
EachMistakeIsReported ==
  Done /\ FlatBody =>
    \A i \in Ends :
      LET first == FirstOf(i)
          reported == { e \in errors : e + 1 \in first .. i }
      IN  /\ (reported = {}) <=> (AstH!Simple(SubSeq(toks, first, i)) # {})
          /\ (\A j \in first + 1 .. i : toks[j].kind \notin Boundaries) => Cardinality(reported) <= 1

(* Parsing ends unless it gets stuck, and these are all the ways to be     *)
(* stuck: once there, it reports the same token forever.                   *)
EndsUnlessStuck == (<>Done \/ []<>MayBeStuck) /\ [](Stuck => []~Done)

(* "On error, collects diagnostics and recovers to keep going where        *)
(* possible.  Returns whatever AST it built" (parser.h): it returns.       *)
ParsingEnds == <>Done
=============================================================================
