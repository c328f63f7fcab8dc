------------------------------ MODULE MCParser ------------------------------
(***************************************************************************)
(* Token lists for the parser.                                             *)
(***************************************************************************)
EXTENDS Parsing, SequencesExt

Kind(w) == CASE w \in Keywords \cup Symbols \cup {"<eof>"} -> w
             [] w \in {"0", "1", "2"} -> "Int"
             [] OTHER -> "Ident"
Value(w) == CASE w = "1" -> 1 [] w = "2" -> 2 [] OTHER -> 0
Tokens_(ws) == [i \in 1 .. Len(ws) + 1 |->
                  LET w == IF i > Len(ws) THEN "<eof>" ELSE ws[i] IN Token(Kind(w), w, 1, i, Value(w))]

Body_(ws) == Tokens_(<<"fn", "f", "(", ")", "->", "int", "{">> \o ws \o <<"}">>)
Seqs(S, n) == UNION { [1 .. m -> S] : m \in 0 .. n }

(* Every short sequence over the kinds that matter to an expression, and   *)
(* every three operators in a row.                                         *)
BinOps == {"+", "-", "*", "/", "%", "==", "!=", "<", "<=", ">", ">=", "&&", "||"}
ExprSources ==
  { Body_(<<"return">> \o s \o <<";">>) :
      s \in Seqs({"a", "1", "-", "!", "*", "<", "(", ")", ","}, 4)
            \cup { <<"a", o, "1", q, "-", "c", r, "true">> : o \in BinOps, q \in BinOps, r \in BinOps }
            \cup { <<"!", "(", "a", o, "1", ")", q, "g", "(", "c", r, "2", ",", "d", ")">> :
                     o \in BinOps, q \in {"*", "=="}, r \in BinOps } }

(* Programs with every construct, and all that become of them by losing a  *)
(* token, gaining one or having one replaced.                              *)
Whole ==
  { <<"fn", "f", "(", "p", ":", "int", ",", "q", ":", "bool", ")", "->", "bool", "{", "return", "q", ";", "}",
      "fn", "g", "(", ")", "->", "int", "{", "}">>,
    <<"fn", "f", "(", ")", "->", "int", "{", "if", "(", "a", ")", "{", "a", "=", "1", ";", "}",
      "else", "{", "print", "(", "a", ")", ";", "}", "let", "x", ":", "int", "=", "a", ";", "}">>,
    <<"fn", "f", "(", ")", "->", "int", "{", "while", "(", "a", "<", "1", ")", "{", "g", "(", "a", ",", "b", ")", ";", "}",
      "{", "return", "-", "a", ";", "}", "if", "(", "a", ")", "{", "}", "}">> }
Words_ == {"fn", "let", "if", "else", "while", "return", "print", "int", "true", "a", "1", "(", ")", "{", "}",
           ",", ":", ";", "->", "=", "-", "*", "!"}
Mutations(s) == { RemoveAt(s, i) : i \in DOMAIN s }
                \cup { InsertAt(s, i, w) : i \in 1 .. Len(s) + 1, w \in Words_ }
                \cup { ReplaceAt(s, i, w) : i \in DOMAIN s, w \in Words_ }
ProgramSources == { Tokens_(s) : s \in Whole \cup UNION { Mutations(s) : s \in Whole } }

(* Bodies of two statements, right or wrong, and a right one.              *)
Right == { <<"a", "=", "1", ";">>, <<"return", "a", ";">>, <<"f", "(", ")", ";">> }
Wrong == { <<"let", "x", ":", "int", "=", ";">>, <<"let", "y", ":", "int", "=", "2", "2", ";">>, <<"a", "=", ")", ";">>,
           <<"f", "(", "a", ";">>, <<"(", "a", ",", "b", ")", ";">>, <<"*", "a", ";">>, <<";">>,
           <<"let", "a", "=", "1", ";">>, <<"let", "int", ":", "int", "=", "1", ";">>, <<"print", "a", ";">>,
           <<"print", "(", "1", ";">>, <<"return", ";">>, <<"return", "a", "b", ";">>, <<"if", "(", "a", ")", "b", ";">>,
           <<"while", "(", "a", ";">>, <<"let", "let", ";">>, <<"a", "=", "return", "1", ";">>, <<"f", "(", "!", ")", ";">> }
BodySources == { Body_(a \o b \o c) : a \in Right \cup Wrong, b \in Right \cup Wrong, c \in Right }

AllSources == ExprSources \cup ProgramSources \cup BodySources

(* A function with a bare return, and one with a block for a statement.    *)
BareAndNested == { Tokens_(<<"fn", "f", "(", ")", "->", "int", "{", "return", ";", "}",
                             "fn", "main", "(", ")", "->", "int", "{", "{", "return", "1", ";", "}", "}">>) }

(* A function that lacks its brace.                                        *)
Unclosed == { Tokens_(<<"fn", "f", "(", ")", "->", "int", "{", "return", "1", ";"
                        , "fn", "main", "(", ")", "->", "int", "{", "return", "0", ";", "}">>) }
=============================================================================
