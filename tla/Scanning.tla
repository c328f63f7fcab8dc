------------------------------ MODULE Scanning ------------------------------
(***************************************************************************)
(* What the lexer promises, in terms of the text: tokens and diagnostics   *)
(* say where they stand, nothing but blanks and comments is between them,  *)
(* and each is the longest lexeme there.                                   *)
(***************************************************************************)
EXTENDS Lexer

(* The position that a line and a column name.                             *)
NewLines(i) == Cardinality({ k \in 0 .. i - 1 : Char(k) = "\n" })
LineStart(l) == CHOOSE i \in 0 .. Len(src) : NewLines(i) = l - 1 /\ (i = 0 \/ Char(i - 1) = "\n")
Offset(l, c) == LineStart(l) + c - 1

From(t) == Offset(t.line, t.col)
To(t) == From(t) + Len(t.lexeme)

(* Every character of a gap is blank or behind a // on its line.           *)
Skippable(i, j) ==
  \A k \in i .. j - 1 :
    \/ Char(k) \in Blanks
    \/ \E c \in i .. k : /\ Char(c) = "/" /\ Char(c + 1) = "/"
                         /\ \A m \in c .. k : Char(m) # "\n"

(* Lexemes as the language defines them.                                   *)
IsNumber(i, j) == i < j /\ \A k \in i .. j - 1 : Char(k) \in Digits
IsWord(i, j) == i < j /\ Char(i) \notin Digits /\ \A k \in i .. j - 1 : Char(k) \in WordChars
IsLexeme(i, j) == IsNumber(i, j) \/ IsWord(i, j) \/ Text(i, j) \in Symbols

Scanned == IF Done THEN Front(out) ELSE out
-----------------------------------------------------------------------------
(* The cursor's line and column are where it is, and so are every token's: *)
(* the text there is its lexeme, and what lies between two tokens, or the  *)
(* last one and the cursor, is blank or a comment.  All later messages     *)
(* give these lines and columns.                                           *)
TokensTileTheText ==
  /\ pos \in 0 .. Len(src) /\ Offset(line, col) = pos
  /\ \A i \in DOMAIN out :
       /\ Text(From(out[i]), To(out[i])) = out[i].lexeme
       /\ Skippable(IF i = 1 THEN 0 ELSE To(out[i - 1]), From(out[i]))
  /\ Skippable(IF out = <<>> THEN 0 ELSE To(Last(out)), pos)

(* Each token is the longest lexeme that begins where it begins ("maximal- *)
(* munch traps", test_lexer.cpp) and has the kind and the value its text   *)
(* says; a literal that is no word and a character that begins no lexeme   *)
(* are Error tokens; none begins a comment.                                *)
TokensAreWhatTheTextSays ==
  \A t \in ToSet(Scanned) :
    LET i == From(t)  j == To(t)
    IN  /\ IF t.kind = "<error>"
           THEN \/ IsNumber(i, j) /\ Decimal(Text(i, j)) > MaxInt
                \/ j = i + 1 /\ \A k \in i + 1 .. Len(src) : ~IsLexeme(i, k)
           ELSE IsLexeme(i, j) /\ ~(Char(i) = "/" /\ Char(i + 1) = "/")
        /\ \A k \in j + 1 .. Len(src) : ~IsLexeme(i, k)
        /\ t.kind = "Int" <=> IsNumber(i, j) /\ t.kind # "<error>"
        /\ t.kind = "Int" => t.int_val = Decimal(Text(i, j)) /\ t.int_val \in Word
        /\ t.kind = "Ident" <=> IsWord(i, j) /\ t.lexeme \notin Keywords
        /\ t.kind \in Keywords \cup Symbols => t.lexeme = t.kind

(* "Lexical errors are collected in errors() and also emitted as Tok::Error*)
(* tokens" (lexer.h): one for one and in order.                            *)
ErrorsAreErrorTokens ==
  LET bad == { i \in DOMAIN out : out[i].kind = "<error>" }
  IN  /\ Len(errors) = Cardinality(bad)
      /\ \A i \in bad : errors[Cardinality({ k \in bad : k <= i })] = <<out[i].line, out[i].col>>

(* "Always ends with an Eof token" (lexer.h), and has no other: what the   *)
(* parser's cursor relies on.                                              *)
EndsInOneEof == <>[](Done /\ \A i \in 1 .. Len(out) - 1 : out[i].kind # "<eof>")
=============================================================================
