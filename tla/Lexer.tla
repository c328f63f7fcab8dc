------------------------------- MODULE Lexer -------------------------------
(***************************************************************************)
(* The lexer (lexer.cpp).  One step is one iteration of tokenize's loop: a *)
(* blank, a comment or a token.  pos counts characters from 0, line and    *)
(* col from 1; a diagnostic is the line and column it is given at.         *)
(***************************************************************************)
EXTENDS Tokens, Words, Sequences, SequencesExt

CONSTANT Texts           \* source texts

(* The symbols of two characters.                                          *)
Pairs == {"->", "==", "!=", "<=", ">=", "&&", "||"}

(* Classes of characters.                                                  *)
Blanks == {" ", "\t", "\r", "\n"}
Digits == {"0", "1", "2", "3", "4", "5", "6", "7", "8", "9"}
Letters == {"a", "b", "c", "d", "e", "f", "g", "h", "i", "j", "k", "l", "m", "n", "o", "p",
            "q", "r", "s", "t", "u", "v", "w", "x", "y", "z", "A", "B", "C", "D", "E", "F",
            "G", "H", "I", "J", "K", "L", "M", "N", "O", "P", "Q", "R", "S", "T", "U", "V", "W", "X", "Y", "Z"}
WordChars == Letters \cup Digits \cup {"_"}

(* A text is a string: what the substrings of a string are.                *)
ASSUME TextsAssumption ==
  /\ Len("") = 0
  /\ \A sym \in Symbols : Len(sym) = IF sym \in Pairs THEN 2 ELSE 1
  /\ \A c \in Digits : \E d \in 0 .. 9 : SubSeq("0123456789", d + 1, d + 1) = c
  /\ \A s \in Texts :
       /\ Len(s) \in Nat
       /\ \A i \in 0 .. Len(s) : SubSeq(s, i + 1, i) = ""
       /\ \A i \in 0 .. Len(s) : \A j \in i .. Len(s) : Len(SubSeq(s, i + 1, j)) = j - i
       /\ \A i \in 0 .. Len(s) - 2 : SubSeq(s, i + 1, i + 2) \in Pairs => SubSeq(s, i + 2, i + 2) # "\n"
       /\ \A i \in 0 .. Len(s) - 1 : \A j \in i + 1 .. Len(s) :
            SubSeq(s, i + 1, j) \in Symbols => SubSeq(s, i + 1, i + 1) \notin WordChars
       /\ \A i \in 0 .. Len(s) : \A j \in i .. Len(s) : \A k \in 1 .. j - i :
            SubSeq(SubSeq(s, i + 1, j), k, k) = SubSeq(s, i + k, i + k)

VARIABLES src, pos, line, col, out, errors
vars == <<src, pos, line, col, out, errors>>

(* The character at position i; none (peek's '\0') behind the end.         *)
Char(i) == SubSeq(src, i + 1, IF i < Len(src) THEN i + 1 ELSE i)
peek(ahead) == Char(pos + ahead)
at_end == pos >= Len(src)
Text(i, j) == SubSeq(src, i + 1, j)                      \* from i up to j

(* Where the run of characters from pos that are in C ends.                *)
EndOfRun(C) == CHOOSE j \in pos .. Len(src) : Char(j) \notin C /\ \A i \in pos .. j - 1 : Char(i) \in C

(* What a string of digits says (std::stoll), after each of them.          *)
DigitValue(c) == CHOOSE d \in 0 .. 9 : SubSeq("0123456789", d + 1, d + 1) = c
Read(num) ==
  LET v[n \in 0 .. Len(num)] == IF n = 0 THEN 0 ELSE 10 * v[n - 1] + DigitValue(SubSeq(num, n, n))
  IN  v
Decimal(num) == Read(num)[Len(num)]

Init == src \in Texts /\ pos = 0 /\ line = 1 /\ col = 1 /\ out = <<>> /\ errors = <<>>

Done == out # <<>> /\ Last(out).kind = "<eof>"
More == ~Done /\ ~at_end

(* advance() up to j, over characters that are not newlines.               *)
MoveTo(j) == pos' = j /\ col' = col + (j - pos) /\ UNCHANGED line
Emit(kind, lexeme, val) == out' = Append(out, Token(kind, lexeme, line, col, val))
Good == UNCHANGED errors
add_error == errors' = Append(errors, <<line, col>>)
-----------------------------------------------------------------------------
\* A faulty variant, on which a property must fail.
Blank_keeps_col ==
  /\ More /\ peek(0) \in Blanks
  /\ line' = IF peek(0) = "\n" THEN line + 1 ELSE line
  /\ pos' = pos + 1 /\ col' = col + 1
  /\ UNCHANGED <<src, out, errors>>

Blank ==
  /\ More /\ peek(0) \in Blanks
  /\ IF peek(0) = "\n" THEN pos' = pos + 1 /\ line' = line + 1 /\ col' = 1
     ELSE MoveTo(pos + 1)
  /\ UNCHANGED <<src, out, errors>>

CommentStarts == peek(0) = "/" /\ peek(1) = "/"
\* A faulty variant, on which a property must fail.
EndOfLine_if_any ==
  IF \E j \in pos .. Len(src) : Char(j) = "\n"
  THEN CHOOSE j \in pos .. Len(src) : Char(j) = "\n" /\ \A i \in pos .. j - 1 : Char(i) # "\n"
  ELSE pos

EndOfLine == CHOOSE j \in pos .. Len(src) : Char(j) \in {"\n", ""} /\ \A i \in pos .. j - 1 : Char(i) # "\n"

Comment ==
  /\ More /\ CommentStarts
  /\ MoveTo(EndOfLine)
  /\ UNCHANGED <<src, out, errors>>

\* A faulty variant, on which a property must fail.
Number_saturates ==
  /\ More /\ peek(0) \in Digits
  /\ LET j == EndOfRun(Digits)
         n == Decimal(Text(pos, j))
     IN  Emit("Int", Text(pos, j), IF n <= MaxInt THEN n ELSE MaxInt) /\ MoveTo(j)
  /\ UNCHANGED <<src, errors>>

\* A faulty variant, on which a property must fail.
Number_reports_behind ==
  /\ More /\ peek(0) \in Digits
  /\ LET j == EndOfRun(Digits)
         n == Decimal(Text(pos, j))
     IN  /\ MoveTo(j)
         /\ IF n <= MaxInt THEN Emit("Int", Text(pos, j), n) /\ Good
            ELSE Emit("<error>", Text(pos, j), 0) /\ errors' = Append(errors, <<line', col'>>)
  /\ UNCHANGED src

(* A literal without a value is an error, and an Error token.              *)
Number ==
  /\ More /\ peek(0) \in Digits
  /\ LET j == EndOfRun(Digits)
         n == Decimal(Text(pos, j))
     IN  /\ IF n <= MaxInt THEN Emit("Int", Text(pos, j), n) /\ Good
            ELSE Emit("<error>", Text(pos, j), 0) /\ add_error
         /\ MoveTo(j)
  /\ UNCHANGED src

Word_ ==
  /\ More /\ peek(0) \in Letters \cup {"_"}
  /\ LET j == EndOfRun(WordChars)
         id == Text(pos, j)
     IN  Emit(IF id \in Keywords THEN id ELSE "Ident", id, 0) /\ MoveTo(j)
  /\ Good /\ UNCHANGED src

(* Operators and punctuation: a second character is taken if it makes a    *)
(* symbol with the first.                                                  *)
Symbol ==
  /\ More /\ peek(0) \notin Blanks \cup Digits \cup Letters \cup {"_"} /\ ~CommentStarts
  /\ LET one == peek(0)
         two == Text(pos, IF pos + 1 < Len(src) THEN pos + 2 ELSE pos + 1)
     IN  \/ two \in Pairs /\ Emit(two, two, 0) /\ MoveTo(pos + 2) /\ Good
         \/ two \notin Pairs /\ one \in Symbols /\ Emit(one, one, 0) /\ MoveTo(pos + 1) /\ Good
         \/ two \notin Pairs /\ one \notin Symbols /\ Emit("<error>", one, 0) /\ MoveTo(pos + 1) /\ add_error
  /\ UNCHANGED src

EndOfText ==
  /\ ~Done /\ at_end
  /\ Emit("<eof>", "", 0)
  /\ UNCHANGED <<src, pos, line, col, errors>>

Next == Blank \/ Comment \/ Number \/ Word_ \/ Symbol \/ EndOfText

Spec == Init /\ [][Next]_vars /\ WF_vars(Next)
=============================================================================
