------------------------------ MODULE MCLexer ------------------------------
(***************************************************************************)
(* All short texts over an alphabet with a keyword in it, literals on both *)
(* sides of MaxInt, every pair of characters that makes a symbol, and some *)
(* that make none.                                                         *)
(***************************************************************************)
EXTENDS Scanning

Join(cs) == FoldLeft(LAMBDA a, b : a \o b, "", cs)
Upto(S, n) == { Join(cs) : cs \in UNION { [1 .. m -> S] : m \in 0 .. n } }

ShortTexts == Upto({"i", "f", "_", "1", "0", " ", "\n", "/", "-", ">", "=", "!", "&", "@"}, 4)
              \cup Upto({"|", "&", "<", "=", "(", "%", "\t"}, 3)
              \cup Upto({"1", "2", "3"}, 5)
=============================================================================
