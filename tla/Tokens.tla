------------------------------- MODULE Tokens -------------------------------
(***************************************************************************)
(* The tokens of token.h.  A kind is named as tok_name prints it: keywords *)
(* and symbols by their text.  A token's line and column count from 1.     *)
(***************************************************************************)
Keywords == {"fn", "let", "if", "else", "while", "return", "print", "int", "bool", "true", "false"}
Symbols == {"(", ")", "{", "}", ",", ":", ";", "->", "+", "-", "*", "/", "%", "=", "==", "!=",
            "<", "<=", ">", ">=", "&&", "||", "!"}
Kinds == {"Int", "Ident", "<eof>", "<error>"} \cup Keywords \cup Symbols

Token(kind, lexeme, line, col, int_val) ==
  [kind |-> kind, lexeme |-> lexeme, line |-> line, col |-> col, int_val |-> int_val]
=============================================================================
