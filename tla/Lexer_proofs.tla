---------------------------- MODULE Lexer_proofs ----------------------------
(***************************************************************************)
(* Whatever the texts, the tokens tile the text they are made of, with     *)
(* the lines and columns they stand at, each is the longest lexeme there   *)
(* with what its text says, and the diagnostics are those of the Error     *)
(* tokens.  Of strings only TextsAssumption is used.                       *)
(***************************************************************************)
EXTENDS Scanning, FiniteSetTheorems, SequenceTheorems, WellFoundedInduction, TLAPS

-----------------------------------------------------------------------------
(* The text.                                                               *)

Nothing == ""

LEMMA TextProperties ==
  ASSUME src \in Texts
  PROVE  /\ Len(src) \in Nat
         /\ \A i \in 0 .. Len(src) : Text(i, i) = Nothing
         /\ \A i \in 0 .. Len(src) : \A j \in i .. Len(src) : Len(Text(i, j)) = j - i
         /\ Char(Len(src)) = Nothing /\ Len(Nothing) = 0
         /\ \A i \in 0 .. Len(src) - 1 : Char(i) = Text(i, i + 1) /\ Char(i) # Nothing
  <1> DEFINE L == Len(src)
             Sub(i, j) == SubSeq(src, i, j)
             Size(t) == Len(t)
  <1>1. /\ L \in Nat /\ Size(Nothing) = 0
        /\ \A i \in 0 .. L : Sub(i + 1, i) = Nothing
        /\ \A i \in 0 .. L : \A j \in i .. L : Size(Sub(i + 1, j)) = j - i
    BY TextsAssumption, Zenon DEF Nothing
  <1>2. \A i, j : Text(i, j) = Sub(i + 1, j)
    BY Zenon DEF Text
  <1>3. \A i : Char(i) = Sub(i + 1, IF i < L THEN i + 1 ELSE i)
    BY Zenon DEF Char
  <1> HIDE DEF L, Sub, Size
  <1>4. \A i \in 0 .. L : Text(i, i) = Nothing
    BY <1>1, <1>2
  <1>5. \A i \in 0 .. L : \A j \in i .. L : Size(Text(i, j)) = j - i
    BY <1>1, <1>2
  <1>6. Char(L) = Nothing
    BY <1>1, <1>3
  <1>7. ASSUME NEW i \in 0 .. L - 1
        PROVE  Char(i) = Text(i, i + 1) /\ Char(i) # Nothing
    <2>1. Char(i) = Text(i, i + 1)
      BY <1>1, <1>2, <1>3
    <2>2. Size(Text(i, i + 1)) = (i + 1) - i
      <3>1. i \in 0 .. L /\ i + 1 \in i .. L
        BY <1>1
      <3> QED
        BY <1>5, <3>1
    <2> QED
      BY <1>1, <2>1, <2>2
  <1> QED
    BY <1>1, <1>4, <1>5, <1>6, <1>7, Zenon DEF L, Size

(* Counting the lines.                                                     *)
LEMMA NewLinesCount ==
  ASSUME NEW i \in Nat
  PROVE  /\ NewLines(i) \in Nat
         /\ NewLines(i + 1) = IF Char(i) = "\n" THEN NewLines(i) + 1 ELSE NewLines(i)
         /\ \A j \in 0 .. i : NewLines(j) <= NewLines(i)
  <1> DEFINE Nl(n) == { k \in 0 .. n - 1 : Char(k) = "\n" }
  <1>1. ASSUME NEW n \in Nat
        PROVE  IsFiniteSet(Nl(n))
    <2>1. IsFiniteSet(0 .. n - 1)
      BY FS_Interval
    <2> QED
      BY <2>1, FS_Subset
  <1>2. Cardinality(Nl(i)) \in Nat
    BY <1>1, FS_CardinalityType
  <1>3. Nl(i + 1) = IF Char(i) = "\n" THEN Nl(i) \cup {i} ELSE Nl(i)
    <2>1. 0 .. (i + 1) - 1 = (0 .. i - 1) \cup {i}
      OBVIOUS
    <2> QED
      BY <2>1
  <1>4. Cardinality(Nl(i) \cup {i}) = Cardinality(Nl(i)) + 1
    <2>1. i \notin Nl(i)
      OBVIOUS
    <2> QED
      BY <1>1, <2>1, FS_AddElement
  <1>5. ASSUME NEW j \in 0 .. i
        PROVE  Cardinality(Nl(j)) <= Cardinality(Nl(i))
    <2>1. Nl(j) \subseteq Nl(i)
      OBVIOUS
    <2> HIDE DEF Nl
    <2> QED
      BY <1>1, <2>1, FS_Subset
  <1> QED
    BY <1>2, <1>3, <1>4, <1>5 DEF NewLines

(* Line l starts at i.                                                     *)
Starts(l, i) == i \in 0 .. Len(src) /\ NewLines(i) = l - 1 /\ (i = 0 \/ Char(i - 1) = "\n")

LEMMA LineStartIs ==
  ASSUME Len(src) \in Nat, NEW l, NEW i, Starts(l, i)
  PROVE  LineStart(l) = i
  <1>1. ASSUME NEW j, NEW k, Starts(l, j), Starts(l, k), j < k
        PROVE  FALSE
    <2>1. j \in Nat /\ k - 1 \in Nat /\ (k - 1) + 1 = k /\ j \in 0 .. k - 1 /\ Char(k - 1) = "\n"
      BY <1>1 DEF Starts
    <2>2. NewLines(k) = NewLines(k - 1) + 1 /\ NewLines(j) <= NewLines(k - 1)
      BY <2>1, NewLinesCount
    <2>3. NewLines(j) \in Nat /\ NewLines(k - 1) \in Nat
      BY <2>1, NewLinesCount
    <2>4. NewLines(j) = NewLines(k)
      BY <1>1 DEF Starts
    <2> QED
      BY <2>2, <2>3, <2>4
  <1>2. \A j : Starts(l, j) => j = i
    <2> SUFFICES ASSUME NEW j, Starts(l, j)
                 PROVE  j = i
      OBVIOUS
    <2>1. i \in Int /\ j \in Int
      BY DEF Starts
    <2>2. ~(i < j) /\ ~(j < i)
      BY <1>1, Zenon
    <2> QED
      BY <2>1, <2>2
  <1>3. LineStart(l) = CHOOSE j \in 0 .. Len(src) : Starts(l, j)
    BY Zenon DEF LineStart, Starts
  <1> QED
    BY <1>2, <1>3 DEF Starts

(* Line l and column c name the position p.                                *)
Names(l, c, p) == l \in Int /\ c \in Int /\ \E i : Starts(l, i) /\ p = i + c - 1

LEMMA NamesOffset ==
  ASSUME Len(src) \in Nat, NEW l, NEW c, NEW p, Names(l, c, p)
  PROVE  Offset(l, c) = p
  BY LineStartIs DEF Names, Offset

(* The first position from pos on with a property that the end has.        *)
LEMMA FirstPosition ==
  ASSUME src \in Texts, pos \in 0 .. Len(src), NEW T \in SUBSET (pos .. Len(src)), Len(src) \in T
  PROVE  \E j \in T : \A i \in pos .. j - 1 : i \notin T
  <1>1. Len(src) \in Nat /\ T \in SUBSET Nat
    BY TextProperties
  <1>2. PICK j \in T : \A i \in T : <<i, j>> \notin OpToRel(<, Nat)
    BY <1>1, WFMin, NatLessThanWellFounded, Zenon
  <1>3. ASSUME NEW i \in pos .. j - 1, i \in T
        PROVE  FALSE
    <2>1. <<i, j>> \notin OpToRel(<, Nat)
      BY <1>2, <1>3, Zenon
    <2>2. i \in Nat /\ j \in Nat /\ i < j
      BY <1>1
    <2> QED
      BY <2>1, <2>2 DEF OpToRel
  <1> QED
    BY <1>2, <1>3

LEMMA EndOfRunIs ==
  ASSUME src \in Texts, pos \in 0 .. Len(src), NEW C, Nothing \notin C
  PROVE  /\ EndOfRun(C) \in pos .. Len(src) /\ Char(EndOfRun(C)) \notin C
         /\ \A i \in pos .. EndOfRun(C) - 1 : Char(i) \in C
  <1> DEFINE T == { j \in pos .. Len(src) : Char(j) \notin C }
  <1>1. Len(src) \in T
    BY TextProperties
  <1>2. PICK j \in T : \A i \in pos .. j - 1 : i \notin T
    <2> HIDE DEF T
    <2>1. T \in SUBSET (pos .. Len(src))
      BY DEF T
    <2> QED
      BY <1>1, <2>1, FirstPosition
  <1>3. \A i \in pos .. j - 1 : Char(i) \in C
    <2>1. \A i \in pos .. j - 1 : i \in pos .. Len(src)
      BY <1>2, TextProperties
    <2> QED
      BY <1>2, <2>1
  <1> QED
    BY <1>2, <1>3, Zenon DEF EndOfRun

LEMMA EndOfLineIs ==
  ASSUME src \in Texts, pos \in 0 .. Len(src)
  PROVE  EndOfLine \in pos .. Len(src) /\ \A i \in pos .. EndOfLine - 1 : Char(i) # "\n"
  <1> DEFINE T == { j \in pos .. Len(src) : Char(j) \in {"\n", Nothing} }
  <1>1. Len(src) \in T
    BY TextProperties
  <1>2. PICK j \in T : \A i \in pos .. j - 1 : i \notin T
    <2> HIDE DEF T
    <2>1. T \in SUBSET (pos .. Len(src))
      BY DEF T
    <2> QED
      BY <1>1, <2>1, FirstPosition
  <1>3. \A i \in pos .. j - 1 : Char(i) # "\n"
    <2>1. \A i \in pos .. j - 1 : i \in pos .. Len(src)
      BY <1>2, TextProperties
    <2> QED
      BY <1>2, <2>1
  <1> QED
    BY <1>2, <1>3, Zenon DEF EndOfLine, Nothing

-----------------------------------------------------------------------------
(* The cursor: its line is started, and no newline is behind the start.    *)
Cursor ==
  /\ line \in Int /\ col \in Int
  /\ \E i \in 0 .. pos : Starts(line, i) /\ col = pos - i + 1 /\ \A k \in i .. pos - 1 : Char(k) # "\n"

(* Token i is the text from b[i] up to e[i].                               *)
Tiled(b, e) ==
  /\ b \in [1 .. Len(out) -> 0 .. Len(src)] /\ e \in [0 .. Len(out) -> 0 .. Len(src)] /\ e[0] = 0
  /\ \A i \in 1 .. Len(out) :
       /\ Names(out[i].line, out[i].col, b[i]) /\ Text(b[i], e[i]) = out[i].lexeme
       /\ e[i] = b[i] + Len(out[i].lexeme) /\ Skippable(e[i - 1], b[i])
  /\ e[Len(out)] <= pos /\ Skippable(e[Len(out)], pos)

Listed(s) == \E S : s \in Seq(S)

LEMMA SameText ==
  ASSUME src' = src
  PROVE  /\ \A i : Char(i)' = Char(i)
         /\ \A i, j : Text(i, j)' = Text(i, j)
         /\ \A l, i : Starts(l, i)' <=> Starts(l, i)
         /\ \A l, c, p : Names(l, c, p)' <=> Names(l, c, p)
         /\ \A i, j : Skippable(i, j)' <=> Skippable(i, j)
  <1>1. /\ \A i : Char(i)' = Char(i)
        /\ \A i, j : Text(i, j)' = Text(i, j)
    BY Zenon DEF Char, Text
  <1>2. \A i : NewLines(i)' = NewLines(i)
    BY <1>1 DEF NewLines
  <1>3. \A l, i : Starts(l, i)' <=> Starts(l, i)
    BY <1>1, <1>2, Zenon DEF Starts
  <1>4. \A l, c, p : Names(l, c, p)' <=> Names(l, c, p)
    BY <1>3, Zenon DEF Names
  <1>5. \A i, j : Skippable(i, j)' <=> Skippable(i, j)
    BY <1>1, Zenon DEF Skippable
  <1> QED
    BY <1>1, <1>3, <1>4, <1>5

-----------------------------------------------------------------------------
(* The cursor moves over characters that are no newlines.                  *)
LEMMA MovesOn ==
  ASSUME src \in Texts, src' = src, pos \in 0 .. Len(src), Cursor,
         NEW j \in pos .. Len(src), \A k \in pos .. j - 1 : Char(k) # "\n", MoveTo(j)
  PROVE  Cursor' /\ pos' \in 0 .. Len(src')
  <1>1. Len(src) \in Nat /\ pos' = j /\ col' = col + (j - pos) /\ line' = line
    BY TextProperties DEF MoveTo
  <1>2. PICK i \in 0 .. pos : Starts(line, i) /\ col = pos - i + 1 /\ \A k \in i .. pos - 1 : Char(k) # "\n"
    BY DEF Cursor
  <1>3. i \in 0 .. pos' /\ col' = pos' - i + 1 /\ line' \in Int /\ col' \in Int /\ pos' \in 0 .. Len(src')
    BY <1>1, <1>2 DEF Cursor
  <1>4. \A l : l = line' => Starts(l, i)'
    BY <1>1, <1>2, SameText
  <1>5. \A k \in i .. pos' - 1 : Char(k)' # "\n"
    <2> TAKE k \in i .. pos' - 1
    <2>1. k \in i .. pos - 1 \/ k \in pos .. j - 1
      BY <1>1, <1>2
    <2>2. Char(k) # "\n"
      BY <1>2, <2>1
    <2> QED
      BY <2>2, SameText
  <1> QED
    BY <1>3, <1>4, <1>5 DEF Cursor

(* It moves over a newline.                                                *)
LEMMA NextLine ==
  ASSUME src \in Texts, src' = src, pos \in 0 .. Len(src) - 1, Cursor,
         Char(pos) = "\n", pos' = pos + 1, line' = line + 1, col' = 1
  PROVE  Cursor' /\ pos' \in 0 .. Len(src')
  <1>1. Len(src) \in Nat
    BY TextProperties
  <1>2. PICK i \in 0 .. pos : Starts(line, i) /\ col = pos - i + 1 /\ \A k \in i .. pos - 1 : Char(k) # "\n"
    BY DEF Cursor
  <1>3. NewLines(pos) = NewLines(i)
    <2>1. { k \in 0 .. pos - 1 : Char(k) = "\n" } = { k \in 0 .. i - 1 : Char(k) = "\n" }
      BY <1>1, <1>2
    <2> QED
      BY <2>1 DEF NewLines
  <1>4. NewLines(pos + 1) = line /\ line \in Int
    <2>1. NewLines(pos) = line - 1 /\ NewLines(pos + 1) = NewLines(pos) + 1 /\ line \in Int
      BY <1>1, <1>2, <1>3, NewLinesCount DEF Starts, Cursor
    <2> QED
      BY <2>1
  <1>5. Starts(line + 1, pos + 1)
    <2>1. pos + 1 \in 0 .. Len(src) /\ (line + 1) - 1 = line /\ (pos + 1) - 1 = pos
      BY <1>1, <1>4
    <2> QED
      BY <1>4, <2>1 DEF Starts
  <1>6. \A l, p : l = line' /\ p = pos' => Starts(l, p)'
    <2> TAKE l, p
    <2> HAVE l = line' /\ p = pos'
    <2>1. Starts(l, p)
      BY <1>5
    <2> QED
      BY <2>1, SameText
  <1>7. pos' \in 0 .. pos' /\ col' = pos' - pos' + 1 /\ pos' .. pos' - 1 = {} /\ pos' \in 0 .. Len(src')
        /\ line' \in Int /\ col' \in Int
    BY <1>1, <1>4
  <1>8. PICK p : p = pos'
    OBVIOUS
  <1>9. p \in 0 .. pos' /\ col' = pos' - p + 1 /\ \A k \in p .. pos' - 1 : Char(k)' # "\n"
    BY <1>7, <1>8
  <1>10. \A l : l = line' => Starts(l, p)'
    BY <1>6, <1>8
  <1> QED
    BY <1>7, <1>9, <1>10 DEF Cursor

(* What the cursor names is where it is.                                   *)
LEMMA CursorNames ==
  ASSUME src \in Texts, pos \in 0 .. Len(src), Cursor
  PROVE  Names(line, col, pos) /\ Offset(line, col) = pos
  <1>1. Len(src) \in Nat
    BY TextProperties
  <1>2. PICK i \in 0 .. pos : Starts(line, i) /\ col = pos - i + 1
    BY DEF Cursor
  <1>3. pos = i + col - 1 /\ line \in Int /\ col \in Int
    BY <1>1, <1>2 DEF Cursor
  <1>4. Names(line, col, pos)
    BY <1>2, <1>3 DEF Names
  <1> QED
    BY <1>1, <1>4, NamesOffset

(* What may be skipped up to i, and from there on, may be skipped.         *)
LEMMA SkipsOn ==
  ASSUME NEW h \in Nat, NEW i \in Nat, NEW j \in Nat, h <= i, Skippable(h, i), Skippable(i, j)
  PROVE  Skippable(h, j)
  <1> SUFFICES ASSUME NEW k \in h .. j - 1
               PROVE  \/ Char(k) \in Blanks
                      \/ \E c \in h .. k : /\ Char(c) = "/" /\ Char(c + 1) = "/"
                                           /\ \A m \in c .. k : Char(m) # "\n"
    BY DEF Skippable
  <1>1. CASE k < i
    <2>1. k \in h .. i - 1
      BY <1>1
    <2> QED
      BY <2>1 DEF Skippable
  <1>2. CASE k >= i
    <2>1. k \in i .. j - 1
      BY <1>2
    <2>2. \/ Char(k) \in Blanks
          \/ \E c \in i .. k : /\ Char(c) = "/" /\ Char(c + 1) = "/"
                               /\ \A m \in c .. k : Char(m) # "\n"
      BY <2>1 DEF Skippable
    <2>3. \A c \in i .. k : c \in h .. k
      OBVIOUS
    <2> QED
      BY <2>2, <2>3
  <1> QED
    BY <1>1, <1>2

(* A step that skips leaves the tokens where they are.                     *)
LEMMA SkipTiles ==
  ASSUME src \in Texts, src' = src, pos \in 0 .. Len(src), pos' \in pos .. Len(src), out' = out, Listed(out),
         NEW b, NEW e, Tiled(b, e), Skippable(pos, pos')
  PROVE  Tiled(b, e)'
  <1>1. Len(src) \in Nat /\ Len(out) \in Nat
    BY TextProperties DEF Listed
  <1>2. /\ e[Len(out)] <= pos /\ Skippable(e[Len(out)], pos) /\ e[Len(out)] \in 0 .. Len(src)
    BY <1>1 DEF Tiled
  <1>3. PICK j : j = pos'
    OBVIOUS
  <1>4. Skippable(e[Len(out)], j) /\ e[Len(out)] <= j
    <2>1. e[Len(out)] \in Nat /\ pos \in Nat /\ j \in Nat /\ e[Len(out)] <= j
      BY <1>1, <1>2, <1>3
    <2>2. Skippable(pos, j)
      BY <1>3
    <2> QED
      BY <1>2, <2>1, <2>2, SkipsOn
  <1>5. \A l, c, p : Names(l, c, p)' <=> Names(l, c, p)
    BY SameText
  <1>6. \A h, i : (Text(h, i)' = Text(h, i)) /\ (Skippable(h, i)' <=> Skippable(h, i))
    BY SameText
  <1> QED
    BY <1>1, <1>3, <1>4, <1>5, <1>6 DEF Tiled

LEMMA Appended ==
  ASSUME NEW s, Listed(s), NEW t
  PROVE  /\ Listed(Append(s, t)) /\ Len(s) \in Nat /\ DOMAIN s = 1 .. Len(s)
         /\ Len(Append(s, t)) = Len(s) + 1 /\ DOMAIN Append(s, t) = 1 .. Len(s) + 1
         /\ Append(s, t)[Len(s) + 1] = t /\ \A i \in 1 .. Len(s) : Append(s, t)[i] = s[i]
  <1>1. PICK S : s \in Seq(S)
    BY DEF Listed
  <1> DEFINE R == S \cup {t}
  <1>2. s \in Seq(R) /\ t \in R
    BY <1>1
  <1> HIDE DEF R
  <1>3. Append(s, t) \in Seq(R)
    BY <1>2
  <1>4. /\ Len(s) \in Nat /\ DOMAIN s = 1 .. Len(s)
        /\ Len(Append(s, t)) = Len(s) + 1 /\ DOMAIN Append(s, t) = 1 .. Len(s) + 1
        /\ Append(s, t)[Len(s) + 1] = t /\ \A i \in 1 .. Len(s) : Append(s, t)[i] = s[i]
    BY <1>2
  <1> QED
    BY <1>3, <1>4 DEF Listed

(* A token of the text from the cursor up to j goes behind the others.     *)
LEMMA TokenTiles ==
  ASSUME src \in Texts, src' = src, pos \in 0 .. Len(src), Listed(out),
         Names(line, col, pos), NEW j \in pos .. Len(src), pos' = j,
         NEW t, t.line = line, t.col = col, t.lexeme = Text(pos, j), out' = Append(out, t),
         NEW b, NEW e, Tiled(b, e)
  PROVE  \E d, f : Tiled(d, f)'
  <1>0. PICK n, d, f : /\ n = Len(out)
                       /\ d = [i \in 1 .. n + 1 |-> IF i <= n THEN b[i] ELSE pos]
                       /\ f = [i \in 0 .. n + 1 |-> IF i <= n THEN e[i] ELSE j]
    BY Zenon
  <1>1. Len(src) \in Nat /\ n \in Nat /\ Len(out') = n + 1 /\ out'[n + 1] = t
        /\ \A i \in 1 .. n : out'[i] = out[i]
    <2>1. /\ Len(out) \in Nat /\ Len(Append(out, t)) = Len(out) + 1 /\ Append(out, t)[Len(out) + 1] = t
          /\ \A i \in 1 .. Len(out) : Append(out, t)[i] = out[i]
      BY Appended
    <2> QED
      BY <1>0, <2>1, TextProperties
  <1>2. /\ b \in [1 .. n -> 0 .. Len(src)] /\ e \in [0 .. n -> 0 .. Len(src)] /\ e[0] = 0
        /\ \A i \in 1 .. n :
             /\ Names(out[i].line, out[i].col, b[i]) /\ Text(b[i], e[i]) = out[i].lexeme
             /\ e[i] = b[i] + Len(out[i].lexeme) /\ Skippable(e[i - 1], b[i])
        /\ e[n] <= pos /\ Skippable(e[n], pos)
    BY <1>0, Zenon DEF Tiled
  <1>3. Len(Text(pos, j)) = j - pos
    BY TextProperties
  <1>4. /\ d \in [1 .. n + 1 -> 0 .. Len(src)] /\ f \in [0 .. n + 1 -> 0 .. Len(src)] /\ f[0] = 0
        /\ \A i \in 1 .. n : d[i] = b[i] /\ f[i] = e[i] /\ f[i - 1] = e[i - 1]
        /\ d[n + 1] = pos /\ f[n + 1] = j /\ f[n] = e[n]
    BY <1>0, <1>1, <1>2
  <1>5. ASSUME NEW i \in 1 .. n + 1
        PROVE  /\ Names(out'[i].line, out'[i].col, d[i]) /\ Text(d[i], f[i]) = out'[i].lexeme
               /\ f[i] = d[i] + Len(out'[i].lexeme) /\ Skippable(f[i - 1], d[i])
    <2>1. CASE i \in 1 .. n
      BY <1>1, <1>2, <1>4, <2>1
    <2>2. CASE i = n + 1
      <3>1. i - 1 = n /\ j = pos + Len(t.lexeme) /\ out'[i] = t
        BY <1>1, <1>3, <2>2
      <3> QED
        BY <1>2, <1>4, <2>2, <3>1
    <2> QED
      BY <1>1, <2>1, <2>2
  <1>6. Skippable(j, j)
    BY <1>1 DEF Skippable
  <1>7. \A l, c, p : Names(l, c, p)' <=> Names(l, c, p)
    BY SameText
  <1>8. \A h, i : (Text(h, i)' = Text(h, i)) /\ (Skippable(h, i)' <=> Skippable(h, i))
    BY SameText
  <1>9. Tiled(d, f)'
    <2>1. f[n + 1] <= pos' /\ Skippable(f[n + 1], j) /\ j = pos'
      BY <1>1, <1>4, <1>6
    <2> QED
      BY <1>1, <1>4, <1>5, <1>7, <1>8, <2>1 DEF Tiled
  <1> QED
    BY <1>9

-----------------------------------------------------------------------------
(* The diagnostics.                                                        *)
Bad(s) == { i \in DOMAIN s : s[i].kind = "<error>" }
Nth(s, i) == Cardinality({ k \in Bad(s) : k <= i })
ErrorsOf(errs, s) ==
  /\ Len(errs) = Cardinality(Bad(s))
  /\ \A i \in Bad(s) : errs[Nth(s, i)] = <<s[i].line, s[i].col>>

LEMMA BadProperties ==
  ASSUME NEW s, Listed(s), NEW t
  PROVE  LET n == Len(s)
             r == Append(s, t)
         IN  /\ Cardinality(Bad(s)) \in Nat
             /\ \A i \in Bad(s) : i \in 1 .. n /\ Nth(s, i) \in 1 .. Cardinality(Bad(s)) /\ Nth(r, i) = Nth(s, i)
             /\ t.kind # "<error>" => Bad(r) = Bad(s)
             /\ t.kind = "<error>" => /\ Bad(r) = Bad(s) \cup {n + 1}
                                      /\ Cardinality(Bad(r)) = Cardinality(Bad(s)) + 1
                                      /\ Nth(r, n + 1) = Cardinality(Bad(r))
  <1> DEFINE n == Len(s)
             r == Append(s, t)
  <1>1. /\ n \in Nat /\ DOMAIN s = 1 .. n /\ DOMAIN r = 1 .. n + 1
        /\ r[n + 1] = t /\ \A i \in 1 .. n : r[i] = s[i]
    <2>1. /\ Len(s) \in Nat /\ DOMAIN s = 1 .. Len(s)
          /\ Len(Append(s, t)) = Len(s) + 1 /\ DOMAIN Append(s, t) = 1 .. Len(s) + 1
          /\ Append(s, t)[Len(s) + 1] = t /\ \A i \in 1 .. Len(s) : Append(s, t)[i] = s[i]
      BY Appended
    <2> QED
      BY <2>1, Zenon
  <1> HIDE DEF n, r
  <1>2. /\ t.kind # "<error>" => Bad(r) = Bad(s)
        /\ t.kind = "<error>" => Bad(r) = Bad(s) \cup {n + 1}
        /\ Bad(s) \subseteq 1 .. n /\ n + 1 \notin Bad(s)
    <2>1. 1 .. n + 1 = (1 .. n) \cup {n + 1} /\ n + 1 \notin 1 .. n
      BY <1>1
    <2> QED
      BY <1>1, <2>1 DEF Bad
  <1>3. IsFiniteSet(Bad(s)) /\ Cardinality(Bad(s)) \in Nat
    <2>1. 1 \in Int /\ n \in Int
      BY <1>1
    <2>2. IsFiniteSet(1 .. n)
      BY <2>1, FS_Interval, Zenon
    <2> QED
      BY <1>2, <2>2, FS_Subset, FS_CardinalityType
  <1>4. ASSUME t.kind = "<error>"
        PROVE  Cardinality(Bad(r)) = Cardinality(Bad(s)) + 1 /\ Nth(r, n + 1) = Cardinality(Bad(r))
    <2>1. Cardinality(Bad(r)) = Cardinality(Bad(s)) + 1
      BY <1>2, <1>3, <1>4, FS_AddElement
    <2>2. { k \in Bad(r) : k <= n + 1 } = Bad(r)
      BY <1>1, <1>2, <1>4
    <2> QED
      BY <2>1, <2>2 DEF Nth
  <1>5. ASSUME NEW i \in Bad(s)
        PROVE  i \in 1 .. n /\ Nth(s, i) \in 1 .. Cardinality(Bad(s)) /\ Nth(r, i) = Nth(s, i)
    <2> DEFINE N == { k \in Bad(s) : k <= i }
    <2>1. i \in 1 .. n
      BY <1>2
    <2>2. { k \in Bad(r) : k <= i } = N
      BY <1>1, <1>2, <2>1
    <2>3. N \subseteq Bad(s) /\ i \in N
      BY <2>1
    <2> HIDE DEF N
    <2>4. IsFiniteSet(N) /\ Cardinality(N) <= Cardinality(Bad(s)) /\ Cardinality(N) \in Nat
      BY <1>3, <2>3, FS_Subset, FS_CardinalityType
    <2>5. Cardinality(N) # 0
      BY <2>3, <2>4, FS_EmptySet
    <2>6. Nth(s, i) = Cardinality(N) /\ Nth(r, i) = Cardinality(N)
      BY <2>2, Zenon DEF Nth, N
    <2> QED
      BY <1>3, <2>1, <2>4, <2>5, <2>6
  <1> QED
    BY <1>2, <1>3, <1>4, <1>5 DEF n, r

(* A token that is no error, and an error with its diagnostic.             *)
LEMMA GoodToken ==
  ASSUME NEW s, Listed(s), NEW errs, Listed(errs), ErrorsOf(errs, s), NEW t, t.kind # "<error>"
  PROVE  ErrorsOf(errs, Append(s, t))
  <1> DEFINE r == Append(s, t)
  <1>1. Bad(r) = Bad(s) /\ \A i \in Bad(s) : i \in 1 .. Len(s) /\ Nth(r, i) = Nth(s, i)
    BY BadProperties, Zenon
  <1>2. Len(s) \in Nat /\ r[Len(s) + 1] = t /\ \A i \in 1 .. Len(s) : r[i] = s[i]
    BY Appended
  <1> QED
    BY <1>1, <1>2 DEF ErrorsOf

LEMMA ErrorToken ==
  ASSUME NEW s, Listed(s), NEW errs, Listed(errs), ErrorsOf(errs, s), NEW t, t.kind = "<error>"
  PROVE  ErrorsOf(Append(errs, <<t.line, t.col>>), Append(s, t))
  <1> DEFINE n == Len(s)
             r == Append(s, t)
             here == <<t.line, t.col>>
             all == Append(errs, here)
             m == Cardinality(Bad(s))
  <1>1. /\ m \in Nat /\ Bad(r) = Bad(s) \cup {n + 1} /\ Cardinality(Bad(r)) = m + 1
        /\ Nth(r, n + 1) = Cardinality(Bad(r))
        /\ \A i \in Bad(s) : i \in 1 .. n /\ Nth(s, i) \in 1 .. m /\ Nth(r, i) = Nth(s, i)
    BY BadProperties, Zenon
  <1>2. r[n + 1] = t /\ \A i \in 1 .. n : r[i] = s[i]
    BY Appended
  <1>3. Len(all) = Len(errs) + 1 /\ all[Len(errs) + 1] = here /\ \A i \in 1 .. Len(errs) : all[i] = errs[i]
    BY Appended
  <1>4. Len(errs) = m /\ \A i \in Bad(s) : errs[Nth(s, i)] = <<s[i].line, s[i].col>>
    BY DEF ErrorsOf
  <1> HIDE DEF all, r, m, n
  <1>5. \A i \in Bad(r) : all[Nth(r, i)] = <<r[i].line, r[i].col>>
    BY <1>1, <1>2, <1>3, <1>4
  <1>6. Len(all) = Cardinality(Bad(r))
    BY <1>1, <1>3, <1>4
  <1> QED
    BY <1>5, <1>6 DEF ErrorsOf, all, r

-----------------------------------------------------------------------------
(* The inductive invariant: the cursor and every token stand where their   *)
(* line and column say, with the positions they begin and end at as        *)
(* witnesses, and the diagnostics so far are those of the tokens so far.   *)
LexerInv ==
  /\ src \in Texts /\ pos \in 0 .. Len(src)
  /\ Cursor /\ Listed(out) /\ \E b, e : Tiled(b, e)
  /\ Listed(errors) /\ ErrorsOf(errors, out)

LEMMA Skips ==
  ASSUME LexerInv, UNCHANGED <<src, out, errors>>, pos' \in pos .. Len(src), Cursor', Skippable(pos, pos')
  PROVE  LexerInv'
  <1>1. PICK b, e : Tiled(b, e)
    BY DEF LexerInv
  <1>2. Tiled(b, e)'
    BY <1>1, SkipTiles DEF LexerInv
  <1>3. src' \in Texts /\ pos' \in 0 .. Len(src')
    BY TextProperties DEF LexerInv
  <1>4. Listed(out)' /\ Listed(errors)' /\ ErrorsOf(errors, out)'
    BY Zenon DEF LexerInv
  <1> QED
    BY <1>2, <1>3, <1>4 DEF LexerInv

LEMMA Emits ==
  ASSUME LexerInv, src' = src, NEW j \in pos .. Len(src), \A k \in pos .. j - 1 : Char(k) # "\n", MoveTo(j),
         NEW kind, NEW val, Emit(kind, Text(pos, j), val),
         (kind # "<error>" /\ errors' = errors) \/ (kind = "<error>" /\ add_error)
  PROVE  LexerInv'
  <1>1. /\ src \in Texts /\ pos \in 0 .. Len(src) /\ Cursor /\ Listed(out) /\ Listed(errors)
        /\ ErrorsOf(errors, out)
    BY DEF LexerInv
  <1>2. PICK b, e : Tiled(b, e)
    BY DEF LexerInv
  <1>3. PICK t : t = Token(kind, Text(pos, j), line, col, val)
    OBVIOUS
  <1>4. out' = Append(out, t) /\ t.kind = kind /\ t.lexeme = Text(pos, j) /\ t.line = line /\ t.col = col
    BY <1>3 DEF Emit, Token
  <1>5. Cursor' /\ pos' \in 0 .. Len(src') /\ pos' = j /\ src' \in Texts
    BY <1>1, MovesOn DEF MoveTo
  <1>6. Names(line, col, pos)
    BY <1>1, CursorNames
  <1>7. \E d, f : Tiled(d, f)'
    BY <1>1, <1>2, <1>4, <1>5, <1>6, TokenTiles
  <1>8. Listed(out')
    BY <1>1, <1>4, Appended
  <1>9. Listed(errors') /\ ErrorsOf(errors', out')
    <2>1. CASE kind # "<error>" /\ errors' = errors
      BY <1>1, <1>4, <2>1, GoodToken
    <2>2. CASE kind = "<error>" /\ add_error
      <3>1. errors' = Append(errors, <<t.line, t.col>>)
        BY <1>4, <2>2 DEF add_error
      <3> QED
        BY <1>1, <1>4, <2>2, <3>1, Appended, ErrorToken
    <2> QED
      BY <2>1, <2>2
  <1> QED
    BY <1>5, <1>7, <1>8, <1>9 DEF LexerInv

-----------------------------------------------------------------------------
(* The steps.                                                              *)
LEMMA Starting == Init => LexerInv
  <1> SUFFICES ASSUME Init PROVE LexerInv
    OBVIOUS
  <1>1. src \in Texts /\ pos = 0 /\ line = 1 /\ col = 1 /\ out = <<>> /\ errors = <<>> /\ Len(src) \in Nat
    BY TextProperties DEF Init
  <1>2. Starts(1, 0)
    <2>1. { k \in 0 .. 0 - 1 : Char(k) = "\n" } = {}
      OBVIOUS
    <2>2. NewLines(0) = 0
      BY <2>1, FS_EmptySet DEF NewLines
    <2> QED
      BY <1>1, <2>2 DEF Starts
  <1>3. Cursor
    BY <1>1, <1>2 DEF Cursor
  <1>4. Listed(out) /\ Listed(errors) /\ Len(out) = 0 /\ DOMAIN out = {} /\ Len(errors) = 0
    BY <1>1 DEF Listed
  <1>5. Tiled([i \in 1 .. 0 |-> 0], [i \in 0 .. 0 |-> 0])
    <2>1. Skippable(0, 0)
      BY DEF Skippable
    <2> QED
      BY <1>1, <1>4, <2>1 DEF Tiled
  <1>6. ErrorsOf(errors, out)
    <2>1. Bad(out) = {}
      BY <1>4 DEF Bad
    <2> QED
      BY <1>4, <2>1, FS_EmptySet DEF ErrorsOf
  <1> QED
    BY <1>1, <1>3, <1>4, <1>5, <1>6 DEF LexerInv

LEMMA BlankKeeps ==
  ASSUME LexerInv, Blank
  PROVE  LexerInv'
  <1>1. /\ src \in Texts /\ pos \in 0 .. Len(src) /\ Cursor /\ Len(src) \in Nat
        /\ src' = src /\ out' = out /\ errors' = errors /\ pos < Len(src)
    BY TextProperties DEF LexerInv, Blank, More, at_end
  <1>2. peek(0) = Char(pos)
    BY <1>1 DEF peek
  <1>3. Char(pos) \in Blanks
    BY <1>2 DEF Blank
  <1>4. Cursor' /\ pos' = pos + 1
    <2>1. CASE Char(pos) = "\n"
      <3>1. pos' = pos + 1 /\ line' = line + 1 /\ col' = 1
        BY <1>2, <2>1 DEF Blank
      <3>2. pos \in 0 .. Len(src) - 1
        BY <1>1
      <3> QED
        BY <1>1, <2>1, <3>1, <3>2, NextLine
    <2>2. CASE Char(pos) # "\n"
      <3>1. MoveTo(pos + 1)
        BY <1>2, <2>2 DEF Blank
      <3>2. pos + 1 \in pos .. Len(src) /\ \A k \in pos .. (pos + 1) - 1 : Char(k) # "\n"
        BY <1>1, <2>2
      <3> QED
        BY <1>1, <3>1, <3>2, MovesOn DEF MoveTo
    <2> QED
      BY <2>1, <2>2
  <1>5. Skippable(pos, pos + 1)
    BY <1>1, <1>3 DEF Skippable
  <1>6. pos' \in pos .. Len(src) /\ Skippable(pos, pos')
    BY <1>1, <1>4, <1>5
  <1> QED
    BY <1>1, <1>4, <1>6, Skips

LEMMA CommentKeeps ==
  ASSUME LexerInv, Comment
  PROVE  LexerInv'
  <1>1. /\ src \in Texts /\ pos \in 0 .. Len(src) /\ Cursor /\ Len(src) \in Nat
        /\ src' = src /\ out' = out /\ errors' = errors
    BY TextProperties DEF LexerInv, Comment
  <1>2. PICK j : j = EndOfLine
    OBVIOUS
  <1>3. j \in pos .. Len(src) /\ \A k \in pos .. j - 1 : Char(k) # "\n"
    BY <1>1, <1>2, EndOfLineIs
  <1>4. MoveTo(j) /\ pos' = j
    BY <1>2 DEF Comment, MoveTo
  <1>5. Cursor'
    BY <1>1, <1>3, <1>4, MovesOn
  <1>6. Char(pos) = "/" /\ Char(pos + 1) = "/"
    BY <1>1 DEF Comment, CommentStarts, peek
  <1>7. Skippable(pos, j)
    BY <1>1, <1>3, <1>6 DEF Skippable
  <1> QED
    BY <1>1, <1>3, <1>4, <1>5, <1>7, Skips

LEMMA CharClasses ==
  /\ "\n" \notin Digits /\ "\n" \notin WordChars /\ "\n" \in Blanks
  /\ Nothing \notin Digits /\ Nothing \notin WordChars
  BY Zenon DEF Digits, WordChars, Letters, Blanks, Nothing

LEMMA KindsOfTokens ==
  /\ "Int" # "<error>" /\ "Ident" # "<error>" /\ "<eof>" # "<error>"
  /\ \A k \in Keywords \cup Symbols \cup Pairs : k # "<error>"
  BY Zenon DEF Keywords, Symbols, Pairs

LEMMA NumberKeeps ==
  ASSUME LexerInv, Number
  PROVE  LexerInv'
  <1>1. PICK j : j = EndOfRun(Digits)
    OBVIOUS
  <1>2. j \in pos .. Len(src) /\ \A k \in pos .. j - 1 : Char(k) # "\n"
    BY <1>1, EndOfRunIs, CharClasses DEF LexerInv
  <1>3. MoveTo(j) /\ src' = src
    BY <1>1 DEF Number
  <1>4. \/ Emit("Int", Text(pos, j), Decimal(Text(pos, j))) /\ errors' = errors
        \/ Emit("<error>", Text(pos, j), 0) /\ add_error
    BY <1>1, Zenon DEF Number, Good
  <1>5. CASE Emit("Int", Text(pos, j), Decimal(Text(pos, j))) /\ errors' = errors
    BY <1>2, <1>3, <1>5, KindsOfTokens, Emits
  <1>6. CASE Emit("<error>", Text(pos, j), 0) /\ add_error
    BY <1>2, <1>3, <1>6, Emits
  <1> QED
    BY <1>4, <1>5, <1>6

LEMMA WordKeeps ==
  ASSUME LexerInv, Word_
  PROVE  LexerInv'
  <1>1. PICK j : j = EndOfRun(WordChars)
    OBVIOUS
  <1>2. j \in pos .. Len(src) /\ \A k \in pos .. j - 1 : Char(k) # "\n"
    BY <1>1, EndOfRunIs, CharClasses DEF LexerInv
  <1>3. MoveTo(j) /\ src' = src /\ errors' = errors
    BY <1>1 DEF Word_, Good
  <1>4. PICK kind : kind = IF Text(pos, j) \in Keywords THEN Text(pos, j) ELSE "Ident"
    OBVIOUS
  <1>5. Emit(kind, Text(pos, j), 0)
    BY <1>1, <1>4, Zenon DEF Word_
  <1>6. kind # "<error>"
    BY <1>4, KindsOfTokens
  <1> QED
    BY <1>2, <1>3, <1>5, <1>6, Emits

LEMMA SymbolSizes ==
  /\ Pairs \subseteq Symbols
  /\ \A sym \in Pairs : Len(sym) = 2
  /\ \A sym \in Symbols \ Pairs : Len(sym) = 1
  <1>1. Pairs \subseteq Symbols
    BY Zenon DEF Pairs, Symbols
  <1> QED
    BY <1>1, TextsAssumption, Zenon

LEMMA SecondCharacter ==
  ASSUME src \in Texts, NEW i \in 0 .. Len(src) - 2, SubSeq(src, i + 1, i + 2) \in Pairs
  PROVE  SubSeq(src, i + 2, i + 2) # "\n"
  <1>1. \A s \in Texts : \A k \in 0 .. Len(s) - 2 :
          SubSeq(s, k + 1, k + 2) \in Pairs => SubSeq(s, k + 2, k + 2) # "\n"
    BY TextsAssumption, Zenon
  <1> QED
    BY <1>1, Zenon

LEMMA SymbolKeeps ==
  ASSUME LexerInv, Symbol
  PROVE  LexerInv'
  <1>1. More /\ peek(0) \notin Blanks /\ src' = src
    BY Zenon DEF Symbol
  <1>2. /\ src \in Texts /\ Len(src) \in Nat /\ pos \in 0 .. Len(src) - 1
        /\ Char(pos) = Text(pos, pos + 1)
    <2>1. /\ src \in Texts /\ Len(src) \in Nat /\ pos \in 0 .. Len(src) - 1
      BY <1>1, TextProperties DEF LexerInv, More, at_end
    <2> QED
      BY <2>1, TextProperties, Zenon
  <1>3. peek(0) = Char(pos) /\ src' = src
    BY <1>2, <1>1 DEF peek
  <1>4. Char(pos) # "\n" /\ pos + 1 \in pos .. Len(src)
    BY <1>2, <1>3, <1>1, CharClasses
  <1>5. PICK two : two = Text(pos, IF pos + 1 < Len(src) THEN pos + 2 ELSE pos + 1)
    OBVIOUS
  <1>6. \/ two \in Pairs /\ Emit(two, two, 0) /\ MoveTo(pos + 2) /\ errors' = errors
        \/ Char(pos) \in Symbols /\ Emit(Char(pos), Char(pos), 0) /\ MoveTo(pos + 1) /\ errors' = errors
        \/ Emit("<error>", Char(pos), 0) /\ MoveTo(pos + 1) /\ add_error
    BY <1>3, <1>5, Zenon DEF Symbol, Good
  <1>7. CASE two \in Pairs /\ Emit(two, two, 0) /\ MoveTo(pos + 2) /\ errors' = errors
    <2>1. Len(two) = 2
      BY <1>7, SymbolSizes, Zenon
    <2>2. pos + 1 < Len(src) /\ two = Text(pos, pos + 2)
      <3>1. pos \in 0 .. Len(src) /\ pos + 1 \in pos .. Len(src) /\ (pos + 1) - pos # 2
        BY <1>2
      <3>2. Len(Text(pos, pos + 1)) = (pos + 1) - pos
        BY <1>2, <3>1, TextProperties, Zenon
      <3>3. pos + 1 < Len(src)
        BY <1>5, <2>1, <3>1, <3>2, Zenon
      <3> QED
        BY <1>5, <3>3, Zenon
    <2>3. pos \in 0 .. Len(src) - 2 /\ pos + 2 \in pos .. Len(src) /\ pos + 1 \in 0 .. Len(src) - 1
      BY <1>2, <2>2
    <2>4. SubSeq(src, pos + 1, pos + 2) = two
      BY <2>2, Zenon DEF Text
    <2>5. SubSeq(src, pos + 2, pos + 2) # "\n"
      BY <1>2, <1>7, <2>3, <2>4, SecondCharacter, Zenon
    <2>6. Char(pos + 1) = Text(pos + 1, (pos + 1) + 1)
      BY <1>2, <2>3, TextProperties
    <2>7. Char(pos + 1) # "\n"
      <3>1. (pos + 1) + 1 = pos + 2
        BY <1>2
      <3>2. Text(pos + 1, pos + 2) = SubSeq(src, pos + 2, pos + 2)
        BY <3>1, Zenon DEF Text
      <3> QED
        BY <2>5, <2>6, <3>1, <3>2, Zenon
    <2>8. \A k \in pos .. (pos + 2) - 1 : Char(k) # "\n"
      <3> TAKE k \in pos .. (pos + 2) - 1
      <3>1. k = pos \/ k = pos + 1
        BY <1>2
      <3> QED
        BY <1>4, <2>7, <3>1
    <2>9. two # "<error>"
      BY <1>7, KindsOfTokens
    <2> QED
      BY <1>3, <1>7, <2>2, <2>3, <2>8, <2>9, Emits
  <1>8. \A k \in pos .. (pos + 1) - 1 : Char(k) # "\n"
    BY <1>2, <1>4
  <1>9. CASE Char(pos) \in Symbols /\ Emit(Char(pos), Char(pos), 0) /\ MoveTo(pos + 1) /\ errors' = errors
    <2>1. Char(pos) # "<error>"
      BY <1>9, KindsOfTokens
    <2>2. Emit(Char(pos), Text(pos, pos + 1), 0)
      BY <1>2, <1>9
    <2> QED
      BY <1>3, <1>4, <1>8, <1>9, <2>1, <2>2, Emits
  <1>10. CASE Emit("<error>", Char(pos), 0) /\ MoveTo(pos + 1) /\ add_error
    <2>1. Emit("<error>", Text(pos, pos + 1), 0)
      BY <1>2, <1>10
    <2> QED
      BY <1>3, <1>4, <1>8, <1>10, <2>1, Emits
  <1> QED
    BY <1>6, <1>7, <1>9, <1>10

LEMMA EndOfTextKeeps ==
  ASSUME LexerInv, EndOfText
  PROVE  LexerInv'
  <1>1. src \in Texts /\ Len(src) \in Nat /\ pos \in 0 .. Len(src) /\ col \in Int
    BY TextProperties DEF LexerInv, Cursor
  <1>2. Text(pos, pos) = Nothing /\ pos \in pos .. Len(src) /\ pos .. pos - 1 = {}
    BY <1>1, TextProperties
  <1>3. src' = src /\ errors' = errors /\ MoveTo(pos)
    <2>1. src' = src /\ errors' = errors /\ pos' = pos /\ line' = line /\ col' = col
      BY Zenon DEF EndOfText
    <2> QED
      BY <1>1, <2>1 DEF MoveTo
  <1>4. Emit("<eof>", Text(pos, pos), 0)
    BY <1>2, Zenon DEF EndOfText, Nothing
  <1> QED
    BY <1>2, <1>3, <1>4, KindsOfTokens, Emits

LEMMA StepsKeep ==
  ASSUME LexerInv, [Next]_vars
  PROVE  LexerInv'
  <1>1. CASE UNCHANGED vars
    <2>1. UNCHANGED <<src, pos, line, col, out, errors>>
      BY <1>1 DEF vars
    <2>2. pos' \in pos .. Len(src) /\ Skippable(pos, pos') /\ Cursor'
      <3>1. pos' = pos /\ pos \in Nat /\ pos <= Len(src) /\ Len(src) \in Nat /\ pos .. pos - 1 = {}
        BY <2>1, TextProperties DEF LexerInv
      <3>2. Skippable(pos, pos')
        BY <3>1 DEF Skippable
      <3>3. MoveTo(pos)
        BY <2>1, <3>1 DEF MoveTo, LexerInv, Cursor
      <3> QED
        BY <2>1, <3>1, <3>2, <3>3, MovesOn DEF LexerInv
    <2> QED
      BY <2>1, <2>2, Skips
  <1> QED
    BY <1>1, BlankKeeps, CommentKeeps, NumberKeeps, WordKeeps, SymbolKeeps, EndOfTextKeeps DEF Next

LEMMA AlwaysLexerInv == Spec => []LexerInv
  <1>1. LexerInv /\ [Next]_vars => LexerInv'
    BY StepsKeep
  <1> QED
    BY <1>1, Starting, PTL DEF Spec

-----------------------------------------------------------------------------
(* On every text: the line and column of the cursor and of each token are  *)
(* where it stands, its lexeme is the text there, and only blanks and      *)
(* comments are skipped (Lexer::tokenize, advance, add_error).             *)
THEOREM TokensAlwaysTile == Spec => []TokensTileTheText
  <1>1. ASSUME LexerInv
        PROVE  TokensTileTheText
    <2>1. /\ src \in Texts /\ pos \in 0 .. Len(src) /\ Cursor /\ Listed(out) /\ Len(src) \in Nat
      BY <1>1, TextProperties DEF LexerInv
    <2>2. PICK b, e : Tiled(b, e)
      BY <1>1 DEF LexerInv
    <2>3. Offset(line, col) = pos
      BY <2>1, CursorNames
    <2>4. Len(out) \in Nat /\ DOMAIN out = 1 .. Len(out) /\ (out = <<>> <=> Len(out) = 0)
      BY <2>1, EmptySeq DEF Listed
    <2>5. ASSUME NEW i \in 1 .. Len(out)
          PROVE  From(out[i]) = b[i] /\ To(out[i]) = e[i]
      <3>1. Names(out[i].line, out[i].col, b[i]) /\ e[i] = b[i] + Len(out[i].lexeme)
        BY <2>2 DEF Tiled
      <3>2. Offset(out[i].line, out[i].col) = b[i]
        BY <2>1, <3>1, NamesOffset
      <3> QED
        BY <3>1, <3>2 DEF From, To
    <2>6. ASSUME NEW i \in DOMAIN out
          PROVE  /\ Text(From(out[i]), To(out[i])) = out[i].lexeme
                 /\ Skippable(IF i = 1 THEN 0 ELSE To(out[i - 1]), From(out[i]))
      <3>1. i \in 1 .. Len(out) /\ Text(b[i], e[i]) = out[i].lexeme /\ Skippable(e[i - 1], b[i]) /\ e[0] = 0
        BY <2>2, <2>4 DEF Tiled
      <3>2. (IF i = 1 THEN 0 ELSE To(out[i - 1])) = e[i - 1]
        <4>1. CASE i = 1
          BY <3>1, <4>1
        <4>2. CASE i # 1
          <5>1. i - 1 \in 1 .. Len(out)
            BY <2>4, <3>1, <4>2
          <5> QED
            BY <2>5, <4>2, <5>1
        <4> QED
          BY <4>1, <4>2
      <3> QED
        BY <2>5, <3>1, <3>2
    <2>7. Skippable(IF out = <<>> THEN 0 ELSE To(Last(out)), pos)
      <3>1. Skippable(e[Len(out)], pos) /\ e[0] = 0
        BY <2>2 DEF Tiled
      <3>2. out # <<>> => To(Last(out)) = e[Len(out)]
        BY <2>4, <2>5 DEF Last
      <3>3. CASE out = <<>>
        BY <2>4, <3>1, <3>3
      <3>4. CASE out # <<>>
        BY <3>1, <3>2, <3>4
      <3> QED
        BY <3>3, <3>4
    <2> QED
      BY <2>1, <2>3, <2>6, <2>7 DEF TokensTileTheText
  <1> QED
    BY <1>1, AlwaysLexerInv, PTL

(* On every text: as many diagnostics as Error tokens, the n-th one at the *)
(* place of the n-th token ("collected in errors() and also emitted as     *)
(* Tok::Error tokens", lexer.h).                                           *)
THEOREM ErrorsAreAlwaysTokens == Spec => []ErrorsAreErrorTokens
  <1>1. LexerInv => ErrorsAreErrorTokens
    BY Zenon DEF LexerInv, ErrorsOf, Bad, Nth, ErrorsAreErrorTokens
  <1> QED
    BY <1>1, AlwaysLexerInv, PTL
-----------------------------------------------------------------------------
(* What a token says, for a token of the text from i up to j.              *)
Says(t, i, j) ==
  /\ IF t.kind = "<error>"
     THEN \/ IsNumber(i, j) /\ Decimal(Text(i, j)) > MaxInt
          \/ j = i + 1 /\ \A k \in i + 1 .. Len(src) : ~IsLexeme(i, k)
     ELSE IsLexeme(i, j) /\ ~(Char(i) = "/" /\ Char(i + 1) = "/")
  /\ \A k \in j + 1 .. Len(src) : ~IsLexeme(i, k)
  /\ t.kind = "Int" <=> IsNumber(i, j) /\ t.kind # "<error>"
  /\ t.kind = "Int" => t.int_val = Decimal(Text(i, j)) /\ t.int_val \in Word
  /\ t.kind = "Ident" <=> IsWord(i, j) /\ t.lexeme \notin Keywords
  /\ t.kind \in Keywords \cup Symbols => t.lexeme = t.kind

LEMMA Classes ==
  /\ \A c \in Digits : c \in WordChars
  /\ \A c \in Letters \cup {"_"} : c \in WordChars /\ c \notin Digits
  /\ \A c \in WordChars : c \in Digits \/ c \in Letters \cup {"_"}
  /\ "/" \notin WordChars
  <1>1. \A c \in Letters \cup {"_"} : c \notin Digits
    <2>1. \A c \in Letters : c \notin Digits
      BY SMTT(30) DEF Digits, Letters
    <2>2. "_" \notin Digits
      BY Zenon DEF Digits
    <2> QED
      BY <2>1, <2>2, Zenon
  <1>2. "/" \notin WordChars
    BY ZenonT(60) DEF Digits, Letters, WordChars
  <1>3. WordChars = Letters \cup Digits \cup {"_"}
    BY DEF WordChars
  <1> QED
    BY <1>1, <1>2, <1>3, Zenon

LEMMA KindsApart ==
  /\ "Int" # "Ident" /\ "Int" # "<error>" /\ "Ident" # "<error>"
  /\ "Int" \notin Keywords \cup Symbols /\ "Ident" \notin Keywords \cup Symbols
  /\ "<error>" \notin Keywords \cup Symbols
  BY Zenon DEF Keywords, Symbols

(* Symbols have one or two characters, the first of which is in no word.   *)
LEMMA SymbolsThere ==
  ASSUME src \in Texts, NEW i \in 0 .. Len(src) - 1, NEW k \in i + 1 .. Len(src), Text(i, k) \in Symbols
  PROVE  Char(i) \notin WordChars /\ (k = i + 1 \/ (k = i + 2 /\ Text(i, k) \in Pairs))
  <1>1. Char(i) \notin WordChars
    <2>1. \A s \in Texts : \A m \in 0 .. Len(s) - 1 : \A j \in m + 1 .. Len(s) :
            SubSeq(s, m + 1, j) \in Symbols => SubSeq(s, m + 1, m + 1) \notin WordChars
      BY TextsAssumption, Zenon
    <2>2. SubSeq(src, i + 1, i + 1) \notin WordChars
      BY <2>1, Zenon DEF Text
    <2>3. Char(i) = Text(i, i + 1)
      BY TextProperties, Zenon
    <2> QED
      BY <2>2, <2>3, Zenon DEF Text
  <1>2. PICK n : n = Len(Text(i, k))
    OBVIOUS
  <1>3. n = k - i
    <2>1. i \in 0 .. Len(src) /\ k \in i .. Len(src)
      BY TextProperties
    <2> QED
      BY <1>2, <2>1, TextProperties, Zenon
  <1>4. (n = 2 /\ Text(i, k) \in Pairs) \/ n = 1
    BY <1>2, SymbolSizes, Zenon
  <1>5. i \in Int /\ k \in Int
    BY TextProperties
  <1> QED
    BY <1>1, <1>3, <1>4, <1>5

(* Induction up to a bound, for a set in place of a predicate.             *)
LEMMA UpTo ==
  ASSUME NEW N \in Nat, NEW T, 0 \in T, \A n \in 0 .. N - 1 : n \in T => n + 1 \in T
  PROVE  \A n \in 0 .. N : n \in T
  <1> DEFINE Rest == { n \in 0 .. N : n \notin T }
  <1> SUFFICES ASSUME Rest # {} PROVE FALSE
    OBVIOUS
  <1>1. Rest \in SUBSET Nat
    OBVIOUS
  <1>2. PICK m \in Rest : \A n \in Rest : <<n, m>> \notin OpToRel(<, Nat)
    <2> HIDE DEF Rest
    <2> QED
      BY <1>1, WFMin, NatLessThanWellFounded, Zenon
  <1>3. m \in Nat /\ m # 0 /\ m - 1 \in 0 .. N - 1 /\ (m - 1) + 1 = m /\ m \notin T
    <2>1. m \in 0 .. N /\ m \notin T
      BY <1>2, Zenon
    <2>2. m # 0
      BY <2>1
    <2> QED
      BY <2>1, <2>2
  <1>4. m - 1 \in Rest
    BY <1>3
  <1>5. <<m - 1, m>> \in OpToRel(<, Nat)
    BY <1>3 DEF OpToRel
  <1> QED
    BY <1>2, <1>4, <1>5, Zenon

(* The recursive function Read is what its definition says.                *)
LEMMA ReadDef ==
  ASSUME NEW num, Len(num) \in Nat
  PROVE  /\ Read(num)[0] = 0
         /\ \A n \in 1 .. Len(num) :
              Read(num)[n] = 10 * Read(num)[n - 1] + DigitValue(SubSeq(num, n, n))
  <1> DEFINE Digit(n) == DigitValue(SubSeq(num, n, n))
             Unfolds(g, m) == g = [n \in 0 .. m |-> IF n = 0 THEN 0 ELSE 10 * g[n - 1] + Digit(n)]
             N == Len(num)
             T == { m \in Nat : \E g : Unfolds(g, m) }
  <1> HIDE DEF Digit
  <1>1. 0 \in T
    <2>1. Unfolds([n \in 0 .. 0 |-> 0], 0)
      OBVIOUS
    <2> QED
      BY <2>1
  <1>2. ASSUME NEW m \in 0 .. N - 1, m \in T
        PROVE  m + 1 \in T
    <2>1. PICK g : Unfolds(g, m)
      BY <1>2
    <2> DEFINE h == [n \in 0 .. m + 1 |-> IF n <= m THEN g[n] ELSE 10 * g[m] + Digit(m + 1)]
    <2>2. \A n \in 0 .. m : h[n] = g[n]
      OBVIOUS
    <2>3. h[m + 1] = 10 * h[m] + Digit(m + 1)
      OBVIOUS
    <2>4. \A n \in 0 .. m : g[n] = IF n = 0 THEN 0 ELSE 10 * g[n - 1] + Digit(n)
      BY <2>1
    <2>5. \A n \in 0 .. m + 1 : h[n] = IF n = 0 THEN 0 ELSE 10 * h[n - 1] + Digit(n)
      <3> HIDE DEF h
      <3> TAKE n \in 0 .. m + 1
      <3>1. CASE n = m + 1
        BY <3>1, <2>3
      <3>2. CASE n \in 1 .. m
        <4>1. n - 1 \in 0 .. m
          BY <3>2
        <4> QED
          BY <3>2, <4>1, <2>2, <2>4
      <3>3. CASE n = 0
        BY <3>3, <2>2, <2>4
      <3> QED
        BY <3>1, <3>2, <3>3
    <2>6. Unfolds(h, m + 1) /\ m + 1 \in Nat
      BY <2>5
    <2> HIDE DEF h, Unfolds
    <2> QED
      BY <2>6
  <1>3. \E g : Unfolds(g, N)
    <2> HIDE DEF Unfolds
    <2>1. \A n \in 0 .. N : n \in T
      <3> HIDE DEF T
      <3> QED
        BY <1>1, <1>2, UpTo
    <2> QED
      BY <2>1
  <1>4. Read(num) = CHOOSE g : Unfolds(g, N)
    BY DEF Read, Digit
  <1>5. Unfolds(Read(num), N)
    <2> HIDE DEF Unfolds
    <2> QED
      BY <1>3, <1>4
  <1>6. Read(num)[0] = 0 /\ \A n \in 1 .. N : Read(num)[n] = 10 * Read(num)[n - 1] + Digit(n)
    <2> DEFINE v == Read(num)
    <2> HIDE DEF v, N
    <2>1. v = [n \in 0 .. N |-> IF n = 0 THEN 0 ELSE 10 * v[n - 1] + Digit(n)]
      BY <1>5 DEF v
    <2>2. N \in Nat
      BY DEF N
    <2>3. v[0] = 0 /\ \A n \in 1 .. N : v[n] = 10 * v[n - 1] + Digit(n)
      BY <2>1, <2>2
    <2> QED
      BY <2>3 DEF v
  <1> QED
    BY <1>6, Zenon DEF Digit

(* A string of digits says a number.                                       *)
LEMMA NumbersSay ==
  ASSUME LexerInv, NEW j \in pos .. Len(src), IsNumber(pos, j)
  PROVE  Decimal(Text(pos, j)) \in Nat
  <1> DEFINE num == Text(pos, j)
             N == Len(num)
             v == Read(num)
             Digit(n) == DigitValue(SubSeq(num, n, n))
             T == { n \in 0 .. N : v[n] \in Nat }
  <1>1. src \in Texts /\ Len(src) \in Nat /\ pos \in 0 .. Len(src) /\ N = j - pos /\ N \in Nat
    <2>1. src \in Texts /\ Len(src) \in Nat /\ pos \in 0 .. Len(src)
      BY TextProperties DEF LexerInv
    <2>2. N = j - pos
      BY <2>1, TextProperties, Zenon
    <2> QED
      BY <2>1, <2>2
  <1>2. ASSUME NEW n \in 1 .. N
        PROVE  Digit(n) \in 0 .. 9
    <2>1. SubSeq(num, n, n) = SubSeq(src, pos + n, pos + n)
      <3>1. \A s \in Texts : \A i \in 0 .. Len(s) : \A m \in i .. Len(s) : \A k \in 1 .. m - i :
              SubSeq(SubSeq(s, i + 1, m), k, k) = SubSeq(s, i + k, i + k)
        BY TextsAssumption, Zenon
      <3>2. n \in 1 .. j - pos
        BY <1>1
      <3> QED
        BY <1>1, <3>1, <3>2, Zenon DEF Text
    <2>2. SubSeq(src, pos + n, pos + n) \in Digits
      <3>1. pos + n - 1 \in pos .. j - 1 /\ pos + n - 1 \in 0 .. Len(src) - 1 /\ (pos + n - 1) + 1 = pos + n
        BY <1>1
      <3>2. Char(pos + n - 1) \in Digits
        BY <3>1 DEF IsNumber
      <3>3. Char(pos + n - 1) = Text(pos + n - 1, (pos + n - 1) + 1)
        BY <1>1, <3>1, TextProperties, Zenon
      <3>4. Text(pos + n - 1, (pos + n - 1) + 1) = SubSeq(src, pos + n, pos + n)
        BY <3>1, Zenon DEF Text
      <3> QED
        BY <3>2, <3>3, <3>4, Zenon
    <2>3. \E d \in 0 .. 9 : SubSeq("0123456789", d + 1, d + 1) = SubSeq(num, n, n)
      BY <2>1, <2>2, TextsAssumption, Zenon
    <2> QED
      BY <2>3, Zenon DEF DigitValue
  <1>3. v[0] = 0 /\ \A n \in 1 .. N : v[n] = 10 * v[n - 1] + Digit(n)
    <2>1. Len(num) \in Nat
      BY <1>1
    <2> HIDE DEF num
    <2>2. /\ Read(num)[0] = 0
          /\ \A n \in 1 .. Len(num) : Read(num)[n] = 10 * Read(num)[n - 1] + Digit(n)
      BY <2>1, ReadDef, Zenon
    <2> QED
      BY <2>2, Zenon
  <1> HIDE DEF v, N, Digit
  <1>4. 0 \in T
    BY <1>1, <1>3
  <1>5. ASSUME NEW n \in 0 .. N - 1, n \in T
        PROVE  n + 1 \in T
    <2>1. n + 1 \in 1 .. N /\ (n + 1) - 1 = n /\ n + 1 \in 0 .. N
      BY <1>1
    <2>2. v[n + 1] = 10 * v[n] + Digit(n + 1) /\ Digit(n + 1) \in 0 .. 9
      BY <1>2, <1>3, <2>1
    <2>3. v[n] \in Nat
      BY <1>5
    <2>4. v[n + 1] \in Nat
      <3>1. \A x, d \in Nat : 10 * x + d \in Nat
        OBVIOUS
      <3>2. Digit(n + 1) \in Nat
        BY <2>2
      <3> QED
        BY <2>2, <2>3, <3>1, <3>2, Zenon
    <2> QED
      BY <2>1, <2>4
  <1>6. \A n \in 0 .. N : n \in T
    <2> HIDE DEF T
    <2> QED
      BY <1>1, <1>4, <1>5, UpTo
  <1>7. v[N] \in Nat
    BY <1>1, <1>6
  <1> QED
    BY <1>7, Zenon DEF Decimal, v, N

LEMMA NumberSays ==
  ASSUME LexerInv, pos < Len(src), Char(pos) \in Digits, NEW j, j = EndOfRun(Digits),
         NEW t, t.lexeme = Text(pos, j),
         \/ Decimal(Text(pos, j)) <= MaxInt /\ t.kind = "Int" /\ t.int_val = Decimal(Text(pos, j))
         \/ ~(Decimal(Text(pos, j)) <= MaxInt) /\ t.kind = "<error>"
  PROVE  Says(t, pos, j)
  <1>1. src \in Texts /\ Len(src) \in Nat /\ pos \in 0 .. Len(src) - 1
    BY TextProperties DEF LexerInv
  <1>2. j \in pos .. Len(src) /\ Char(j) \notin Digits /\ \A i \in pos .. j - 1 : Char(i) \in Digits
    <2>1. pos \in 0 .. Len(src) /\ Nothing \notin Digits
      BY <1>1, CharClasses
    <2> QED
      BY <1>1, <2>1, EndOfRunIs
  <1>3. IsNumber(pos, j)
    BY <1>1, <1>2 DEF IsNumber
  <1>4. Char(pos) \in WordChars /\ Char(pos) # "/" /\ \A k : ~IsWord(pos, k)
    BY Classes DEF IsWord
  <1>5. ASSUME NEW k \in j + 1 .. Len(src)
        PROVE  ~IsLexeme(pos, k)
    <2>1. ~IsNumber(pos, k)
      <3>1. j \in pos .. k - 1
        BY <1>1, <1>2
      <3> QED
        BY <1>2, <3>1 DEF IsNumber
    <2>2. Text(pos, k) \notin Symbols
      <3>1. k \in pos + 1 .. Len(src)
        BY <1>1, <1>2
      <3> QED
        BY <1>1, <1>4, <3>1, SymbolsThere
    <2> QED
      BY <1>4, <2>1, <2>2, Zenon DEF IsLexeme
  <1>6. Decimal(Text(pos, j)) \in Nat
    BY <1>2, <1>3, NumbersSay, Zenon
  <1>7. CASE Decimal(Text(pos, j)) <= MaxInt /\ t.kind = "Int" /\ t.int_val = Decimal(Text(pos, j))
    <2>1. t.int_val \in Word
      BY <1>6, <1>7, MaxIntAssumption DEF Word, MinInt
    <2>2. IsLexeme(pos, j)
      BY <1>3 DEF IsLexeme
    <2> QED
      BY <1>3, <1>4, <1>5, <1>7, <2>1, <2>2, KindsApart, Zenon DEF Says
  <1>8. CASE ~(Decimal(Text(pos, j)) <= MaxInt) /\ t.kind = "<error>"
    <2>1. Decimal(Text(pos, j)) > MaxInt
      BY <1>6, <1>8, MaxIntAssumption
    <2> QED
      BY <1>3, <1>4, <1>5, <1>8, <2>1, KindsApart, Zenon DEF Says
  <1> QED
    BY <1>7, <1>8

LEMMA WordSays ==
  ASSUME LexerInv, pos < Len(src), Char(pos) \in WordChars \ Digits, NEW j, j = EndOfRun(WordChars),
         NEW t, t.lexeme = Text(pos, j),
         t.kind = IF t.lexeme \in Keywords THEN t.lexeme ELSE "Ident"
  PROVE  Says(t, pos, j)
  <1>1. src \in Texts /\ Len(src) \in Nat /\ pos \in 0 .. Len(src) - 1
    BY TextProperties DEF LexerInv
  <1>2. j \in pos .. Len(src) /\ Char(j) \notin WordChars /\ \A i \in pos .. j - 1 : Char(i) \in WordChars
    <2>1. pos \in 0 .. Len(src) /\ Nothing \notin WordChars
      BY <1>1, CharClasses
    <2> QED
      BY <1>1, <2>1, EndOfRunIs
  <1>3. Char(pos) \in WordChars /\ Char(pos) \notin Digits /\ Char(pos) # "/"
    BY Classes
  <1>4. IsWord(pos, j)
    <2>1. pos < j
      BY <1>1, <1>2, <1>3
    <2> QED
      BY <1>2, <1>3, <2>1 DEF IsWord
  <1>5. \A k \in Nat : ~IsNumber(pos, k)
    <2>1. \A k \in Nat : pos < k => pos \in pos .. k - 1
      BY <1>1
    <2> QED
      BY <1>3, <2>1 DEF IsNumber
  <1>6. ASSUME NEW k \in j + 1 .. Len(src)
        PROVE  ~IsLexeme(pos, k)
    <2>1. ~IsWord(pos, k)
      <3>1. j \in pos .. k - 1
        BY <1>1, <1>2
      <3> QED
        BY <1>2, <3>1 DEF IsWord
    <2>2. Text(pos, k) \notin Symbols
      <3>1. k \in pos + 1 .. Len(src)
        BY <1>1, <1>2
      <3> QED
        BY <1>1, <1>3, <3>1, SymbolsThere
    <2>3. k \in Nat
      BY <1>1, <1>2
    <2> QED
      BY <1>5, <2>1, <2>2, <2>3, Zenon DEF IsLexeme
  <1>7. IsLexeme(pos, j)
    BY <1>4 DEF IsLexeme
  <1>8. /\ t.kind # "<error>" /\ t.kind # "Int" /\ (t.kind = "Ident" <=> t.lexeme \notin Keywords)
        /\ t.kind \in Keywords \cup Symbols => t.lexeme = t.kind
    BY KindsApart, Zenon
  <1>9. j \in Nat
    BY <1>1, <1>2
  <1> QED
    BY <1>9, <1>3, <1>4, <1>5, <1>6, <1>7, <1>8, Zenon DEF Says

LEMMA SymbolSays ==
  ASSUME LexerInv, pos < Len(src), Char(pos) \notin WordChars, ~(Char(pos) = "/" /\ Char(pos + 1) = "/"),
         NEW two, two = Text(pos, IF pos + 1 < Len(src) THEN pos + 2 ELSE pos + 1),
         NEW t, NEW j \in pos + 1 .. Len(src), t.lexeme = Text(pos, j),
         \/ j = pos + 2 /\ t.kind = t.lexeme /\ t.kind \in Pairs
         \/ j = pos + 1 /\ two \notin Pairs /\ t.kind = t.lexeme /\ t.kind \in Symbols
         \/ j = pos + 1 /\ two \notin Pairs /\ t.lexeme \notin Symbols /\ t.kind = "<error>"
  PROVE  Says(t, pos, j)
  <1>1. src \in Texts /\ Len(src) \in Nat /\ pos \in 0 .. Len(src) - 1
    BY TextProperties DEF LexerInv
  <1>2. \A k \in Nat : ~IsNumber(pos, k) /\ ~IsWord(pos, k)
    <2>1. \A k \in Nat : pos < k => pos \in pos .. k - 1
      BY <1>1
    <2>2. Char(pos) \notin Digits
      BY Classes
    <2> QED
      BY <2>1, <2>2, Zenon DEF IsNumber, IsWord
  <1>6. j \in Nat
    BY <1>1
  <1>3. ASSUME NEW k \in j + 1 .. Len(src)
        PROVE  ~IsLexeme(pos, k)
    <2>1. k \in pos + 1 .. Len(src) /\ k # pos + 1 /\ k \in Nat
      BY <1>1
    <2>2. CASE Text(pos, k) \in Symbols
      <3>1. k = pos + 2 /\ Text(pos, k) \in Pairs
        BY <1>1, <2>1, <2>2, SymbolsThere, Zenon
      <3>2. j = pos + 1 /\ pos + 1 < Len(src)
        BY <1>1, <3>1
      <3>3. j # pos + 2
        BY <1>1, <3>2
      <3>4. two = Text(pos, k) /\ two \notin Pairs
        BY <3>1, <3>2, <3>3, Zenon
      <3> QED
        BY <3>1, <3>4
    <2> QED
      BY <1>2, <2>1, <2>2, Zenon DEF IsLexeme
  <1>4. CASE t.kind = t.lexeme /\ t.kind \in Symbols
    <2>1. IsLexeme(pos, j)
      BY <1>4, Zenon DEF IsLexeme
    <2> QED
      BY <1>2, <1>3, <1>4, <1>6, <2>1, KindsApart, Zenon DEF Says
  <1>5. CASE j = pos + 1 /\ t.lexeme \notin Symbols /\ t.kind = "<error>"
    <2>1. ASSUME NEW k \in pos + 1 .. Len(src)
          PROVE  ~IsLexeme(pos, k)
      <3>1. CASE k = j
        BY <1>2, <1>5, <1>6, <3>1, Zenon DEF IsLexeme
      <3>2. CASE k # j
        <4>1. k \in j + 1 .. Len(src)
          BY <1>1, <1>5, <3>2
        <4> QED
          BY <1>3, <4>1
      <3> QED
        BY <3>1, <3>2
    <2> QED
      BY <1>2, <1>3, <1>5, <1>6, <2>1, KindsApart, Zenon DEF Says
  <1> QED
    BY <1>4, <1>5, SymbolSizes, Zenon
-----------------------------------------------------------------------------
(* Every token says what its text says, but for an Eof at the end.         *)
TokensSay ==
  \A k \in 1 .. Len(out) :
    \/ \E i : Names(out[k].line, out[k].col, i) /\ Says(out[k], i, i + Len(out[k].lexeme))
    \/ k = Len(out) /\ out[k].kind = "<eof>"

LEMMA SaysStays ==
  ASSUME src' = src
  PROVE  \A t, i, j : Says(t, i, j)' <=> Says(t, i, j)
  <1>1. /\ \A i : Char(i)' = Char(i)
        /\ \A i, j : Text(i, j)' = Text(i, j)
    BY SameText
  <1>2. \A i, j : (IsNumber(i, j)' <=> IsNumber(i, j)) /\ (IsWord(i, j)' <=> IsWord(i, j))
    BY <1>1, Zenon DEF IsNumber, IsWord
  <1>3. \A i, j : IsLexeme(i, j)' <=> IsLexeme(i, j)
    BY <1>1, <1>2, Zenon DEF IsLexeme
  <1>4. Len(src') = Len(src)
    OBVIOUS
  <1>5. ASSUME NEW t, NEW i, NEW j
        PROVE  Says(t, i, j)' <=> Says(t, i, j)
    <2>1. /\ Text(i, j)' = Text(i, j)
          /\ (IsLexeme(i, j) /\ ~(Char(i) = "/" /\ Char(i + 1) = "/"))'
               <=> IsLexeme(i, j) /\ ~(Char(i) = "/" /\ Char(i + 1) = "/")
      BY <1>1, <1>3, Zenon
    <2>2. IsNumber(i, j)' <=> IsNumber(i, j)
      BY <1>2
    <2>3. IsWord(i, j)' <=> IsWord(i, j)
      BY <1>2
    <2>4. (\A k \in j + 1 .. Len(src) : ~IsLexeme(i, k))' <=> \A k \in j + 1 .. Len(src) : ~IsLexeme(i, k)
      BY <1>3, <1>4, Zenon
    <2>5. (\A k \in i + 1 .. Len(src) : ~IsLexeme(i, k))' <=> \A k \in i + 1 .. Len(src) : ~IsLexeme(i, k)
      BY <1>3, <1>4, Zenon
    <2> QED
      BY <2>1, <2>2, <2>3, <2>4, <2>5, ZenonT(60) DEF Says
  <1> QED
    BY <1>5

LEMMA SameTokens ==
  ASSUME TokensSay, src' = src, out' = out
  PROVE  TokensSay'
  <1>1. \A t, i, j : Says(t, i, j)' <=> Says(t, i, j)
    BY SaysStays
  <1>2. \A l, c, p : Names(l, c, p)' <=> Names(l, c, p)
    BY SameText
  <1> QED
    BY <1>1, <1>2, Zenon DEF TokensSay

LEMMA AddsToken ==
  ASSUME LexerInv, TokensSay, ~Done, src' = src, NEW j \in pos .. Len(src), NEW t, out' = Append(out, t),
         t.line = line, t.col = col, t.lexeme = Text(pos, j), Says(t, pos, j) \/ t.kind = "<eof>"
  PROVE  TokensSay'
  <1>1. /\ \A q, i, m : Says(q, i, m)' <=> Says(q, i, m)
        /\ \A l, c, p : Names(l, c, p)' <=> Names(l, c, p)
    BY SaysStays, SameText
  <1>2. /\ src \in Texts /\ Len(src) \in Nat /\ pos \in 0 .. Len(src) /\ Listed(out)
        /\ Names(line, col, pos)
    BY TextProperties, CursorNames DEF LexerInv
  <1>3. Len(t.lexeme) = j - pos
    BY <1>2, TextProperties, Zenon
  <1>4. Says(t, pos, pos + Len(t.lexeme)) \/ t.kind = "<eof>"
    <2>1. pos + Len(t.lexeme) = j
      BY <1>2, <1>3
    <2> QED
      BY <2>1
  <1>5. PICK n : n = Len(out)
    OBVIOUS
  <1>6. /\ n \in Nat /\ Len(out') = n + 1 /\ out'[n + 1] = t /\ \A k \in 1 .. n : out'[k] = out[k]
    <2>1. /\ Len(out) \in Nat /\ Len(Append(out, t)) = Len(out) + 1 /\ Append(out, t)[Len(out) + 1] = t
          /\ \A k \in 1 .. Len(out) : Append(out, t)[k] = out[k]
      BY <1>2, Appended
    <2> QED
      BY <1>5, <2>1
  <1>7. ASSUME NEW k \in 1 .. n
        PROVE  \E i : Names(out[k].line, out[k].col, i) /\ Says(out[k], i, i + Len(out[k].lexeme))
    <2>1. ~(k = n /\ out[k].kind = "<eof>")
      <3>1. out # <<>>
        BY <1>5, <1>6
      <3> QED
        BY <1>5, <3>1, Zenon DEF Done, Last
    <2> QED
      BY <1>5, <2>1, Zenon DEF TokensSay
  <1>8. ASSUME NEW k \in 1 .. n + 1, NEW q, q = out'[k]
        PROVE  \/ \E i : Names(q.line, q.col, i)' /\ Says(q, i, i + Len(q.lexeme))'
               \/ k = n + 1 /\ q.kind = "<eof>"
    <2>1. CASE k \in 1 .. n
      <3>1. q = out[k]
        BY <1>6, <1>8, <2>1, Zenon
      <3>2. PICK i : Names(out[k].line, out[k].col, i) /\ Says(out[k], i, i + Len(out[k].lexeme))
        BY <1>7, <2>1
      <3>3. Names(q.line, q.col, i) /\ Says(q, i, i + Len(q.lexeme))
        BY <3>1, <3>2, Zenon
      <3>4. Names(q.line, q.col, i)' /\ Says(q, i, i + Len(q.lexeme))'
        BY <1>1, <3>3, Zenon
      <3> QED
        BY <3>4, Zenon
    <2>2. CASE k = n + 1
      <3>1. q = t
        BY <1>6, <1>8, <2>2, Zenon
      <3>2. Names(q.line, q.col, pos)
        BY <1>2, <3>1, Zenon
      <3>3. CASE q.kind = "<eof>"
        BY <2>2, <3>3, Zenon
      <3>4. CASE Says(q, pos, pos + Len(q.lexeme))
        <4>1. PICK i : i = pos
          OBVIOUS
        <4>2. Names(q.line, q.col, i) /\ Says(q, i, i + Len(q.lexeme))
          BY <3>2, <3>4, <4>1, Zenon
        <4>3. Names(q.line, q.col, i)' /\ Says(q, i, i + Len(q.lexeme))'
          BY <1>1, <4>2, Zenon
        <4> QED
          BY <4>3, Zenon
      <3> QED
        BY <1>4, <3>1, <3>3, <3>4, Zenon
    <2> QED
      BY <1>6, <2>1, <2>2
  <1> QED
    BY <1>6, <1>8, Zenon DEF TokensSay

LEMMA TokenIs ==
  ASSUME NEW kind, NEW lexeme, NEW val, Emit(kind, lexeme, val)
  PROVE  \E t : /\ out' = Append(out, t) /\ t.kind = kind /\ t.lexeme = lexeme /\ t.int_val = val
                /\ t.line = line /\ t.col = col
  <1>1. PICK t : t = Token(kind, lexeme, line, col, val)
    OBVIOUS
  <1>2. t.kind = kind /\ t.lexeme = lexeme /\ t.int_val = val /\ t.line = line /\ t.col = col
    BY <1>1 DEF Token
  <1> QED
    BY <1>1, <1>2, Zenon DEF Emit

LEMMA MoreText ==
  ASSUME LexerInv, More
  PROVE  src \in Texts /\ Len(src) \in Nat /\ pos \in 0 .. Len(src) - 1 /\ ~Done /\ pos < Len(src)
  <1>1. ~at_end
    BY Zenon DEF More
  <1>2. ~Done
    BY Zenon DEF More
  <1>3. src \in Texts /\ Len(src) \in Nat /\ pos \in 0 .. Len(src)
    BY TextProperties, Zenon DEF LexerInv
  <1>4. pos \in 0 .. Len(src) - 1 /\ pos < Len(src)
    BY <1>1, <1>3 DEF at_end
  <1> QED
    BY <1>2, <1>3, <1>4, Zenon

LEMMA NumberTells ==
  ASSUME LexerInv, TokensSay, Number
  PROVE  TokensSay'
  <1>1. More /\ peek(0) \in Digits /\ src' = src
    BY Zenon DEF Number
  <1>2. src \in Texts /\ Len(src) \in Nat /\ pos \in 0 .. Len(src) - 1 /\ ~Done /\ pos < Len(src)
    BY <1>1, MoreText
  <1>3. Char(pos) \in Digits
    BY <1>1, <1>2 DEF peek
  <1>4. PICK j : j = EndOfRun(Digits)
    OBVIOUS
  <1>5. j \in pos .. Len(src)
    BY <1>2, <1>4, EndOfRunIs, CharClasses DEF LexerInv
  <1>6. PICK kind, val : /\ Emit(kind, Text(pos, j), val)
                         /\ \/ Decimal(Text(pos, j)) <= MaxInt /\ kind = "Int" /\ val = Decimal(Text(pos, j))
                            \/ ~(Decimal(Text(pos, j)) <= MaxInt) /\ kind = "<error>"
    BY <1>4, Zenon DEF Number
  <1>7. PICK t : /\ out' = Append(out, t) /\ t.kind = kind /\ t.lexeme = Text(pos, j) /\ t.int_val = val
                 /\ t.line = line /\ t.col = col
    BY <1>6, TokenIs
  <1>8. Says(t, pos, j)
    BY <1>2, <1>3, <1>4, <1>6, <1>7, NumberSays, Zenon
  <1> QED
    BY <1>1, <1>2, <1>5, <1>7, <1>8, AddsToken

LEMMA WordTells ==
  ASSUME LexerInv, TokensSay, Word_
  PROVE  TokensSay'
  <1>1. More /\ peek(0) \in WordChars \ Digits /\ src' = src
    BY Classes, Zenon DEF Word_
  <1>2. src \in Texts /\ Len(src) \in Nat /\ pos \in 0 .. Len(src) - 1 /\ ~Done /\ pos < Len(src)
    BY <1>1, MoreText
  <1>3. Char(pos) \in WordChars \ Digits
    BY <1>1, <1>2 DEF peek
  <1>4. PICK j : j = EndOfRun(WordChars)
    OBVIOUS
  <1>5. j \in pos .. Len(src)
    BY <1>2, <1>4, EndOfRunIs, CharClasses DEF LexerInv
  <1>6. PICK kind : /\ Emit(kind, Text(pos, j), 0)
                    /\ kind = IF Text(pos, j) \in Keywords THEN Text(pos, j) ELSE "Ident"
    BY <1>4, Zenon DEF Word_
  <1>7. PICK t : /\ out' = Append(out, t) /\ t.kind = kind /\ t.lexeme = Text(pos, j) /\ t.int_val = 0
                 /\ t.line = line /\ t.col = col
    BY <1>6, TokenIs
  <1>8. Says(t, pos, j)
    BY <1>2, <1>3, <1>4, <1>6, <1>7, WordSays, Zenon
  <1> QED
    BY <1>1, <1>2, <1>5, <1>7, <1>8, AddsToken

LEMMA SymbolTells ==
  ASSUME LexerInv, TokensSay, Symbol
  PROVE  TokensSay'
  <1>1. /\ More /\ peek(0) \notin WordChars /\ ~(peek(0) = "/" /\ peek(1) = "/") /\ src' = src
    BY Classes, Zenon DEF Symbol, CommentStarts
  <1>2. /\ src \in Texts /\ Len(src) \in Nat /\ pos \in 0 .. Len(src) - 1 /\ ~Done /\ pos < Len(src)
        /\ pos + 1 \in pos + 1 .. Len(src) /\ pos + 1 \in pos .. Len(src)
    <2>1. ~Done
      BY <1>1, MoreText
    <2>2. src \in Texts /\ Len(src) \in Nat /\ pos \in 0 .. Len(src) - 1 /\ pos < Len(src)
      BY <1>1, MoreText
    <2>3. pos + 1 \in pos + 1 .. Len(src) /\ pos + 1 \in pos .. Len(src)
      BY <2>2
    <2> QED
      BY <2>1, <2>2, <2>3, Zenon
  <1>3. /\ peek(0) = Char(pos) /\ peek(1) = Char(pos + 1)
        /\ Char(pos) \notin WordChars /\ ~(Char(pos) = "/" /\ Char(pos + 1) = "/")
    <2>1. peek(0) = Char(pos) /\ peek(1) = Char(pos + 1)
      BY <1>2 DEF peek
    <2> QED
      BY <1>1, <2>1, Zenon
  <1>4. PICK two : two = Text(pos, IF pos + 1 < Len(src) THEN pos + 2 ELSE pos + 1)
    OBVIOUS
  <1>5. Char(pos) = Text(pos, pos + 1)
    BY <1>2, TextProperties, Zenon
  <1>6. two \in Pairs => pos + 2 \in pos + 1 .. Len(src) /\ pos + 2 \in pos .. Len(src) /\ two = Text(pos, pos + 2)
    <2>1. CASE pos + 1 < Len(src)
      BY <1>2, <1>4, <2>1
    <2>2. CASE ~(pos + 1 < Len(src))
      <3>1. (pos + 1) - pos # 2 /\ pos \in 0 .. Len(src)
        BY <1>2
      <3>2. Len(two) # 2
        BY <1>2, <1>4, <2>2, <3>1, TextProperties, Zenon
      <3> QED
        BY <3>2, SymbolSizes, Zenon
    <2> QED
      BY <2>1, <2>2
  <1>7. \E j \in pos + 1 .. Len(src) : \E kind : \E lexeme :
          /\ j \in pos .. Len(src) /\ Emit(kind, lexeme, 0) /\ lexeme = Text(pos, j)
          /\ \/ j = pos + 2 /\ kind = lexeme /\ kind \in Pairs
             \/ j = pos + 1 /\ two \notin Pairs /\ kind = lexeme /\ kind \in Symbols
             \/ j = pos + 1 /\ two \notin Pairs /\ lexeme \notin Symbols /\ kind = "<error>"
    <2>1. \/ two \in Pairs /\ Emit(two, two, 0)
          \/ two \notin Pairs /\ Char(pos) \in Symbols /\ Emit(Char(pos), Char(pos), 0)
          \/ two \notin Pairs /\ Char(pos) \notin Symbols /\ Emit("<error>", Char(pos), 0)
      BY <1>3, <1>4, Zenon DEF Symbol
    <2> QED
      BY <1>2, <1>5, <1>6, <2>1, Zenon
  <1>8. PICK j, kind, lexeme :
          /\ j \in pos + 1 .. Len(src)
          /\ j \in pos .. Len(src) /\ Emit(kind, lexeme, 0) /\ lexeme = Text(pos, j)
          /\ \/ j = pos + 2 /\ kind = lexeme /\ kind \in Pairs
             \/ j = pos + 1 /\ two \notin Pairs /\ kind = lexeme /\ kind \in Symbols
             \/ j = pos + 1 /\ two \notin Pairs /\ lexeme \notin Symbols /\ kind = "<error>"
    BY <1>7, Zenon
  <1>9. PICK t : /\ out' = Append(out, t) /\ t.kind = kind /\ t.lexeme = lexeme /\ t.int_val = 0
                 /\ t.line = line /\ t.col = col
    BY <1>8, TokenIs
  <1>10. Says(t, pos, j)
    BY <1>2, <1>3, <1>4, <1>8, <1>9, SymbolSays, Zenon
  <1> QED
    BY <1>1, <1>2, <1>8, <1>9, <1>10, AddsToken

LEMMA EndTells ==
  ASSUME LexerInv, TokensSay, EndOfText
  PROVE  TokensSay'
  <1>1. ~Done /\ src' = src /\ Emit("<eof>", Nothing, 0)
    BY Zenon DEF EndOfText, Nothing
  <1>2. pos \in pos .. Len(src) /\ Text(pos, pos) = Nothing
    BY TextProperties DEF LexerInv
  <1>3. PICK t : /\ out' = Append(out, t) /\ t.kind = "<eof>" /\ t.lexeme = Nothing /\ t.int_val = 0
                 /\ t.line = line /\ t.col = col
    BY <1>1, TokenIs
  <1> QED
    BY <1>1, <1>2, <1>3, AddsToken

(* On every text: each token is the longest lexeme that begins where it    *)
(* begins, with the kind and the value that its text says; Error tokens    *)
(* are what is no lexeme (Lexer::tokenize).                                *)
THEOREM TokensAlwaysSay == Spec => []TokensAreWhatTheTextSays
  <1>1. Init => TokensSay
    <2> SUFFICES ASSUME Init PROVE TokensSay
      OBVIOUS
    <2>1. 1 .. Len(out) = {}
      BY DEF Init
    <2> QED
      BY <2>1, Zenon DEF TokensSay
  <1>2. LexerInv /\ TokensSay /\ [Next]_vars => TokensSay'
    <2> SUFFICES ASSUME LexerInv, TokensSay, [Next]_vars PROVE TokensSay'
      OBVIOUS
    <2>1. CASE Blank \/ Comment \/ UNCHANGED vars
      <3>1. src' = src /\ out' = out
        BY <2>1, Zenon DEF Blank, Comment, vars
      <3> QED
        BY <3>1, SameTokens
    <2> QED
      BY <2>1, NumberTells, WordTells, SymbolTells, EndTells DEF Next
  <1>3. ASSUME LexerInv, TokensSay
        PROVE  TokensAreWhatTheTextSays
    <2>1. Listed(out) /\ Len(src) \in Nat
      BY <1>3, TextProperties DEF LexerInv
    <2>2. Len(out) \in Nat /\ DOMAIN out = 1 .. Len(out) /\ (out = <<>> <=> Len(out) = 0)
      BY <2>1, EmptySeq DEF Listed
    <2> SUFFICES ASSUME NEW t \in ToSet(Scanned) PROVE Says(t, From(t), To(t))
      BY Zenon DEF TokensAreWhatTheTextSays, Says
    <2>3. PICK k \in 1 .. Len(out) : t = out[k] /\ ~(k = Len(out) /\ out[k].kind = "<eof>")
      <3>1. CASE Done
        <4>1. Scanned = [i \in 1 .. Len(out) - 1 |-> out[i]]
          BY <2>1, <2>2, <3>1 DEF Scanned, Front, Listed
        <4>2. PICK k \in 1 .. Len(out) - 1 : t = out[k]
          BY <4>1 DEF ToSet
        <4>3. k \in 1 .. Len(out) /\ k # Len(out)
          <5>1. PICK n \in Nat : n = Len(out)
            BY <2>2
          <5>2. k \in 1 .. n - 1
            BY <4>2, <5>1
          <5>3. k \in 1 .. n /\ k # n
            BY <5>1, <5>2
          <5> QED
            BY <5>1, <5>3
        <4>4. t = out[k]
          BY <4>2
        <4> QED
          BY <4>3, <4>4, Zenon
      <3>2. CASE ~Done
        <4>1. Scanned = out
          BY <3>2 DEF Scanned
        <4>2. PICK k \in 1 .. Len(out) : t = out[k]
          BY <2>2, <4>1 DEF ToSet
        <4>3. out # <<>>
          BY <2>2, <4>2
        <4>4. ~(k = Len(out) /\ out[k].kind = "<eof>")
          BY <3>2, <4>3, Zenon DEF Done, Last
        <4> QED
          BY <4>2, <4>4
      <3> QED
        BY <3>1, <3>2
    <2>4. PICK i : Names(t.line, t.col, i) /\ Says(t, i, i + Len(t.lexeme))
      BY <1>3, <2>3, Zenon DEF TokensSay
    <2>5. From(t) = i /\ To(t) = i + Len(t.lexeme)
      BY <2>1, <2>4, NamesOffset, Zenon DEF From, To
    <2> QED
      BY <2>4, <2>5, Zenon
  <1> QED
    BY <1>1, <1>2, <1>3, AlwaysLexerInv, PTL DEF Spec
=============================================================================
