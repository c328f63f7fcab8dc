------------------------------ MODULE IR_proofs ------------------------------
(***************************************************************************)
(* Facts about the IR that the proofs of the passes rest on: the paths of  *)
(* a control-flow graph, what it means that a definition comes before a    *)
(* use on all of them, and when a function made from another one inherits  *)
(* its well-formedness.                                                    *)
(***************************************************************************)
EXTENDS IR, FiniteSetTheorems, SequenceTheorems, WellFoundedInduction, TLAPS

-----------------------------------------------------------------------------
(* Numbers.                                                                *)

(* Every non-empty set of natural numbers has a least element.             *)
LEMMA LeastNat ==
  ASSUME NEW T \in SUBSET Nat, T # {}
  PROVE  \E m \in T : \A n \in T : m <= n
  <1>1. PICK m \in T : \A n \in T : <<n, m>> \notin OpToRel(<, Nat)
    BY WFMin, NatLessThanWellFounded, Zenon
  <1>2. ASSUME NEW n \in T PROVE m <= n
    <2>1. <<n, m>> \notin { ss \in Nat \X Nat : ss[1] < ss[2] }
      BY <1>1 DEF OpToRel
    <2> QED
      BY <2>1
  <1> QED
    BY <1>2

(* Induction, for a set in place of a predicate.                           *)
LEMMA Induction ==
  ASSUME NEW T \in SUBSET Nat, 0 \in T, \A n \in T : n + 1 \in T
  PROVE  T = Nat
  <1>1. SUFFICES ASSUME Nat \ T # {} PROVE FALSE
    OBVIOUS
  <1>2. PICK m \in Nat \ T : \A n \in Nat \ T : m <= n
    BY LeastNat, <1>1
  <1>3. m # 0 /\ m - 1 \in Nat
    BY <1>2
  <1>4. m - 1 \in T
    BY <1>2, <1>3
  <1> QED
    BY <1>2, <1>4

(* Induction up to a bound.                                                *)
LEMMA BoundedInduction ==
  ASSUME NEW N \in Nat, NEW T, 0 \in T, \A n \in 0 .. N - 1 : n \in T => n + 1 \in T
  PROVE  \A n \in 0 .. N : n \in T
  <1> DEFINE U == { n \in Nat : n <= N => n \in T }
  <1>1. 0 \in U
    OBVIOUS
  <1>2. \A n \in U : n + 1 \in U
    OBVIOUS
  <1>3. U = Nat
    <2> HIDE DEF U
    <2> QED
      BY <1>1, <1>2, Induction DEF U
  <1> QED
    BY <1>3

(* The elements below an element: as many as its place in the order.       *)
LEMMA RankProperties ==
  ASSUME NEW S \in SUBSET Int, IsFiniteSet(S)
  PROVE  /\ Cardinality(S) \in Nat
         /\ \A k \in S : Rank(S, k) \in 0 .. Cardinality(S) - 1
         /\ \A j, k \in S : j < k <=> Rank(S, j) < Rank(S, k)
         /\ \A i \in 0 .. Cardinality(S) - 1 : \E k \in S : Rank(S, k) = i
  <1> DEFINE Below(k) == { c \in S : c < k }
             n == Cardinality(S)
  <1>1. n \in Nat
    BY FS_CardinalityType
  <1>2. ASSUME NEW k \in S
        PROVE  IsFiniteSet(Below(k)) /\ Rank(S, k) \in Nat /\ Rank(S, k) < n
    <2>1. IsFiniteSet(Below(k)) /\ Cardinality(Below(k)) <= n /\ (n = Cardinality(Below(k)) => S = Below(k))
      BY FS_Subset
    <2>2. k \in S /\ k \notin Below(k)
      BY <1>2
    <2>3. Cardinality(Below(k)) \in Nat
      BY <2>1, FS_CardinalityType
    <2> QED
      BY <1>1, <2>1, <2>2, <2>3 DEF Rank
  <1>3. ASSUME NEW j \in S, NEW k \in S, j < k
        PROVE  Rank(S, j) < Rank(S, k)
    <2>1. IsFiniteSet(Below(j) \cup {j}) /\ Cardinality(Below(j) \cup {j}) = Rank(S, j) + 1
      <3>1. j \notin Below(j)
        OBVIOUS
      <3> QED
        BY <1>2, <3>1, FS_AddElement DEF Rank
    <2>2. Below(j) \cup {j} \subseteq Below(k)
      <3>1. \A c \in Below(j) : c < k
        BY <1>3, S \subseteq Int
      <3> QED
        BY <1>3, <3>1
    <2>3. Cardinality(Below(j) \cup {j}) <= Cardinality(Below(k))
      BY <1>2, <2>2, FS_Subset
    <2> QED
      BY <1>2, <2>1, <2>3 DEF Rank
  <1> HIDE DEF Below, n
  <1>4. \A j, k \in S : j < k <=> Rank(S, j) < Rank(S, k)
    <2>1. ASSUME NEW j \in S, NEW k \in S, ~(j < k)
          PROVE  ~(Rank(S, j) < Rank(S, k))
      <3>1. j \in Int /\ k \in Int /\ Rank(S, j) \in Nat /\ Rank(S, k) \in Nat
        BY <1>2
      <3>2. CASE k < j
        BY <3>1, <3>2, <1>3
      <3> QED
        BY <2>1, <3>1, <3>2
    <2> QED
      BY <1>3, <2>1
  <1>5. \A i \in 0 .. n - 1 : \E k \in S : Rank(S, k) = i
    <2> DEFINE T == 0 .. n - 1
               r == [k \in S |-> Rank(S, k)]
    <2>1. r \in [S -> T]
      <3>1. \A k \in S : Rank(S, k) \in T
        BY <1>1, <1>2
      <3> QED
        BY <3>1
    <2>2. \A j, k \in S : r[j] = r[k] => j = k
      <3>1. ASSUME NEW j \in S, NEW k \in S, Rank(S, j) = Rank(S, k)
            PROVE  j = k
        <4>1. j \in Int /\ k \in Int /\ Rank(S, j) \in Nat
          BY <1>2
        <4>2. ~(j < k) /\ ~(k < j)
          BY <3>1, <4>1, <1>4
        <4> QED
          BY <4>1, <4>2
      <3> QED
        BY <3>1
    <2>3. r \in Injection(S, T)
      BY <2>1, <2>2 DEF Injection, IsInjective
    <2>4. IsFiniteSet(T) /\ Cardinality(T) = n
      BY <1>1, FS_Interval
    <2>5. r \in Surjection(S, T)
      <3> HIDE DEF r, T
      <3> QED
        BY <2>3, <2>4, FS_Injection DEF n
    <2> QED
      BY <2>5 DEF Surjection
  <1>6. \A k \in S : Rank(S, k) \in 0 .. n - 1
    BY <1>1, <1>2
  <1> QED
    BY <1>1, <1>6, <1>4, <1>5 DEF n

(* InOrder lists a set without repetition, in increasing order.            *)
LEMMA InOrderProperties ==
  ASSUME NEW S \in SUBSET Int, IsFiniteSet(S)
  PROVE  /\ Cardinality(S) \in Nat
         /\ InOrder(S) \in [1 .. Cardinality(S) -> S]
         /\ \A i \in 1 .. Cardinality(S) : Rank(S, InOrder(S)[i]) = i - 1
         /\ \A i, j \in 1 .. Cardinality(S) : i < j <=> InOrder(S)[i] < InOrder(S)[j]
         /\ \A k \in S : Rank(S, k) + 1 \in 1 .. Cardinality(S) /\ InOrder(S)[Rank(S, k) + 1] = k
  <1> DEFINE n == Cardinality(S)
             s == InOrder(S)
  <1>1. n \in Nat /\ \A k \in S : k \in Int /\ Rank(S, k) \in 0 .. n - 1
    BY RankProperties
  <1>0. \A j, k \in S : j < k <=> Rank(S, j) < Rank(S, k)
    BY RankProperties
  <1>2. ASSUME NEW i \in 1 .. n
        PROVE  s[i] \in S /\ Rank(S, s[i]) = i - 1
    <2>1. i - 1 \in 0 .. n - 1
      BY <1>1
    <2>2. \E k \in S : Rank(S, k) = i - 1
      BY <2>1, RankProperties
    <2>3. s[i] = CHOOSE k \in S : Rank(S, k) = i - 1
      BY DEF InOrder
    <2> QED
      BY <2>2, <2>3
  <1>3. s \in [1 .. n -> S]
    BY <1>2 DEF InOrder
  <1> HIDE DEF n, s
  <1>4. ASSUME NEW i \in 1 .. n, NEW j \in 1 .. n
        PROVE  i < j <=> s[i] < s[j]
    <2>1. s[i] < s[j] <=> Rank(S, s[i]) < Rank(S, s[j])
      BY <1>0, <1>2, Zenon
    <2>2. Rank(S, s[i]) = i - 1 /\ Rank(S, s[j]) = j - 1
      BY <1>2
    <2> QED
      BY <1>1, <2>1, <2>2
  <1>5. ASSUME NEW k \in S
        PROVE  Rank(S, k) + 1 \in 1 .. n /\ s[Rank(S, k) + 1] = k
    <2> DEFINE i == Rank(S, k) + 1
    <2>1. i \in 1 .. n
      BY <1>1
    <2>2. s[i] \in S /\ Rank(S, s[i]) = Rank(S, k)
      <3>1. Rank(S, k) \in Int
        BY <1>1
      <3>2. s[i] \in S /\ Rank(S, s[i]) = i - 1
        BY <2>1, <1>2
      <3> QED
        BY <3>1, <3>2
    <2> HIDE DEF i
    <2>0. ~(Rank(S, k) < Rank(S, k))
      BY <1>1
    <2>3. ~(s[i] < k) /\ ~(k < s[i])
      BY <2>0, <2>2, <1>0, Zenon
    <2>4. s[i] \in Int /\ k \in Int
      BY <2>2, <1>1
    <2> QED
      BY <2>1, <2>2, <2>3, <2>4 DEF i
  <1> QED
    BY <1>1, <1>2, <1>3, <1>4, <1>5 DEF n, s

-----------------------------------------------------------------------------
(* Paths.                                                                  *)

(* A recursive function is what its definition says.                       *)
LEMMA ReachDef ==
  ASSUME NEW f, NEW start, NEW avoid, Len(f.blocks) \in Nat
  PROVE  Reach(f, start, avoid) =
           [n \in 0 .. Len(f.blocks) |->
              IF n = 0 THEN start
              ELSE LET r == Reach(f, start, avoid)[n - 1]
                   IN  r \cup ((UNION { Succs(f, b) : b \in r }) \ avoid)]
  <1> DEFINE Grow(r) == r \cup ((UNION { Succs(f, b) : b \in r }) \ avoid)
             Is(g, m) == g = [n \in 0 .. m |-> IF n = 0 THEN start ELSE Grow(g[n - 1])]
             N == Len(f.blocks)
             T == { m \in Nat : \E g : Is(g, m) }
  <1> HIDE DEF Grow
  <1>1. 0 \in T
    <2>1. Is([n \in 0 .. 0 |-> start], 0)
      OBVIOUS
    <2> QED
      BY <2>1
  <1>2. ASSUME NEW m \in T
        PROVE  m + 1 \in T
    <2>1. PICK g : Is(g, m)
      OBVIOUS
    <2> DEFINE h == [n \in 0 .. m + 1 |-> IF n <= m THEN g[n] ELSE Grow(g[m])]
    <2>2. \A n \in 0 .. m : h[n] = g[n]
      OBVIOUS
    <2>3. h[m + 1] = Grow(h[m])
      OBVIOUS
    <2>4. \A n \in 0 .. m : g[n] = IF n = 0 THEN start ELSE Grow(g[n - 1])
      BY <2>1
    <2>5. \A n \in 0 .. m + 1 : h[n] = IF n = 0 THEN start ELSE Grow(h[n - 1])
      <3> HIDE DEF h
      <3> TAKE n \in 0 .. m + 1
      <3>1. CASE n = m + 1
        BY <3>1, <2>3
      <3>2. CASE n \in 1 .. m
        <4>1. n - 1 \in 0 .. m
          BY <3>2
        <4> QED
          BY <3>2, <4>1, <2>2, <2>4
      <3>3. CASE n = 0
        BY <3>3, <2>2, <2>4
      <3> QED
        BY <3>1, <3>2, <3>3
    <2>6. Is(h, m + 1)
      BY <2>5
    <2> HIDE DEF h, Is
    <2> QED
      BY <2>6
  <1>3. \E g : Is(g, N)
    <2> HIDE DEF Is
    <2>1. T = Nat
      <3> HIDE DEF T
      <3> QED
        BY <1>1, <1>2, Induction DEF T
    <2> QED
      BY <2>1
  <1>4. Reach(f, start, avoid) = CHOOSE g : Is(g, N)
    BY DEF Reach, Grow
  <1>5. Is(Reach(f, start, avoid), N)
    <2> HIDE DEF Is
    <2> QED
      BY <1>3, <1>4
  <1> QED
    BY <1>5 DEF Grow

LEMMA ReachProperties ==
  ASSUME NEW f, Len(f.blocks) \in Nat, NEW start \in SUBSET BlockIds(f), NEW avoid
  PROVE  LET N == Len(f.blocks)
             r == Reach(f, start, avoid)
         IN  /\ r[0] = start
             /\ \A n \in 0 .. N - 1 : \A x :
                  x \in r[n + 1] <=> x \in r[n] \/ (x \notin avoid /\ \E b \in r[n] : x \in Succs(f, b))
             /\ \A n \in 0 .. N : r[n] \subseteq BlockIds(f)
             /\ \A m \in 0 .. N : \A n \in m .. N : r[m] \subseteq r[n]
             /\ start \subseteq ReachAvoiding(f, start, avoid)
             /\ ReachAvoiding(f, start, avoid) \subseteq BlockIds(f)
             /\ \A n \in 0 .. N : r[n] \subseteq ReachAvoiding(f, start, avoid)
  <1> DEFINE N == Len(f.blocks)
             r == Reach(f, start, avoid)
             Grow(s) == s \cup ((UNION { Succs(f, b) : b \in s }) \ avoid)
  <1>1. r = [n \in 0 .. N |-> IF n = 0 THEN start ELSE Grow(r[n - 1])]
    BY ReachDef
  <1> HIDE DEF r, Grow
  <1>2. r[0] = start
    BY <1>1
  <1>3. ASSUME NEW n \in 0 .. N - 1
        PROVE  r[n + 1] = Grow(r[n])
    BY <1>1
  <1>4. \A s \in SUBSET BlockIds(f) : Grow(s) \subseteq BlockIds(f)
    BY DEF Grow, Succs
  <1>5. \A n \in 0 .. N : r[n] \subseteq BlockIds(f)
    <2> DEFINE T == { n \in 0 .. N : r[n] \subseteq BlockIds(f) }
    <2>1. 0 \in T
      BY <1>2
    <2>2. \A n \in 0 .. N - 1 : n \in T => n + 1 \in T
      BY <1>3, <1>4
    <2> HIDE DEF T
    <2>3. \A n \in 0 .. N : n \in T
      BY <2>1, <2>2, BoundedInduction
    <2> QED
      BY <2>3 DEF T
  <1>6. ASSUME NEW m \in 0 .. N
        PROVE  \A n \in m .. N : r[m] \subseteq r[n]
    <2> DEFINE T == { n \in 0 .. N : n >= m => r[m] \subseteq r[n] }
    <2>1. 0 \in T
      OBVIOUS
    <2>2. ASSUME NEW n \in 0 .. N - 1, n \in T
          PROVE  n + 1 \in T
      <3>1. r[n] \subseteq r[n + 1]
        BY <1>3 DEF Grow
      <3>2. CASE n >= m
        BY <2>2, <3>1, <3>2
      <3>3. CASE n + 1 = m
        BY <3>3
      <3>4. CASE n + 1 < m
        BY <3>4
      <3> QED
        BY <3>2, <3>3, <3>4
    <2> HIDE DEF T
    <2>3. \A n \in 0 .. N : n \in T
      BY <2>1, <2>2, BoundedInduction
    <2> QED
      BY <2>3 DEF T
  <1>7. ReachAvoiding(f, start, avoid) = r[N] /\ 0 \in 0 .. N /\ N \in 0 .. N
    BY DEF ReachAvoiding, r
  <1>8. \A n \in 0 .. N : r[n] \subseteq r[N]
    BY <1>6
  <1>9. \A n \in 0 .. N - 1 : \A x :
          x \in r[n + 1] <=> x \in r[n] \/ (x \notin avoid /\ \E b \in r[n] : x \in Succs(f, b))
    BY <1>3 DEF Grow
  <1> QED
    BY <1>2, <1>9, <1>5, <1>6, <1>7, <1>8 DEF r

(* The number of blocks is enough steps to reach whatever can be reached.  *)
LEMMA ReachClosed ==
  ASSUME NEW f, Len(f.blocks) \in Nat, NEW start \in SUBSET BlockIds(f), NEW avoid,
         NEW b \in ReachAvoiding(f, start, avoid)
  PROVE  Succs(f, b) \ avoid \subseteq ReachAvoiding(f, start, avoid)
  <1> DEFINE N == Len(f.blocks)
             r == Reach(f, start, avoid)
             Closed(s) == \A c \in s : Succs(f, c) \ avoid \subseteq s
             T == { n \in 0 .. N : Closed(r[n]) \/ Cardinality(r[n]) >= n }
  <1> HIDE DEF r
  <1>1. /\ r[0] = start
        /\ \A n \in 0 .. N - 1 : \A x :
             x \in r[n + 1] <=> x \in r[n] \/ (x \notin avoid /\ \E c \in r[n] : x \in Succs(f, c))
        /\ \A n \in 0 .. N : r[n] \subseteq BlockIds(f)
    BY ReachProperties DEF r
  <1>2. IsFiniteSet(BlockIds(f)) /\ Cardinality(BlockIds(f)) = N
    BY FS_Interval DEF BlockIds
  <1>3. \A n \in 0 .. N : IsFiniteSet(r[n]) /\ Cardinality(r[n]) \in Nat
    BY <1>1, <1>2, FS_Subset, FS_CardinalityType
  <1>4. 0 \in T
    BY <1>3
  <1>5. ASSUME NEW n \in 0 .. N - 1, n \in T
        PROVE  n + 1 \in T
    <2>1. n \in 0 .. N /\ n + 1 \in 0 .. N /\ r[n] \subseteq r[n + 1]
      <3>1. \A x : x \in r[n] => x \in r[n + 1]
        BY <1>1, Zenon
      <3> QED
        BY <3>1
    <2>0. \A x : x \in r[n + 1] <=> x \in r[n] \/ (x \notin avoid /\ \E c \in r[n] : x \in Succs(f, c))
      BY <1>1
    <2>2. CASE Closed(r[n])
      <3>1. r[n + 1] = r[n]
        BY <2>0, <2>2
      <3> QED
        BY <2>1, <2>2, <3>1
    <2>3. CASE ~Closed(r[n])
      <3>1. PICK x \in r[n + 1] : x \notin r[n]
        BY <2>0, <2>3, Zenon
      <3>2. Cardinality(r[n]) >= n
        BY <1>5, <2>3
      <3>3. IsFiniteSet(r[n] \cup {x}) /\ Cardinality(r[n] \cup {x}) = Cardinality(r[n]) + 1
        BY <1>3, <2>1, <3>1, FS_AddElement
      <3>4. Cardinality(r[n] \cup {x}) <= Cardinality(r[n + 1])
        BY <1>3, <2>1, <3>1, FS_Subset
      <3>5. Cardinality(r[n + 1]) >= n + 1
        BY <1>3, <2>1, <3>2, <3>3, <3>4
      <3> QED
        BY <2>1, <3>5
    <2> QED
      BY <2>2, <2>3
  <1>6. N \in T
    <2> HIDE DEF T
    <2>1. \A n \in 0 .. N : n \in T
      BY <1>4, <1>5, BoundedInduction
    <2> QED
      BY <2>1
  <1>7. Closed(r[N])
    <2>1. CASE Cardinality(r[N]) >= N
      <3>1. r[N] = BlockIds(f)
        BY <1>1, <1>2, <1>3, <2>1, FS_Subset
      <3> QED
        BY <3>1 DEF Succs
    <2> QED
      BY <1>6, <2>1
  <1> QED
    BY <1>7 DEF ReachAvoiding, r

(* The paths from the entry.                                               *)
LEMMA EntryPaths ==
  ASSUME NEW f, Len(f.blocks) \in Nat \ {0}, NEW A
  PROVE  /\ Reach(f, {0}, A)[0] = {0}
         /\ \A n \in 0 .. Len(f.blocks) - 1 : \A x :
              x \in Reach(f, {0}, A)[n + 1] <=>
                x \in Reach(f, {0}, A)[n] \/ (x \notin A /\ \E b \in Reach(f, {0}, A)[n] : x \in Succs(f, b))
         /\ \A n \in 0 .. Len(f.blocks) : Reach(f, {0}, A)[n] \subseteq ReachAvoiding(f, {0}, A)
         /\ 0 \in ReachAvoiding(f, {0}, A)
         /\ ReachAvoiding(f, {0}, A) \subseteq BlockIds(f)
         /\ \A b \in ReachAvoiding(f, {0}, A) : \A c \in Succs(f, b) : c \notin A => c \in ReachAvoiding(f, {0}, A)
  <1>1. {0} \in SUBSET BlockIds(f) /\ Len(f.blocks) \in Nat
    BY DEF BlockIds
  <1>2. \A b \in ReachAvoiding(f, {0}, A) : Succs(f, b) \ A \subseteq ReachAvoiding(f, {0}, A)
    BY <1>1, ReachClosed
  <1> HIDE DEF ReachAvoiding
  <1>3. /\ Reach(f, {0}, A)[0] = {0}
        /\ \A n \in 0 .. Len(f.blocks) - 1 : \A x :
              x \in Reach(f, {0}, A)[n + 1] <=>
                x \in Reach(f, {0}, A)[n] \/ (x \notin A /\ \E b \in Reach(f, {0}, A)[n] : x \in Succs(f, b))
        /\ \A n \in 0 .. Len(f.blocks) : Reach(f, {0}, A)[n] \subseteq ReachAvoiding(f, {0}, A)
        /\ {0} \subseteq ReachAvoiding(f, {0}, A)
        /\ ReachAvoiding(f, {0}, A) \subseteq BlockIds(f)
    BY <1>1, ReachProperties, Zenon
  <1> QED
    BY <1>2, <1>3

(* The paths from the entry that avoid some blocks: with more blocks to    *)
(* avoid there are fewer, and a map between two graphs that keeps edges    *)
(* takes the paths of the one to paths of the other.                       *)
LEMMA PathsMap ==
  ASSUME NEW f, NEW g, Len(f.blocks) \in Nat, Len(g.blocks) \in Nat \ {0}, Len(g.blocks) <= Len(f.blocks),
         NEW phi \in [BlockIds(g) -> BlockIds(f)], phi[0] = 0,
         \A b \in BlockIds(g) : \A c \in Succs(g, b) : phi[c] \in Succs(f, phi[b]),
         NEW A, NEW B, \A b \in BlockIds(g) : phi[b] \in B => b \in A
  PROVE  \A b \in ReachAvoiding(g, {0}, A) : b \in BlockIds(g) /\ phi[b] \in ReachAvoiding(f, {0}, B)
  <1> DEFINE N == Len(g.blocks)
             r == Reach(g, {0}, A)
             s == Reach(f, {0}, B)
             T == { n \in 0 .. N : \A b \in r[n] : b \in BlockIds(g) /\ phi[b] \in s[n] }
  <1>0. N \in Nat /\ N <= Len(f.blocks) /\ Len(f.blocks) \in Nat \ {0} /\ 0 \in BlockIds(g)
    BY DEF BlockIds
  <1> HIDE DEF r, s
  <1>1. /\ r[0] = {0}
        /\ \A n \in 0 .. N - 1 : \A x : x \in r[n + 1] => x \in r[n] \/ (x \notin A /\ \E b \in r[n] : x \in Succs(g, b))
    BY EntryPaths, ZenonT(40) DEF r
  <1>2. /\ s[0] = {0}
        /\ \A n \in 0 .. N - 1 : \A x : x \in s[n] \/ (x \notin B /\ \E b \in s[n] : x \in Succs(f, b)) => x \in s[n + 1]
        /\ s[N] \subseteq ReachAvoiding(f, {0}, B)
    BY <1>0, EntryPaths DEF s
  <1>3. 0 \in T
    BY <1>0, <1>1, <1>2
  <1>4. ASSUME NEW n \in 0 .. N - 1, n \in T
        PROVE  n + 1 \in T
    <2>1. ASSUME NEW x \in r[n + 1]
          PROVE  x \in BlockIds(g) /\ phi[x] \in s[n + 1]
      <3>1. CASE x \in r[n]
        BY <1>2, <1>4, <3>1
      <3>2. CASE x \notin r[n]
        <4>1. PICK b \in r[n] : x \in Succs(g, b)
          BY <1>1, <2>1, <3>2
        <4>2. x \notin A /\ x \in BlockIds(g)
          BY <1>1, <2>1, <3>2, <4>1 DEF Succs
        <4>3. b \in BlockIds(g) /\ phi[b] \in s[n] /\ phi[x] \in Succs(f, phi[b]) /\ phi[x] \notin B
          BY <1>4, <4>1, <4>2
        <4> QED
          BY <1>2, <4>2, <4>3
      <3> QED
        BY <3>1, <3>2
    <2> QED
      BY <1>0, <2>1
  <1>5. N \in T
    <2> HIDE DEF T
    <2>1. \A n \in 0 .. N : n \in T
      BY <1>0, <1>3, <1>4, BoundedInduction
    <2> QED
      BY <1>0, <2>1
  <1> QED
    BY <1>2, <1>5 DEF ReachAvoiding, r

(* A path that avoids a block and does not come upon another one avoids    *)
(* both: the two lemmas on domination below.                               *)
LEMMA PathsAvoidingMore ==
  ASSUME NEW f, Len(f.blocks) \in Nat \ {0}, NEW A, NEW C,
         \A b \in ReachAvoiding(f, {0}, A) : b \notin C
  PROVE  ReachAvoiding(f, {0}, A) \subseteq ReachAvoiding(f, {0}, C)
  <1> DEFINE N == Len(f.blocks)
             r == Reach(f, {0}, A)
             s == Reach(f, {0}, C)
             T == { n \in 0 .. N : r[n] \subseteq s[n] }
  <1>0. N \in Nat
    OBVIOUS
  <1> HIDE DEF r, s
  <1>1. /\ r[0] = {0}
        /\ \A n \in 0 .. N - 1 : \A x : x \in r[n + 1] => x \in r[n] \/ \E b \in r[n] : x \in Succs(f, b)
        /\ \A n \in 0 .. N : r[n] \subseteq ReachAvoiding(f, {0}, A)
    BY EntryPaths DEF r
  <1>2. /\ s[0] = {0}
        /\ \A n \in 0 .. N - 1 : \A x : x \in s[n] \/ (x \notin C /\ \E b \in s[n] : x \in Succs(f, b)) => x \in s[n + 1]
    BY <1>0, EntryPaths DEF s
  <1>3. 0 \in T
    BY <1>0, <1>1, <1>2
  <1>4. ASSUME NEW n \in 0 .. N - 1, n \in T
        PROVE  n + 1 \in T
    <2>0. n + 1 \in 0 .. N
      BY <1>0
    <2>1. ASSUME NEW x \in r[n + 1]
          PROVE  x \in s[n + 1]
      <3>1. x \notin C
        BY <1>1, <2>0
      <3>2. x \in r[n] \/ \E b \in r[n] : x \in Succs(f, b)
        BY <1>1
      <3> QED
        BY <1>2, <1>4, <3>1, <3>2
    <2> QED
      BY <2>0, <2>1
  <1>5. N \in T
    <2> HIDE DEF T
    <2>1. \A n \in 0 .. N : n \in T
      BY <1>0, <1>3, <1>4, BoundedInduction
    <2> QED
      BY <1>0, <2>1
  <1> QED
    BY <1>5 DEF ReachAvoiding, r, s

-----------------------------------------------------------------------------
(* Definitions before uses.                                                *)

(* What comes before a place that can be reached can be reached.           *)
LEMMA BeforeReachable ==
  ASSUME NEW f, Len(f.blocks) \in Nat \ {0}, NEW p, NEW q,
         Before(f, p, q), q[1] \in ReachAvoiding(f, {0}, {})
  PROVE  p[1] \in ReachAvoiding(f, {0}, {})
  <1>1. CASE p[1] = q[1]
    BY <1>1
  <1>2. CASE p[1] = 0
    BY <1>2, EntryPaths
  <1>3. CASE q[1] \notin ReachAvoiding(f, {0}, {p[1]})
    <2>1. ~\A b \in ReachAvoiding(f, {0}, {}) : b \notin {p[1]}
      BY <1>3, PathsAvoidingMore
    <2> QED
      BY <2>1
  <1> QED
    BY <1>1, <1>2, <1>3 DEF Before

(* Two blocks that both come before the other cannot be reached.           *)
LEMMA BeforeAsymmetric ==
  ASSUME NEW f, Len(f.blocks) \in Nat \ {0}, NEW b, NEW c, b # c,
         b \notin ReachAvoiding(f, {0}, {c}), c \notin ReachAvoiding(f, {0}, {b})
  PROVE  b \notin ReachAvoiding(f, {0}, {})
  <1> DEFINE N == Len(f.blocks)
             r == Reach(f, {0}, {})
             s == Reach(f, {0}, {b})
             t == Reach(f, {0}, {c})
             T == { n \in 0 .. N : r[n] \subseteq s[n] /\ r[n] \subseteq t[n] }
  <1> HIDE DEF r, s, t
  <1>1. /\ r[0] = {0}
        /\ \A n \in 0 .. N - 1 : \A x : x \in r[n + 1] => x \in r[n] \/ \E d \in r[n] : x \in Succs(f, d)
        /\ ReachAvoiding(f, {0}, {}) = r[N]
    BY EntryPaths DEF r, ReachAvoiding
  <1>2. /\ s[0] = {0}
        /\ \A n \in 0 .. N - 1 : \A x : x \in s[n] \/ (x # b /\ \E d \in s[n] : x \in Succs(f, d)) => x \in s[n + 1]
        /\ \A n \in 0 .. N : c \notin s[n]
    <2>1. /\ s[0] = {0}
          /\ \A n \in 0 .. N - 1 : \A x :
               x \in s[n + 1] <=> x \in s[n] \/ (x \notin {b} /\ \E d \in s[n] : x \in Succs(f, d))
          /\ \A n \in 0 .. N : s[n] \subseteq ReachAvoiding(f, {0}, {b})
      BY EntryPaths, ZenonT(40) DEF s
    <2>2. \A n \in 0 .. N : c \notin s[n]
      BY <2>1, Zenon
    <2> QED
      BY <2>1, <2>2, ZenonT(40)
  <1>3. /\ t[0] = {0}
        /\ \A n \in 0 .. N - 1 : \A x : x \in t[n] \/ (x # c /\ \E d \in t[n] : x \in Succs(f, d)) => x \in t[n + 1]
        /\ \A n \in 0 .. N : b \notin t[n]
    <2>1. /\ t[0] = {0}
          /\ \A n \in 0 .. N - 1 : \A x :
               x \in t[n + 1] <=> x \in t[n] \/ (x \notin {c} /\ \E d \in t[n] : x \in Succs(f, d))
          /\ \A n \in 0 .. N : t[n] \subseteq ReachAvoiding(f, {0}, {c})
      BY EntryPaths, ZenonT(40) DEF t
    <2>2. \A n \in 0 .. N : b \notin t[n]
      BY <2>1, Zenon
    <2> QED
      BY <2>1, <2>2, ZenonT(40)
  <1>4. 0 \in T
    BY <1>1, <1>2, <1>3
  <1>5. ASSUME NEW n \in 0 .. N - 1, n \in T
        PROVE  n + 1 \in T
    <2>0. n + 1 \in 0 .. N
      OBVIOUS
    <2>1. ASSUME NEW x \in r[n + 1]
          PROVE  x \in s[n + 1] /\ x \in t[n + 1]
      <3>1. CASE x \in r[n]
        BY <1>2, <1>3, <1>5, <3>1
      <3>2. CASE x \notin r[n]
        <4>1. PICK d \in r[n] : x \in Succs(f, d)
          BY <1>1, <2>1, <3>2
        <4>2. d \in s[n] /\ d \in t[n]
          BY <1>5
        <4>3. x # b => x \in s[n + 1]
          BY <1>2, <4>1, <4>2
        <4>4. x # c => x \in t[n + 1]
          BY <1>3, <4>1, <4>2
        <4>5. x # b /\ x # c
          BY <1>2, <1>3, <2>0, <4>3, <4>4
        <4> QED
          BY <4>3, <4>4, <4>5
      <3> QED
        BY <3>1, <3>2
    <2> QED
      BY <2>0, <2>1
  <1>6. N \in T
    <2> HIDE DEF T
    <2>1. \A n \in 0 .. N : n \in T
      BY <1>4, <1>5, BoundedInduction
    <2> QED
      BY <2>1
  <1> QED
    BY <1>1, <1>3, <1>6

(* A definition before a definition before a use is before the use.        *)
LEMMA BeforeTransitive ==
  ASSUME NEW f, Len(f.blocks) \in Nat \ {0},
         NEW p, NEW q, NEW r, p[2] \in Int, q[2] \in Int, r[2] \in Int,
         Before(f, p, q), Before(f, q, r), r[1] \in ReachAvoiding(f, {0}, {})
  PROVE  Before(f, p, r)
  <1> DEFINE Beyond(b) == ReachAvoiding(f, {0}, {b})
  <1>0. \A b : 0 \in Beyond(b)
    BY EntryPaths
  <1>1. CASE p[1] = q[1] \/ q[1] = r[1]
    <2>1. CASE p[1] = q[1] /\ q[1] = r[1]
      <3>1. p[2] < q[2] /\ q[2] < r[2]
        BY <2>1 DEF Before
      <3>2. p[2] < r[2]
        BY <3>1
      <3> QED
        BY <2>1, <3>2 DEF Before
    <2>2. CASE p[1] = q[1] /\ q[1] # r[1]
      BY <2>2, Zenon DEF Before
    <2>3. CASE p[1] # q[1] /\ q[1] = r[1]
      BY <2>3, Zenon DEF Before
    <2> QED
      BY <1>1, <2>1, <2>2, <2>3
  <1>2. CASE p[1] # q[1] /\ q[1] # r[1] /\ p[1] # 0
    <2>1. q[1] \notin Beyond(p[1])
      BY <1>2 DEF Before
    <2>2. q[1] # 0
      BY <1>0, <2>1
    <2>3. r[1] \notin Beyond(q[1])
      BY <1>2, <2>2 DEF Before
    <2>4. Beyond(p[1]) \subseteq Beyond(q[1])
      BY <2>1, PathsAvoidingMore
    <2>5. r[1] \notin Beyond(p[1])
      BY <2>3, <2>4
    <2>6. p[1] # r[1]
      BY <1>2, <2>1, <2>3, BeforeAsymmetric
    <2> QED
      BY <2>5, <2>6 DEF Before
  <1>3. CASE p[1] # q[1] /\ q[1] # r[1] /\ p[1] = 0
    <2>1. q[1] # 0 /\ r[1] \notin Beyond(q[1])
      BY <1>3 DEF Before
    <2>2. r[1] # 0
      BY <1>0, <2>1
    <2> QED
      BY <1>3, <2>2 DEF Before
  <1> QED
    BY <1>1, <1>2, <1>3

-----------------------------------------------------------------------------
(* Positions.                                                              *)

LEMMA SequenceProperties ==
  ASSUME NEW s, IsSequence(s)
  PROVE  Len(s) \in Nat /\ DOMAIN s = 1 .. Len(s) /\ s = [i \in 1 .. Len(s) |-> s[i]]
  <1> DEFINE S == { s[i] : i \in DOMAIN s }
  <1>1. s \in Seq(S)
    BY DEF IsSequence
  <1> HIDE DEF S
  <1> QED
    BY <1>1, LenProperties

LEMMA SequenceMade ==
  ASSUME NEW n \in Nat, NEW s, s = [i \in 1 .. n |-> s[i]]
  PROVE  IsSequence(s) /\ Len(s) = n /\ DOMAIN s = 1 .. n
  <1> DEFINE S == { s[i] : i \in DOMAIN s }
  <1>1. DOMAIN s = 1 .. n
    BY Zenon
  <1>2. s \in [1 .. n -> S]
    BY <1>1
  <1> HIDE DEF S
  <1>3. s \in Seq(S)
    BY <1>2, SeqDef
  <1>4. Len(s) \in Nat /\ DOMAIN s = 1 .. Len(s)
    BY <1>3, LenProperties
  <1>5. Len(s) = n
    BY <1>1, <1>4
  <1> QED
    BY <1>1, <1>3, <1>5 DEF IsSequence, S

(* The blocks of a function are sequences.                                 *)
Laid(f) ==
  /\ Len(f.blocks) \in Nat \ {0} /\ DOMAIN f.blocks = 1 .. Len(f.blocks)
  /\ \A k \in 1 .. Len(f.blocks) : Len(f.blocks[k]) \in Nat /\ DOMAIN f.blocks[k] = 1 .. Len(f.blocks[k])

LEMMA TypedIsLaid ==
  ASSUME NEW f, TypedFunction(f)
  PROVE  Laid(f)
  <1>1. Len(f.blocks) \in Nat /\ DOMAIN f.blocks = 1 .. Len(f.blocks)
    BY SequenceProperties DEF TypedFunction
  <1>2. Len(f.blocks) # 0
    <2>1. SUFFICES ASSUME Len(f.blocks) = 0 PROVE FALSE
      OBVIOUS
    <2>2. f.blocks \in Seq({ f.blocks[i] : i \in DOMAIN f.blocks }) /\ f.blocks # <<>>
      BY DEF TypedFunction, IsSequence
    <2> QED
      BY <2>1, <2>2, EmptySeq
  <1>3. ASSUME NEW k \in 1 .. Len(f.blocks)
        PROVE  Len(f.blocks[k]) \in Nat /\ DOMAIN f.blocks[k] = 1 .. Len(f.blocks[k])
    <2>1. IsSequence(f.blocks[k])
      BY <1>1 DEF TypedFunction
    <2> QED
      BY <2>1, SequenceProperties
  <1> QED
    BY <1>1, <1>2, <1>3 DEF Laid

LEMMA PositionProperties ==
  ASSUME NEW f, Laid(f)
  PROVE  /\ \A p \in Positions(f) : /\ p = <<p[1], p[2]>>
                                    /\ p[1] \in BlockIds(f) /\ p[1] \in Nat /\ p[1] + 1 \in 1 .. Len(f.blocks)
                                    /\ p[2] \in 1 .. Len(f.blocks[p[1] + 1]) /\ p[2] \in Nat
                                    /\ At(f, p) = f.blocks[p[1] + 1][p[2]]
         /\ \A k \in 1 .. Len(f.blocks) : \A i \in 1 .. Len(f.blocks[k]) :
              <<k - 1, i>> \in Positions(f) /\ At(f, <<k - 1, i>>) = f.blocks[k][i]
         /\ \A b \in BlockIds(f) : b \in Nat /\ b + 1 \in 1 .. Len(f.blocks) /\ Block(f, b) = f.blocks[b + 1]
         /\ \A k \in 1 .. Len(f.blocks) : k - 1 \in BlockIds(f)
  <1>0. /\ \A b \in BlockIds(f) : b \in Nat /\ b + 1 \in 1 .. Len(f.blocks) /\ Block(f, b) = f.blocks[b + 1]
        /\ \A k \in 1 .. Len(f.blocks) : k - 1 \in BlockIds(f) /\ Block(f, k - 1) = f.blocks[k]
    BY DEF Laid, BlockIds, Block
  <1>1. ASSUME NEW p \in Positions(f)
        PROVE  /\ p = <<p[1], p[2]>>
               /\ p[1] \in BlockIds(f)
               /\ p[2] \in 1 .. Len(f.blocks[p[1] + 1])
               /\ At(f, p) = f.blocks[p[1] + 1][p[2]]
    <2>1. PICK b \in BlockIds(f) : \E i \in DOMAIN Block(f, b) : p = <<b, i>>
      BY DEF Positions
    <2>2. PICK i \in DOMAIN Block(f, b) : p = <<b, i>>
      BY <2>1
    <2>3. Block(f, b) = f.blocks[b + 1] /\ i \in 1 .. Len(f.blocks[b + 1])
      BY <1>0, <2>2 DEF Laid
    <2> QED
      BY <2>2, <2>3 DEF At
  <1>2. ASSUME NEW k \in 1 .. Len(f.blocks), NEW i \in 1 .. Len(f.blocks[k])
        PROVE  <<k - 1, i>> \in Positions(f) /\ At(f, <<k - 1, i>>) = f.blocks[k][i]
    <2>1. k - 1 \in BlockIds(f) /\ Block(f, k - 1) = f.blocks[k] /\ i \in DOMAIN Block(f, k - 1)
      BY <1>0 DEF Laid
    <2> QED
      BY <2>1 DEF Positions, At
  <1>3. \A p \in Positions(f) : p[1] \in Nat /\ p[1] + 1 \in 1 .. Len(f.blocks) /\ p[2] \in Nat
    BY <1>0, <1>1 DEF Laid
  <1> QED
    BY <1>0, <1>1, <1>2, <1>3

(* The function g is what is left of f, possibly with other operands: phi  *)
(* says which block of f a block of g was, e which instruction of f an     *)
(* instruction of g was.                                                   *)
Embeds(f, g, phi, e) ==
  /\ Laid(f) /\ Laid(g) /\ Len(g.blocks) <= Len(f.blocks)
  /\ g.next_temp = f.next_temp /\ g.num_slots = f.num_slots
  /\ phi \in [BlockIds(g) -> BlockIds(f)] /\ phi[0] = 0
  /\ \A b, c \in BlockIds(g) : phi[b] = phi[c] => b = c
  /\ \A b \in BlockIds(g) : \A c \in Succs(g, b) : phi[c] \in Succs(f, phi[b])
  /\ e \in [Positions(g) -> Positions(f)]
  /\ \A p \in Positions(g) :
       /\ e[p][1] = phi[p[1]]
       /\ At(g, p).dst = At(f, e[p]).dst
       /\ At(g, p).op \in {"load", "store"} =>
            At(f, e[p]).op = At(g, p).op /\ At(f, e[p]).slot = At(g, p).slot
  /\ \A p, q \in Positions(g) : p[1] = q[1] => (p[2] < q[2] <=> e[p][2] < e[q][2])

(* Of the operands, too, something that comes before is left.              *)
UsesCovered(f, g, e) ==
  \A q \in Positions(g) : e[q][1] \in ReachAvoiding(f, {0}, {}) =>
    \A t \in TempsIn(At(g, q)) : \E p \in DefsOf(g, t) : Before(f, e[p], e[q])

LEMMA EmbeddedBefore ==
  ASSUME NEW f, NEW g, NEW phi, NEW e, Embeds(f, g, phi, e),
         NEW p \in Positions(g), NEW q \in Positions(g)
  PROVE  /\ q[1] \in ReachAvoiding(g, {0}, {}) => e[q][1] \in ReachAvoiding(f, {0}, {})
         /\ Before(f, e[p], e[q]) => Before(g, p, q)
  <1>1. Laid(f) /\ Laid(g)
    BY DEF Embeds
  <1>2. p[1] \in BlockIds(g) /\ q[1] \in BlockIds(g)
    BY <1>1, PositionProperties
  <1>3. /\ Len(f.blocks) \in Nat \ {0} /\ Len(g.blocks) \in Nat \ {0} /\ Len(g.blocks) <= Len(f.blocks)
        /\ phi \in [BlockIds(g) -> BlockIds(f)] /\ phi[0] = 0
        /\ \A b \in BlockIds(g) : \A c \in Succs(g, b) : phi[c] \in Succs(f, phi[b])
    BY <1>1 DEF Embeds, Laid
  <1>4. \A b \in ReachAvoiding(g, {0}, {}) : phi[b] \in ReachAvoiding(f, {0}, {})
    <2>1. \A b \in BlockIds(g) : phi[b] \in {} => b \in {}
      OBVIOUS
    <2> QED
      BY <1>3, <2>1, PathsMap
  <1>5. \A b \in ReachAvoiding(g, {0}, {p[1]}) : phi[b] \in ReachAvoiding(f, {0}, {phi[p[1]]})
    <2>1. \A b \in BlockIds(g) : phi[b] \in {phi[p[1]]} => b \in {p[1]}
      BY <1>2 DEF Embeds
    <2> QED
      BY <1>3, <2>1, PathsMap
  <1>6. /\ e[p][1] = phi[p[1]] /\ e[q][1] = phi[q[1]]
        /\ p[1] = q[1] => (p[2] < q[2] <=> e[p][2] < e[q][2])
        /\ phi[p[1]] = phi[q[1]] => p[1] = q[1]
        /\ phi[p[1]] = 0 => p[1] = 0
    <2>1. 0 \in BlockIds(g) /\ phi[0] = 0
      BY <1>3 DEF BlockIds
    <2> QED
      BY <1>2, <2>1 DEF Embeds
  <1>7. ASSUME Before(f, e[p], e[q]) PROVE Before(g, p, q)
    <2>1. CASE p[1] = q[1]
      BY <1>6, <1>7, <2>1 DEF Before
    <2>2. CASE p[1] # q[1]
      <3>1. phi[p[1]] = 0 \/ phi[q[1]] \notin ReachAvoiding(f, {0}, {phi[p[1]]})
        BY <1>6, <1>7, <2>2 DEF Before
      <3>2. p[1] = 0 \/ q[1] \notin ReachAvoiding(g, {0}, {p[1]})
        BY <1>5, <1>6, <3>1
      <3> QED
        BY <2>2, <3>2 DEF Before
    <2> QED
      BY <2>1, <2>2
  <1> QED
    BY <1>4, <1>6, <1>7

LEMMA EmbeddedInjective ==
  ASSUME NEW f, NEW g, NEW phi, NEW e, Embeds(f, g, phi, e),
         NEW p \in Positions(g), NEW q \in Positions(g), e[p] = e[q]
  PROVE  p = q
  <1>1. /\ p = <<p[1], p[2]>> /\ q = <<q[1], q[2]>> /\ p[2] \in Nat /\ q[2] \in Nat
        /\ p[1] \in BlockIds(g) /\ q[1] \in BlockIds(g)
    BY PositionProperties DEF Embeds
  <1>2. phi[p[1]] = phi[q[1]]
    BY DEF Embeds
  <1>3. p[1] = q[1]
    BY <1>1, <1>2 DEF Embeds
  <1>4. Laid(f) /\ e[p] \in Positions(f)
    BY DEF Embeds
  <1>5. e[p][2] \in Nat
    BY <1>4, PositionProperties
  <1>6. ~(e[p][2] < e[q][2]) /\ ~(e[q][2] < e[p][2])
    BY <1>5
  <1>7. ~(p[2] < q[2]) /\ ~(q[2] < p[2])
    BY <1>3, <1>6, Zenon DEF Embeds
  <1> QED
    BY <1>1, <1>3, <1>7

(* What is left of a well-formed function has one definition per temp, all *)
(* before the uses, and its slots.                                         *)
LEMMA EmbeddedInherits ==
  ASSUME NEW f, NEW g, NEW phi, NEW e, Embeds(f, g, phi, e), UsesCovered(f, g, e),
         SingleAssignment(f), SlotsInRange(f)
  PROVE  SingleAssignment(g) /\ DefinedBeforeUse(g) /\ SlotsInRange(g)
  <1>1. \A p \in Positions(g) : e[p] \in Positions(f) /\ At(g, p).dst = At(f, e[p]).dst
    BY DEF Embeds
  <1>2. SingleAssignment(g)
    <2> SUFFICES ASSUME NEW p \in Positions(g), At(g, p).dst # -1
                 PROVE  At(g, p).dst \in 0 .. g.next_temp - 1 /\ DefsOf(g, At(g, p).dst) = {p}
      BY DEF SingleAssignment
    <2> DEFINE d == At(g, p).dst
    <2>1. d \in 0 .. f.next_temp - 1 /\ DefsOf(f, d) = {e[p]}
      BY <1>1 DEF SingleAssignment
    <2>2. ASSUME NEW q \in DefsOf(g, d) PROVE q = p
      <3>1. q \in Positions(g) /\ At(g, q).dst = d
        BY DEF DefsOf
      <3>2. e[q] \in DefsOf(f, d)
        BY <1>1, <3>1 DEF DefsOf
      <3>3. e[q] = e[p]
        BY <2>1, <3>2
      <3> QED
        BY <3>1, <3>3, EmbeddedInjective
    <2>3. p \in DefsOf(g, d)
      BY DEF DefsOf
    <2>4. g.next_temp = f.next_temp
      BY DEF Embeds
    <2> QED
      BY <2>1, <2>2, <2>3, <2>4
  <1>3. DefinedBeforeUse(g)
    <2>1. reachable_blocks(g) \subseteq ReachAvoiding(g, {0}, {})
      BY DEF reachable_blocks
    <2> SUFFICES ASSUME NEW q \in Positions(g), q[1] \in ReachAvoiding(g, {0}, {}), NEW t \in TempsIn(At(g, q))
                 PROVE  \E p \in DefsOf(g, t) : Before(g, p, q)
      BY <2>1 DEF DefinedBeforeUse
    <2>2. e[q][1] \in ReachAvoiding(f, {0}, {})
      BY EmbeddedBefore
    <2>3. PICK p \in DefsOf(g, t) : Before(f, e[p], e[q])
      BY <2>2 DEF UsesCovered
    <2>4. p \in Positions(g)
      BY DEF DefsOf
    <2> QED
      BY <2>3, <2>4, EmbeddedBefore
  <1>4. SlotsInRange(g)
    BY <1>1 DEF SlotsInRange, InstrsOf, Embeds
  <1> QED
    BY <1>2, <1>3, <1>4

-----------------------------------------------------------------------------
(* Functions made from functions.                                          *)

(* A function with other blocks is one.                                    *)
LEMMA OtherBlocks ==
  ASSUME NEW f, TypedFunction(f), NEW blocks, NEW n \in Nat \ {0}, blocks = [k \in 1 .. n |-> blocks[k]],
         \A k \in 1 .. n : IsSequence(blocks[k]) /\ \A i \in 1 .. Len(blocks[k]) : TypedInstr(blocks[k][i])
  PROVE  LET g == [f EXCEPT !.blocks = blocks]
         IN  /\ TypedFunction(g) /\ Laid(g) /\ g.blocks = blocks /\ Len(blocks) = n
             /\ g.next_temp = f.next_temp /\ g.num_slots = f.num_slots
             /\ (blocks = f.blocks => g = f)
  <1> DEFINE g == [f EXCEPT !.blocks = blocks]
  <1>1. f \in [name : {f.name}, num_params : Int, num_slots : Int, next_temp : Nat, blocks : {f.blocks}]
    BY DEF TypedFunction
  <1>2. /\ g \in [name : {g.name}, num_params : Int, num_slots : Int, next_temp : Nat, blocks : {g.blocks}]
        /\ g.blocks = blocks /\ g.next_temp = f.next_temp /\ g.num_slots = f.num_slots
        /\ (blocks = f.blocks => g = f)
    BY <1>1
  <1>3. IsSequence(blocks) /\ Len(blocks) = n /\ DOMAIN blocks = 1 .. n
    BY SequenceMade
  <1>4. \A k \in 1 .. n : DOMAIN blocks[k] = 1 .. Len(blocks[k])
    BY SequenceProperties
  <1>5. blocks # <<>>
    <2>1. Len(<<>>) = 0
      OBVIOUS
    <2> QED
      BY <1>3, <2>1
  <1>6. TypedFunction(g)
    <2> HIDE DEF g
    <2>1. \A k \in DOMAIN g.blocks :
            IsSequence(g.blocks[k]) /\ \A i \in DOMAIN g.blocks[k] : TypedInstr(g.blocks[k][i])
      BY <1>2, <1>3, <1>4
    <2>2. IsSequence(g.blocks) /\ g.blocks # <<>>
      BY <1>2, <1>3, <1>5
    <2>3. g \in [name : {g.name}, num_params : Int, num_slots : Int, next_temp : Nat, blocks : {g.blocks}]
      BY <1>2
    <2> QED
      BY <2>1, <2>2, <2>3, Zenon DEF TypedFunction
  <1> HIDE DEF g
  <1>7. Laid(g)
    BY <1>6, TypedIsLaid
  <1> QED
    BY <1>2, <1>3, <1>6, <1>7 DEF g

(* An instruction may take the place of another one if it has the same     *)
(* result, is a terminator only if that was the same one, and touches a    *)
(* slot only if that did.                                                  *)
Replaces(new, in) ==
  /\ new.dst = in.dst
  /\ op_is_terminator(new.op) \/ op_is_terminator(in.op) =>
       new.op = in.op /\ new.bb_true = in.bb_true /\ new.bb_false = in.bb_false
  /\ new.op \in {"load", "store"} => new.op = in.op /\ new.slot = in.slot

(* The blocks with some instructions replaced.                             *)
ReplacedIn(f, blocks) ==
  /\ blocks = [k \in 1 .. Len(f.blocks) |-> blocks[k]]
  /\ \A k \in 1 .. Len(f.blocks) :
       /\ blocks[k] = [i \in 1 .. Len(f.blocks[k]) |-> blocks[k][i]]
       /\ \A i \in 1 .. Len(f.blocks[k]) :
            TypedInstr(blocks[k][i]) /\ Replaces(blocks[k][i], f.blocks[k][i])

(* Every temp that an instruction uses is defined before it.               *)
UsesDefined(f, blocks) ==
  \A k \in 1 .. Len(f.blocks) : \A i \in 1 .. Len(f.blocks[k]) :
    k - 1 \in ReachAvoiding(f, {0}, {}) =>
      \A t \in TempsIn(blocks[k][i]) : \E p \in DefsOf(f, t) : Before(f, p, <<k - 1, i>>)

LEMMA ReplacedIsSound ==
  ASSUME NEW f, Sound(f), NEW blocks, ReplacedIn(f, blocks), UsesDefined(f, blocks)
  PROVE  Sound([f EXCEPT !.blocks = blocks])
  <1> DEFINE g == [f EXCEPT !.blocks = blocks]
             n == Len(f.blocks)
             phi == [b \in BlockIds(g) |-> b]
             e == [p \in Positions(g) |-> p]
  <1>0. Laid(f) /\ TypedFunction(f) /\ WellFormed(f)
    BY TypedIsLaid DEF Sound
  <1>1. /\ n \in Nat \ {0} /\ blocks = [k \in 1 .. n |-> blocks[k]]
        /\ \A k \in 1 .. n : /\ IsSequence(blocks[k]) /\ Len(blocks[k]) = Len(f.blocks[k])
                             /\ \A i \in 1 .. Len(blocks[k]) :
                                  TypedInstr(blocks[k][i]) /\ Replaces(blocks[k][i], f.blocks[k][i])
    <2>1. ASSUME NEW k \in 1 .. n
          PROVE  IsSequence(blocks[k]) /\ Len(blocks[k]) = Len(f.blocks[k])
      <3>1. Len(f.blocks[k]) \in Nat /\ blocks[k] = [i \in 1 .. Len(f.blocks[k]) |-> blocks[k][i]]
        BY <1>0 DEF Laid, ReplacedIn
      <3> QED
        BY <3>1, SequenceMade
    <2> QED
      BY <1>0, <2>1 DEF Laid, ReplacedIn
  <1>2. /\ TypedFunction(g) /\ Laid(g) /\ g.blocks = blocks /\ Len(g.blocks) = n
        /\ g.next_temp = f.next_temp /\ g.num_slots = f.num_slots
    <2>1. \A k \in 1 .. n : IsSequence(blocks[k]) /\ \A i \in 1 .. Len(blocks[k]) : TypedInstr(blocks[k][i])
      BY <1>1
    <2> HIDE DEF n, g
    <2>2. /\ TypedFunction(g) /\ Laid(g) /\ g.blocks = blocks /\ Len(blocks) = n
          /\ g.next_temp = f.next_temp /\ g.num_slots = f.num_slots
      BY <1>0, <1>1, <2>1, OtherBlocks, ZenonT(40) DEF g
    <2> QED
      BY <2>2
  <1> HIDE DEF g
  <1>3. BlockIds(g) = BlockIds(f) /\ \A k \in 1 .. n : Len(g.blocks[k]) = Len(f.blocks[k])
    BY <1>1, <1>2 DEF BlockIds
  <1>4. \A p : p \in Positions(g) <=> p \in Positions(f)
    <2>1. ASSUME NEW p \in Positions(g) PROVE p \in Positions(f)
      <3>1. p = <<p[1], p[2]>> /\ p[1] \in Nat /\ p[1] + 1 \in 1 .. n /\ p[2] \in 1 .. Len(f.blocks[p[1] + 1])
        BY <1>2, <1>3, PositionProperties
      <3>2. <<(p[1] + 1) - 1, p[2]>> \in Positions(f)
        BY <1>0, <3>1, PositionProperties
      <3> QED
        BY <3>1, <3>2
    <2>2. ASSUME NEW p \in Positions(f) PROVE p \in Positions(g)
      <3>1. p = <<p[1], p[2]>> /\ p[1] \in Nat /\ p[1] + 1 \in 1 .. n /\ p[2] \in 1 .. Len(f.blocks[p[1] + 1])
        BY <1>0, PositionProperties
      <3>2. <<(p[1] + 1) - 1, p[2]>> \in Positions(g)
        BY <1>2, <1>3, <3>1, PositionProperties
      <3> QED
        BY <3>1, <3>2
    <2> QED
      BY <2>1, <2>2
  <1>5. ASSUME NEW p \in Positions(g)
        PROVE  Replaces(At(g, p), At(f, p)) /\ p \in Positions(f)
    <2>1. p \in Positions(f)
      BY <1>4
    <2>2. p[1] + 1 \in 1 .. n /\ p[2] \in 1 .. Len(blocks[p[1] + 1])
      BY <1>2, PositionProperties
    <2>3. At(g, p) = blocks[p[1] + 1][p[2]] /\ At(f, p) = f.blocks[p[1] + 1][p[2]]
      BY <1>0, <1>2, <2>1, PositionProperties
    <2> QED
      BY <1>1, <2>1, <2>2, <2>3
  <1>6. ASSUME NEW b \in BlockIds(g)
        PROVE  /\ Block(g, b) # <<>>
               /\ Len(Block(g, b)) = Len(Block(f, b)) /\ DOMAIN Block(g, b) = DOMAIN Block(f, b)
               /\ \A i \in DOMAIN Block(g, b) : Replaces(Block(g, b)[i], Block(f, b)[i])
               /\ Replaces(Last(Block(g, b)), Last(Block(f, b)))
               /\ op_is_terminator(Last(Block(f, b)).op)
    <2>1. b + 1 \in 1 .. n /\ Block(g, b) = blocks[b + 1] /\ Block(f, b) = f.blocks[b + 1] /\ b \in BlockIds(f)
      BY <1>0, <1>2, <1>3, PositionProperties
    <2>2. Len(blocks[b + 1]) = Len(f.blocks[b + 1]) /\ DOMAIN f.blocks[b + 1] = 1 .. Len(f.blocks[b + 1])
          /\ DOMAIN blocks[b + 1] = 1 .. Len(blocks[b + 1]) /\ Len(f.blocks[b + 1]) \in Nat
      BY <1>0, <1>1, <2>1, SequenceProperties DEF Laid
    <2>3. f.blocks[b + 1] # <<>>
      BY <1>0, <2>1 DEF WellFormed, CFGWellFormed
    <2>4. IsSequence(f.blocks[b + 1])
      BY <1>0, <2>1 DEF TypedFunction, Laid
    <2>5. Len(f.blocks[b + 1]) # 0
      BY <2>3, <2>4, EmptySeq DEF IsSequence
    <2>6. blocks[b + 1] # <<>>
      <3>1. Len(<<>>) = 0
        OBVIOUS
      <3> QED
        BY <2>2, <2>5, <3>1
    <2>7. op_is_terminator(f.blocks[b + 1][Len(f.blocks[b + 1])].op)
      BY <1>0, <2>1, <2>2, <2>5 DEF WellFormed, CFGWellFormed
    <2>8. Len(f.blocks[b + 1]) \in 1 .. Len(blocks[b + 1])
      BY <2>2, <2>5
    <2>9. \A i \in 1 .. Len(blocks[b + 1]) : Replaces(blocks[b + 1][i], f.blocks[b + 1][i])
      BY <1>1, <2>1
    <2>10. /\ Last(Block(g, b)) = blocks[b + 1][Len(f.blocks[b + 1])]
           /\ Last(Block(f, b)) = f.blocks[b + 1][Len(f.blocks[b + 1])]
      BY <2>1, <2>2 DEF Last
    <2> QED
      BY <2>1, <2>2, <2>6, <2>7, <2>8, <2>9, <2>10
  <1>7. \A b \in BlockIds(g) : Succs(g, b) = Succs(f, b)
    BY <1>3, <1>6 DEF Succs, Replaces
  <1>8. CFGWellFormed(g)
    <2> SUFFICES ASSUME NEW b \in BlockIds(g)
                 PROVE  /\ Block(g, b) # <<>>
                        /\ \A i \in DOMAIN Block(g, b) : op_is_terminator(Block(g, b)[i].op) <=> i = Len(Block(g, b))
                        /\ Last(Block(g, b)).op \in {"br", "condbr"} => Last(Block(g, b)).bb_true \in BlockIds(g)
                        /\ Last(Block(g, b)).op = "condbr" => Last(Block(g, b)).bb_false \in BlockIds(g)
      BY DEF CFGWellFormed
    <2>1. b \in BlockIds(f)
      BY <1>3
    <2>2. \A i \in DOMAIN Block(f, b) : op_is_terminator(Block(f, b)[i].op) <=> i = Len(Block(f, b))
      BY <1>0, <2>1 DEF WellFormed, CFGWellFormed
    <2>3. /\ Last(Block(f, b)).op \in {"br", "condbr"} => Last(Block(f, b)).bb_true \in BlockIds(f)
          /\ Last(Block(f, b)).op = "condbr" => Last(Block(f, b)).bb_false \in BlockIds(f)
      BY <1>0, <2>1 DEF WellFormed, CFGWellFormed
    <2> QED
      BY <1>3, <1>6, <2>2, <2>3 DEF Replaces
  <1>9. Embeds(f, g, phi, e)
    <2>1. \A b \in BlockIds(g) : Succs(g, b) \subseteq BlockIds(g)
      BY DEF Succs
    <2>2. 0 \in BlockIds(g)
      BY <1>1, <1>3 DEF BlockIds
    <2>3. phi \in [BlockIds(g) -> BlockIds(f)] /\ phi[0] = 0 /\ \A b \in BlockIds(g) : phi[b] = b
      BY <1>3, <2>2
    <2>4. e \in [Positions(g) -> Positions(f)] /\ \A p \in Positions(g) : e[p] = p
      BY <1>5
    <2>5. \A p \in Positions(g) : p[1] \in BlockIds(g)
      BY <1>2, PositionProperties
    <2> HIDE DEF phi, e
    <2>6. \A b \in BlockIds(g) : \A c \in Succs(g, b) : phi[c] \in Succs(f, phi[b])
      BY <1>7, <2>1, <2>3
    <2>7. \A p \in Positions(g) :
            /\ e[p][1] = phi[p[1]]
            /\ At(g, p).dst = At(f, e[p]).dst
            /\ At(g, p).op \in {"load", "store"} =>
                 At(f, e[p]).op = At(g, p).op /\ At(f, e[p]).slot = At(g, p).slot
      BY <1>5, <2>3, <2>4, <2>5 DEF Replaces
    <2>8. \A p, q \in Positions(g) : p[1] = q[1] => (p[2] < q[2] <=> e[p][2] < e[q][2])
      BY <2>4
    <2>9. Len(g.blocks) <= Len(f.blocks)
      BY <1>1, <1>2
    <2>10. \A b, c \in BlockIds(g) : phi[b] = phi[c] => b = c
      BY <2>3
    <2> QED
      BY <1>0, <1>2, <2>3, <2>4, <2>6, <2>7, <2>8, <2>9, <2>10 DEF Embeds
  <1>10. UsesCovered(f, g, e)
    <2> SUFFICES ASSUME NEW q \in Positions(g), q[1] \in ReachAvoiding(f, {0}, {}), NEW t \in TempsIn(At(g, q))
                 PROVE  \E p \in DefsOf(g, t) : Before(f, e[p], q)
      BY DEF UsesCovered
    <2>1. q \in Positions(f) /\ q[1] + 1 \in 1 .. n /\ q[2] \in 1 .. Len(f.blocks[q[1] + 1])
          /\ At(g, q) = blocks[q[1] + 1][q[2]] /\ (q[1] + 1) - 1 = q[1] /\ q = <<q[1], q[2]>>
      BY <1>0, <1>2, <1>3, <1>4, PositionProperties
    <2>2. PICK p \in DefsOf(f, t) : Before(f, p, q)
      BY <2>1 DEF UsesDefined
    <2>3. p \in DefsOf(g, t)
      BY <1>4, <1>5 DEF DefsOf, Replaces
    <2>4. p \in Positions(g)
      BY <2>3 DEF DefsOf
    <2> QED
      BY <2>2, <2>3, <2>4
  <1> HIDE DEF e, phi
  <1>11. SingleAssignment(g) /\ DefinedBeforeUse(g) /\ SlotsInRange(g)
    BY <1>0, <1>9, <1>10, EmbeddedInherits DEF WellFormed
  <1> QED
    BY <1>2, <1>8, <1>11 DEF Sound, WellFormed, g

-----------------------------------------------------------------------------
(* Sweeping.                                                               *)

(* A list of all the numbers up to n in their order is the identity.       *)
LEMMA InOrderOfAll ==
  ASSUME NEW n \in Nat
  PROVE  InOrder(1 .. n) = [i \in 1 .. n |-> i]
  <1>1. IsFiniteSet(1 .. n) /\ Cardinality(1 .. n) = n
    BY FS_Interval
  <1>2. /\ InOrder(1 .. n) \in [1 .. n -> 1 .. n]
        /\ \A i \in 1 .. n : Rank(1 .. n, InOrder(1 .. n)[i]) = i - 1
    <2>1. 1 .. n \in SUBSET Int
      OBVIOUS
    <2> QED
      BY <1>1, <2>1, InOrderProperties
  <1>3. \A k \in 1 .. n : Rank(1 .. n, k) = k - 1
    <2> TAKE k \in 1 .. n
    <2>1. { c \in 1 .. n : c < k } = 1 .. k - 1
      OBVIOUS
    <2>2. Cardinality(1 .. k - 1) = k - 1
      BY FS_Interval
    <2> QED
      BY <2>1, <2>2 DEF Rank
  <1>4. \A i \in 1 .. n : InOrder(1 .. n)[i] = i
    <2> TAKE i \in 1 .. n
    <2>1. InOrder(1 .. n)[i] \in 1 .. n
      BY <1>2
    <2>2. InOrder(1 .. n)[i] - 1 = i - 1
      BY <1>2, <1>3, <2>1
    <2> QED
      BY <2>1, <2>2
  <1> QED
    BY <1>2, <1>4

(* The greatest number of a set comes last.                                *)
LEMMA InOrderLast ==
  ASSUME NEW S \in SUBSET Int, IsFiniteSet(S), NEW m \in S, \A k \in S : k <= m
  PROVE  Cardinality(S) \in Nat \ {0} /\ InOrder(S)[Cardinality(S)] = m
  <1> DEFINE n == Cardinality(S)
             s == InOrder(S)
             r == Rank(S, m) + 1
  <1>1. /\ n \in Nat /\ s \in [1 .. n -> S]
        /\ \A i, j \in 1 .. n : i < j <=> s[i] < s[j]
        /\ r \in 1 .. n /\ s[r] = m
    BY InOrderProperties
  <1> HIDE DEF n, s, r
  <1>2. n \in Nat \ {0} /\ n \in 1 .. n
    BY <1>1
  <1>3. s[n] \in S /\ s[n] \in Int /\ m \in Int
    BY <1>1, <1>2
  <1>4. ~(s[r] < s[n])
    BY <1>1, <1>3
  <1>5. ~(r < n)
    BY <1>1, <1>2, <1>4
  <1>6. r = n
    BY <1>1, <1>5
  <1> QED
    BY <1>1, <1>2, <1>6 DEF n, s

(* The survivors of a block, when no terminator is dead.                   *)
LEMMA SurvivorsProperties ==
  ASSUME NEW f, Sound(f), NEW dead, \A p \in dead \cap Positions(f) : ~op_is_terminator(At(f, p).op),
         NEW k \in 1 .. Len(f.blocks)
  PROVE  LET S == Survivors(f, dead, k)
         IN  /\ S \in SUBSET Int /\ IsFiniteSet(S) /\ S \subseteq 1 .. Len(f.blocks[k])
             /\ Cardinality(S) \in Nat \ {0} /\ Cardinality(S) <= Len(f.blocks[k])
             /\ Cardinality(S) = Len(f.blocks[k]) => S = 1 .. Len(f.blocks[k])
             /\ InOrder(S)[Cardinality(S)] = Len(f.blocks[k])
             /\ Len(f.blocks[k]) \in S
             /\ \A i \in 1 .. Len(f.blocks[k]) : op_is_terminator(f.blocks[k][i].op) <=> i = Len(f.blocks[k])
  <1> DEFINE S == Survivors(f, dead, k)
             L == Len(f.blocks[k])
  <1>1. Laid(f) /\ L \in Nat /\ DOMAIN f.blocks[k] = 1 .. L
    BY TypedIsLaid DEF Sound, Laid
  <1>2. k - 1 \in BlockIds(f) /\ Block(f, k - 1) = f.blocks[k]
    BY <1>1, PositionProperties DEF Block
  <1>3. f.blocks[k] # <<>> /\ \A i \in 1 .. L : op_is_terminator(f.blocks[k][i].op) <=> i = L
    BY <1>1, <1>2 DEF Sound, WellFormed, CFGWellFormed
  <1>4. L # 0
    <2>1. IsSequence(f.blocks[k])
      BY <1>1 DEF Sound, TypedFunction, Laid
    <2> QED
      BY <1>3, <2>1, EmptySeq DEF IsSequence
  <1>5. IsFiniteSet(1 .. L) /\ Cardinality(1 .. L) = L
    <2> HIDE DEF L
    <2>1. L \in Nat /\ L \in Int /\ 1 \in Int
      BY <1>1
    <2> QED
      BY <2>1, FS_Interval
  <1>6. S \subseteq 1 .. L
    BY <1>1 DEF Survivors
  <1>7. L \in S
    <2>1. L \in 1 .. L
      BY <1>1, <1>4
    <2>2. <<k - 1, L>> \in Positions(f) /\ At(f, <<k - 1, L>>) = f.blocks[k][L]
      BY <1>1, <2>1, PositionProperties
    <2>3. <<k - 1, L>> \notin dead
      BY <1>3, <2>1, <2>2
    <2> QED
      BY <1>1, <2>1, <2>3 DEF Survivors
  <1> HIDE DEF S, L
  <1>8. S \in SUBSET Int /\ \A i \in S : i <= L
    BY <1>1, <1>6
  <1>9. IsFiniteSet(S) /\ Cardinality(S) <= L /\ (Cardinality(S) = L => S = 1 .. L)
    BY <1>5, <1>6, FS_Subset
  <1>10. Cardinality(S) \in Nat \ {0} /\ InOrder(S)[Cardinality(S)] = L
    BY <1>7, <1>8, <1>9, InOrderLast
  <1> QED
    BY <1>3, <1>6, <1>7, <1>8, <1>9, <1>10 DEF S, L

(* An operation that may be deleted: not a terminator, and none of the     *)
(* instructions left uses its result.                                      *)
Deletable(f, dead) ==
  /\ \A p \in dead \cap Positions(f) : ~op_is_terminator(At(f, p).op)
  /\ \A q \in Positions(f) \ dead : \A t \in TempsIn(At(f, q)) : \A p \in DefsOf(f, t) : p \notin dead

LEMMA SweepKeeps ==
  ASSUME NEW f, Sound(f), NEW dead, Deletable(f, dead)
  PROVE  /\ Sound(sweep_dead(f, dead))
         /\ Len(sweep_dead(f, dead).blocks) = Len(f.blocks)
         /\ \A k \in 1 .. Len(f.blocks) : /\ Len(f.blocks[k]) \in Nat /\ Len(sweep_dead(f, dead).blocks[k]) \in Nat
                                          /\ Len(sweep_dead(f, dead).blocks[k]) <= Len(f.blocks[k])
         /\ dead \cap Positions(f) = {} => sweep_dead(f, dead) = f
         /\ dead \cap Positions(f) # {} =>
              \E k \in 1 .. Len(f.blocks) : Len(sweep_dead(f, dead).blocks[k]) < Len(f.blocks[k])
  <1> DEFINE n == Len(f.blocks)
             S(k) == Survivors(f, dead, k)
             kept(k) == InOrder(S(k))
             blocks == [k \in DOMAIN f.blocks |-> [j \in DOMAIN kept(k) |-> f.blocks[k][kept(k)[j]]]]
             g == [f EXCEPT !.blocks = blocks]
             phi == [b \in BlockIds(g) |-> b]
             e == [p \in Positions(g) |-> <<p[1], kept(p[1] + 1)[p[2]]>>]
  <1>0. g = sweep_dead(f, dead)
    BY DEF sweep_dead
  <1>1. /\ Laid(f) /\ TypedFunction(f) /\ WellFormed(f) /\ n \in Nat \ {0} /\ DOMAIN f.blocks = 1 .. n
        /\ \A k \in 1 .. n : Len(f.blocks[k]) \in Nat /\ DOMAIN f.blocks[k] = 1 .. Len(f.blocks[k])
    BY TypedIsLaid DEF Sound, Laid
  <1>2. ASSUME NEW k \in 1 .. n
        PROVE  /\ S(k) \in SUBSET Int /\ IsFiniteSet(S(k)) /\ S(k) \subseteq 1 .. Len(f.blocks[k])
               /\ Cardinality(S(k)) \in Nat \ {0} /\ Cardinality(S(k)) <= Len(f.blocks[k])
               /\ Cardinality(S(k)) = Len(f.blocks[k]) => S(k) = 1 .. Len(f.blocks[k])
               /\ kept(k)[Cardinality(S(k))] = Len(f.blocks[k])
               /\ \A i \in 1 .. Len(f.blocks[k]) : op_is_terminator(f.blocks[k][i].op) <=> i = Len(f.blocks[k])
    BY SurvivorsProperties DEF Deletable
  <1>3. ASSUME NEW k \in 1 .. n
        PROVE  /\ kept(k) \in [1 .. Cardinality(S(k)) -> S(k)]
               /\ \A i, j \in 1 .. Cardinality(S(k)) : i < j <=> kept(k)[i] < kept(k)[j]
               /\ \A x \in S(k) : \E i \in 1 .. Cardinality(S(k)) : kept(k)[i] = x
    BY <1>2, InOrderProperties
  <1> DEFINE card(k) == Cardinality(S(k))
  <1>4. ASSUME NEW k \in 1 .. n
        PROVE  /\ DOMAIN kept(k) = 1 .. card(k) /\ DOMAIN kept(k) = 1 .. Cardinality(S(k))
               /\ \A j \in 1 .. card(k) : kept(k)[j] \in 1 .. Len(f.blocks[k]) /\ kept(k)[j] \in S(k)
               /\ \A i \in 1 .. Len(f.blocks[k]) : i \in S(k) <=> <<k - 1, i>> \notin dead
    <2>1. kept(k) \in [1 .. Cardinality(S(k)) -> S(k)]
      BY <1>3
    <2>2. \A i \in 1 .. Len(f.blocks[k]) : i \in S(k) <=> <<k - 1, i>> \notin dead
      BY <1>1 DEF Survivors
    <2>3. S(k) \subseteq 1 .. Len(f.blocks[k])
      BY <1>2
    <2> HIDE DEF kept, S
    <2> QED
      BY <2>1, <2>2, <2>3
  <1> HIDE DEF S, kept, g
  <1>5. /\ blocks = [k \in 1 .. n |-> blocks[k]]
        /\ \A k \in 1 .. n : blocks[k] = [j \in 1 .. card(k) |-> f.blocks[k][kept(k)[j]]]
    BY <1>1, <1>4
  <1> HIDE DEF blocks
  <1>6. ASSUME NEW k \in 1 .. n
        PROVE  /\ IsSequence(blocks[k]) /\ Len(blocks[k]) = card(k) /\ DOMAIN blocks[k] = 1 .. card(k)
               /\ \A j \in 1 .. card(k) : blocks[k][j] = f.blocks[k][kept(k)[j]]
               /\ \A j \in 1 .. card(k) : TypedInstr(blocks[k][j])
    <2>1. blocks[k] = [j \in 1 .. card(k) |-> f.blocks[k][kept(k)[j]]]
      BY <1>5
    <2> DEFINE s == blocks[k]
    <2> HIDE DEF s
    <2>2. s = [j \in 1 .. card(k) |-> s[j]] /\ \A j \in 1 .. card(k) : s[j] = f.blocks[k][kept(k)[j]]
      BY <2>1 DEF s
    <2>3. IsSequence(s) /\ Len(s) = card(k) /\ DOMAIN s = 1 .. card(k)
      BY <1>2, <2>2, SequenceMade
    <2>4. \A i \in 1 .. Len(f.blocks[k]) : TypedInstr(f.blocks[k][i])
      BY <1>1 DEF TypedFunction
    <2> QED
      BY <1>4, <2>2, <2>3, <2>4 DEF s
  <1> HIDE DEF card
  <1>7. /\ TypedFunction(g) /\ Laid(g) /\ g.blocks = blocks /\ Len(g.blocks) = n
        /\ g.next_temp = f.next_temp /\ g.num_slots = f.num_slots /\ (blocks = f.blocks => g = f)
    <2>1. \A k \in 1 .. n : IsSequence(blocks[k]) /\ \A i \in 1 .. Len(blocks[k]) : TypedInstr(blocks[k][i])
      BY <1>6
    <2> HIDE DEF n
    <2>2. /\ TypedFunction(g) /\ Laid(g) /\ g.blocks = blocks /\ Len(blocks) = n
          /\ g.next_temp = f.next_temp /\ g.num_slots = f.num_slots /\ (blocks = f.blocks => g = f)
      BY <1>1, <1>5, <2>1, OtherBlocks, Zenon DEF g
    <2> QED
      BY <2>2
  <1>8. BlockIds(g) = BlockIds(f) /\ \A b \in BlockIds(f) : b \in Nat /\ b + 1 \in 1 .. n /\ (b + 1) - 1 = b
    BY <1>1, <1>7 DEF BlockIds
  <1>9. ASSUME NEW b \in BlockIds(g)
        PROVE  /\ Block(g, b) = blocks[b + 1] /\ Block(f, b) = f.blocks[b + 1]
               /\ Block(g, b) # <<>> /\ Last(Block(g, b)) = Last(Block(f, b))
    <2>1. b + 1 \in 1 .. n /\ Block(g, b) = blocks[b + 1] /\ Block(f, b) = f.blocks[b + 1]
      BY <1>7, <1>8 DEF Block
    <2>2. card(b + 1) \in Nat \ {0} /\ kept(b + 1)[card(b + 1)] = Len(f.blocks[b + 1])
      BY <1>2, <2>1 DEF card
    <2>3. Len(blocks[b + 1]) = card(b + 1) /\ blocks[b + 1][card(b + 1)] = f.blocks[b + 1][kept(b + 1)[card(b + 1)]]
      BY <1>6, <2>1, <2>2
    <2>4. blocks[b + 1] # <<>>
      <3>1. Len(<<>>) = 0
        OBVIOUS
      <3> QED
        BY <2>2, <2>3, <3>1
    <2> QED
      BY <2>1, <2>2, <2>3, <2>4 DEF Last
  <1>10. CFGWellFormed(g)
    <2> SUFFICES ASSUME NEW b \in BlockIds(g)
                 PROVE  /\ Block(g, b) # <<>>
                        /\ \A i \in DOMAIN Block(g, b) : op_is_terminator(Block(g, b)[i].op) <=> i = Len(Block(g, b))
                        /\ Last(Block(g, b)).op \in {"br", "condbr"} => Last(Block(g, b)).bb_true \in BlockIds(g)
                        /\ Last(Block(g, b)).op = "condbr" => Last(Block(g, b)).bb_false \in BlockIds(g)
      BY DEF CFGWellFormed
    <2>1. /\ Last(Block(f, b)).op \in {"br", "condbr"} => Last(Block(f, b)).bb_true \in BlockIds(f)
          /\ Last(Block(f, b)).op = "condbr" => Last(Block(f, b)).bb_false \in BlockIds(f)
      BY <1>1, <1>8 DEF WellFormed, CFGWellFormed
    <2>2. ASSUME NEW i \in DOMAIN Block(g, b)
          PROVE  op_is_terminator(Block(g, b)[i].op) <=> i = Len(Block(g, b))
      <3> DEFINE k == b + 1
                 L == Len(f.blocks[k])
      <3>1. k \in 1 .. n /\ Block(g, b) = blocks[k]
        BY <1>8, <1>9
      <3> HIDE DEF k
      <3>2. /\ i \in 1 .. card(k) /\ card(k) \in Nat \ {0} /\ Len(blocks[k]) = card(k)
            /\ blocks[k][i] = f.blocks[k][kept(k)[i]] /\ kept(k)[card(k)] = L
            /\ kept(k)[i] \in 1 .. L /\ L \in Nat
        BY <1>1, <1>2, <1>4, <1>6, <2>2, <3>1 DEF card
      <3>3. op_is_terminator(blocks[k][i].op) <=> kept(k)[i] = L
        BY <1>2, <3>1, <3>2
      <3>4. i < card(k) <=> kept(k)[i] < kept(k)[card(k)]
        <4>1. card(k) \in 1 .. card(k)
          BY <3>2
        <4> QED
          BY <1>3, <3>1, <3>2, <4>1 DEF card
      <3> HIDE DEF L
      <3>5. i = card(k) <=> kept(k)[i] = L
        BY <3>2, <3>4
      <3> QED
        BY <3>1, <3>2, <3>3, <3>5
    <2> QED
      BY <1>8, <1>9, <2>1, <2>2
  <1>11. \A b \in BlockIds(g) : Succs(g, b) = Succs(f, b)
    BY <1>8, <1>9 DEF Succs
  <1>12. ASSUME NEW p \in Positions(g)
         PROVE  /\ p[1] \in BlockIds(g) /\ p[1] + 1 \in 1 .. n /\ p[2] \in 1 .. card(p[1] + 1) /\ p[2] \in Nat
                /\ e[p] = <<p[1], kept(p[1] + 1)[p[2]]>> /\ e[p][1] = p[1] /\ e[p][2] = kept(p[1] + 1)[p[2]]
                /\ e[p] \in Positions(f) /\ At(g, p) = At(f, e[p]) /\ e[p] \notin dead
    <2>1. /\ p[1] \in BlockIds(g) /\ p[1] \in Nat /\ p[1] + 1 \in 1 .. n
          /\ p[2] \in 1 .. Len(blocks[p[1] + 1]) /\ p[2] \in Nat /\ At(g, p) = blocks[p[1] + 1][p[2]]
      BY <1>7, PositionProperties
    <2> DEFINE k == p[1] + 1
               i == p[2]
    <2>2. k \in 1 .. n /\ i \in 1 .. card(k) /\ At(g, p) = blocks[k][i] /\ k - 1 = p[1]
      <3>1. k \in 1 .. n /\ i \in 1 .. Len(blocks[k]) /\ At(g, p) = blocks[k][i] /\ k - 1 = p[1]
        BY <2>1
      <3> HIDE DEF k, i
      <3> QED
        BY <1>6, <3>1
    <2>3. e[p] = <<p[1], kept(k)[i]>>
      OBVIOUS
    <2> HIDE DEF k, e
    <2>4. kept(k)[i] \in 1 .. Len(f.blocks[k]) /\ kept(k)[i] \in S(k)
      BY <1>4, <2>2
    <2>5. <<k - 1, kept(k)[i]>> \in Positions(f) /\ At(f, <<k - 1, kept(k)[i]>>) = f.blocks[k][kept(k)[i]]
      BY <1>1, <2>2, <2>4, PositionProperties
    <2>6. <<k - 1, kept(k)[i]>> \notin dead
      BY <1>4, <2>2, <2>4
    <2>7. At(g, p) = At(f, e[p])
      BY <1>6, <2>2, <2>3, <2>5
    <2> QED
      BY <2>1, <2>2, <2>3, <2>5, <2>6, <2>7 DEF k
  <1>13. \A p, q \in Positions(g) : p[1] = q[1] => (p[2] < q[2] <=> e[p][2] < e[q][2])
    <2> SUFFICES ASSUME NEW p \in Positions(g), NEW q \in Positions(g), p[1] = q[1]
                 PROVE  p[2] < q[2] <=> e[p][2] < e[q][2]
      OBVIOUS
    <2> DEFINE k == p[1] + 1
    <2>1. k \in 1 .. n /\ p[2] \in 1 .. card(k) /\ q[2] \in 1 .. card(k)
          /\ e[p][2] = kept(k)[p[2]] /\ e[q][2] = kept(k)[q[2]]
      BY <1>12
    <2> HIDE DEF k, e
    <2> QED
      BY <1>3, <2>1 DEF card
  <1>14. Embeds(f, g, phi, e)
    <2>1. phi \in [BlockIds(g) -> BlockIds(f)] /\ phi[0] = 0 /\ \A b \in BlockIds(g) : phi[b] = b
      <3>1. 0 \in BlockIds(g)
        BY <1>1, <1>7 DEF BlockIds
      <3> QED
        BY <1>8, <3>1
    <2>2. e \in [Positions(g) -> Positions(f)]
      BY <1>12
    <2> HIDE DEF phi, e
    <2>3. \A b \in BlockIds(g) : \A c \in Succs(g, b) : phi[c] \in Succs(f, phi[b])
      <3>1. \A b \in BlockIds(g) : Succs(g, b) \subseteq BlockIds(g)
        BY DEF Succs
      <3> QED
        BY <1>11, <2>1, <3>1
    <2>4. \A p \in Positions(g) :
            /\ e[p][1] = phi[p[1]]
            /\ At(g, p).dst = At(f, e[p]).dst
            /\ At(g, p).op \in {"load", "store"} =>
                 At(f, e[p]).op = At(g, p).op /\ At(f, e[p]).slot = At(g, p).slot
      BY <1>12, <2>1
    <2>5. \A b, c \in BlockIds(g) : phi[b] = phi[c] => b = c
      BY <2>1
    <2>6. Len(g.blocks) <= Len(f.blocks)
      BY <1>1, <1>7
    <2> QED
      BY <1>1, <1>7, <1>13, <2>1, <2>2, <2>3, <2>4, <2>5, <2>6 DEF Embeds
  <1>15. UsesCovered(f, g, e)
    <2> SUFFICES ASSUME NEW q \in Positions(g), e[q][1] \in ReachAvoiding(f, {0}, {}), NEW t \in TempsIn(At(g, q))
                 PROVE  \E p \in DefsOf(g, t) : Before(f, e[p], e[q])
      BY DEF UsesCovered
    <2>1. e[q] \in Positions(f) /\ e[q] \notin dead /\ t \in TempsIn(At(f, e[q]))
      BY <1>12
    <2>2. PICK r \in DefsOf(f, t) : Before(f, r, e[q])
      <3>1. e[q][1] \in reachable_blocks(f)
        BY <1>1 DEF reachable_blocks, TypedFunction
      <3> HIDE DEF e
      <3> QED
        BY <1>1, <2>1, <3>1 DEF WellFormed, DefinedBeforeUse
    <2>3. r \in Positions(f) /\ At(f, r).dst = t /\ r \notin dead
      BY <2>1, <2>2 DEF DefsOf, Deletable
    <2>4. r = <<r[1], r[2]>> /\ r[1] \in Nat /\ r[1] + 1 \in 1 .. n /\ r[2] \in 1 .. Len(f.blocks[r[1] + 1])
      BY <1>1, <2>3, PositionProperties
    <2> DEFINE k == r[1] + 1
    <2>5. r[2] \in S(k)
      <3>1. k - 1 = r[1]
        BY <2>4
      <3> QED
        BY <1>4, <2>3, <2>4, <3>1
    <2>6. PICK i \in 1 .. card(k) : kept(k)[i] = r[2]
      BY <1>3, <2>4, <2>5 DEF card
    <2> DEFINE p == <<r[1], i>>
    <2>7. p \in Positions(g)
      <3>1. k \in 1 .. Len(g.blocks) /\ i \in 1 .. Len(g.blocks[k]) /\ k - 1 = r[1]
        <4>1. k \in 1 .. n /\ k - 1 = r[1]
          BY <2>4
        <4> QED
          BY <1>6, <1>7, <2>6, <4>1, SMTT(30)
      <3> QED
        BY <1>7, <3>1, PositionProperties
    <2>8. e[p] = r
      BY <2>4, <2>6, <2>7
    <2>9. p \in DefsOf(g, t)
      BY <1>12, <2>3, <2>7, <2>8 DEF DefsOf
    <2> QED
      BY <2>2, <2>8, <2>9
  <1>16. Sound(g)
    <2> HIDE DEF phi, e
    <2>1. SingleAssignment(g) /\ DefinedBeforeUse(g) /\ SlotsInRange(g)
      BY <1>1, <1>14, <1>15, EmbeddedInherits DEF WellFormed
    <2> QED
      BY <1>7, <1>10, <2>1 DEF Sound, WellFormed
  <1>17. ASSUME dead \cap Positions(f) = {}
         PROVE  blocks = f.blocks
    <2>1. ASSUME NEW k \in 1 .. n
          PROVE  blocks[k] = f.blocks[k]
      <3>1. S(k) = 1 .. Len(f.blocks[k])
        <4>1. \A i \in 1 .. Len(f.blocks[k]) : <<k - 1, i>> \in Positions(f)
          BY <1>1, PositionProperties
        <4> QED
          BY <1>2, <1>4, <1>17, <4>1
      <3>2. kept(k) = [i \in 1 .. Len(f.blocks[k]) |-> i] /\ card(k) = Len(f.blocks[k])
        <4>1. Len(f.blocks[k]) \in Nat
          BY <1>1
        <4>2. InOrder(1 .. Len(f.blocks[k])) = [i \in 1 .. Len(f.blocks[k]) |-> i]
          BY <4>1, InOrderOfAll
        <4>3. card(k) = Len(f.blocks[k])
          <5> DEFINE L == Len(f.blocks[k])
          <5>1. L \in Nat
            BY <4>1
          <5>2. S(k) = 1 .. L
            BY <3>1
          <5> HIDE DEF L
          <5>3. Cardinality(1 .. L) = L
            BY <5>1, FS_Interval
          <5> QED
            BY <5>2, <5>3 DEF L, card
        <4> QED
          BY <3>1, <4>2, <4>3 DEF kept
      <3>3. blocks[k] = [j \in 1 .. Len(f.blocks[k]) |-> f.blocks[k][j]]
        BY <1>5, <3>2
      <3>4. f.blocks[k] = [j \in 1 .. Len(f.blocks[k]) |-> f.blocks[k][j]]
        BY <1>1, SequenceProperties DEF TypedFunction
      <3> QED
        BY <3>3, <3>4
    <2>2. f.blocks = [k \in 1 .. n |-> f.blocks[k]]
      BY <1>1, SequenceProperties DEF TypedFunction
    <2> QED
      BY <1>5, <2>1, <2>2
  <1>18. ASSUME dead \cap Positions(f) # {}
         PROVE  \E k \in 1 .. n : Len(g.blocks[k]) < Len(f.blocks[k])
    <2>1. PICK p \in Positions(f) : p \in dead
      BY <1>18
    <2>2. p = <<p[1], p[2]>> /\ p[1] \in Nat /\ p[1] + 1 \in 1 .. n /\ p[2] \in 1 .. Len(f.blocks[p[1] + 1])
      BY <1>1, PositionProperties
    <2> DEFINE k == p[1] + 1
    <2>3. k \in 1 .. n /\ p[2] \in 1 .. Len(f.blocks[k]) /\ p = <<k - 1, p[2]>>
      BY <2>2
    <2> HIDE DEF k
    <2>4. p[2] \notin S(k)
      BY <1>4, <2>1, <2>3
    <2>5. card(k) # Len(f.blocks[k]) /\ card(k) <= Len(f.blocks[k]) /\ card(k) \in Nat
      BY <1>2, <2>3, <2>4 DEF card
    <2>6. Len(g.blocks[k]) = card(k) /\ Len(f.blocks[k]) \in Nat
      BY <1>1, <1>6, <1>7, <2>3
    <2> QED
      BY <2>3, <2>5, <2>6
  <1>19. ASSUME NEW k \in 1 .. n
         PROVE  Len(f.blocks[k]) \in Nat /\ Len(g.blocks[k]) \in Nat /\ Len(g.blocks[k]) <= Len(f.blocks[k])
    BY <1>1, <1>2, <1>6, <1>7 DEF card
  <1> QED
    BY <1>0, <1>7, <1>16, <1>17, <1>18, <1>19
=============================================================================
