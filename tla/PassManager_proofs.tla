------------------------- MODULE PassManager_proofs -------------------------
(***************************************************************************)
(* The pipeline keeps every function well formed, its passes report what   *)
(* they change, and so it is right to stop: short of the cap a function is *)
(* left only at a fixpoint of all four passes, whatever the modules and    *)
(* the cap.  Wherever it stops, the code generated from the module is safe *)
(* for the VM: a pass keeps what codegen.cpp takes for granted of a        *)
(* function (FunctionFits) as well as what ir.h says of one (Sound), and   *)
(* of such functions codegen.cpp makes code whose operands and targets     *)
(* exist.  And the rounds end by themselves: every change makes a measure  *)
(* of the function smaller, provided its results are numbered in their     *)
(* order (Numbered), which the passes keep as well.                        *)
(***************************************************************************)
EXTENDS Lowering, Passes_proofs, Arith_proofs

(* The inductive invariant: as long as nothing has been reported in this   *)
(* round, the passes of it have left the function as it is.                *)
Fixed(k) == run_pass(passes[k], mod[fi]).f = mod[fi]
RoundSoFar ==
  /\ pi \in 0 .. 4 /\ iter \in Nat /\ total \in Nat /\ fi \in Nat
  /\ ~any /\ Optimizing => \A k \in 1 .. pi : Fixed(k)

(* A step that keeps to what ChangesAreReported says.                      *)
Honest == pi' = pi + 1 => (total' = total + 1 <=> mod' # mod)

-----------------------------------------------------------------------------
LEMMA Passes ==
  /\ Len(passes) = 4
  /\ \A p \in {"constfold", "algebraic", "constprop", "dce"} : \E k \in 1 .. 4 : passes[k] = p
  <1>1. /\ passes[1] = "constfold" /\ passes[2] = "algebraic"
        /\ passes[3] = "constprop" /\ passes[4] = "dce" /\ Len(passes) = 4
    BY DEF passes
  <1> QED
    BY <1>1

LEMMA Starts == PMInit => RoundSoFar
  BY DEF PMInit, PMStart, RoundSoFar

LEMMA RunPassKeeps ==
  ASSUME RoundSoFar, RunPass, Honest
  PROVE  RoundSoFar'
  <1> DEFINE r == run_pass(passes[pi + 1], mod[fi])
  <1>1. pi \in 0 .. 4 /\ pi < 4 /\ pi' = pi + 1 /\ iter' = iter /\ fi' = fi /\ iter \in Nat /\ fi \in Nat
        /\ total \in Nat /\ fi \in DOMAIN mod
    BY Passes DEF RunPass, RoundSoFar, Optimizing
  <1>2. any' = (any \/ r.changed) /\ total' = total + Bit(r.changed) /\ mod' = [mod EXCEPT ![fi] = r.f]
    BY DEF RunPass
  <1> HIDE DEF r
  <1>3. total' \in Nat
    BY <1>1, <1>2 DEF Bit
  <1>4. ASSUME ~any', NEW k \in 1 .. pi'
        PROVE  Fixed(k)'
    <2>1. ~any /\ ~r.changed
      BY <1>2, <1>4, Zenon
    <2>2. total' # total + 1
      BY <1>1, <1>2, <2>1 DEF Bit
    <2>3. mod' = mod
      BY <1>1, <2>2 DEF Honest
    <2>4. r.f = mod[fi]
      BY <1>1, <1>2, <2>3
    <2>5. Fixed(pi + 1)
      BY <2>4 DEF Fixed, r
    <2>6. Fixed(k)
      BY <1>1, <2>1, <2>5 DEF RoundSoFar, Optimizing
    <2> QED
      BY <1>1, <2>3, <2>6 DEF Fixed, passes
  <1> QED
    BY <1>1, <1>3, <1>4 DEF RoundSoFar

LEMMA OthersKeep ==
  ASSUME RoundSoFar, NextRound \/ NextFunction
  PROVE  RoundSoFar'
  BY DEF RoundSoFar, NextRound, NextFunction

LEMMA InvHolds == PMSpec /\ ChangesAreReported => []RoundSoFar
  <1>1. RoundSoFar /\ [PMNext]_pm_vars /\ [Honest]_pm_vars => RoundSoFar'
    <2> SUFFICES ASSUME RoundSoFar, [PMNext]_pm_vars, [Honest]_pm_vars PROVE RoundSoFar'
      OBVIOUS
    <2>1. CASE UNCHANGED pm_vars
      BY <2>1 DEF pm_vars, RoundSoFar, Fixed, Optimizing, passes
    <2>2. CASE RunPass /\ Honest
      BY <2>2, RunPassKeeps
    <2>3. CASE NextRound \/ NextFunction
      BY <2>3, OthersKeep
    <2> QED
      BY <2>1, <2>2, <2>3 DEF PMNext
  <1> QED
    BY <1>1, Starts, PTL DEF PMSpec, ChangesAreReported, Honest

-----------------------------------------------------------------------------
(* Short of the cap a function is left only when no pass would change it,  *)
(* provided each pass reports what it changes (PassManager::run relies on  *)
(* `changed' alone; pass.h).                                               *)
THEOREM HonestPassesStopAtFixpoints == PMSpec /\ ChangesAreReported => LeavesOnlyAtFixpoint
  <1>1. ASSUME RoundSoFar, [PMNext]_pm_vars, fi' # fi, iter < max_iters,
               NEW p \in {"constfold", "algebraic", "constprop", "dce"}
        PROVE  run_pass(p, mod[fi]).f = mod[fi]
    <2>1. NextFunction
      BY <1>1 DEF PMNext, RunPass, NextRound, pm_vars
    <2>2. pi = 4 /\ ~any /\ Optimizing
      BY <1>1, <2>1, Passes, MaxItersAssumption DEF NextFunction, RoundSoFar
    <2>3. PICK k \in 1 .. 4 : passes[k] = p
      BY Passes
    <2> QED
      BY <1>1, <2>2, <2>3 DEF RoundSoFar, Fixed
  <1>2. RoundSoFar /\ [PMNext]_pm_vars =>
          [fi' # fi /\ iter < max_iters =>
             \A p \in {"constfold", "algebraic", "constprop", "dce"} : run_pass(p, mod[fi]).f = mod[fi]]_pm_vars
    BY <1>1
  <1> QED
    BY <1>2, InvHolds, PTL DEF PMSpec, LeavesOnlyAtFixpoint

-----------------------------------------------------------------------------
(* No round is wasted: every round a function has been through changed it, *)
(* or some pass said so, wherever the rounds may stop and whatever passes  *)
(* report.  Inductive is that a change of the round under way is one more. *)
RoundsSoFar == iter \in Nat /\ total \in Nat /\ iter <= total /\ (any => iter < total)

THEOREM RoundsAreAlwaysEarned == PMSpec => []RoundsAreEarned
  <1>1. PMInit => RoundsSoFar
    BY DEF PMInit, PMStart, RoundsSoFar
  <1>2. RoundsSoFar /\ [PMNext]_pm_vars => RoundsSoFar'
    <2> SUFFICES ASSUME RoundsSoFar, [PMNext]_pm_vars PROVE RoundsSoFar'
      OBVIOUS
    <2>1. CASE UNCHANGED pm_vars
      BY <2>1 DEF pm_vars, RoundsSoFar
    <2>2. CASE RunPass
      <3> DEFINE r == run_pass(passes[pi + 1], mod[fi])
      <3>1. iter' = iter /\ any' = (any \/ r.changed) /\ total' = total + Bit(r.changed)
        BY <2>2 DEF RunPass
      <3> HIDE DEF r
      <3>2. CASE r.changed
        <4>1. total' = total + 1
          BY <3>1, <3>2 DEF Bit
        <4> QED
          BY <3>1, <4>1 DEF RoundsSoFar
      <3>3. CASE ~r.changed
        <4>1. total' = total + 0 /\ (any' => any)
          BY <3>1, <3>3 DEF Bit
        <4> QED
          BY <3>1, <4>1 DEF RoundsSoFar
      <3> QED
        BY <3>2, <3>3
    <2>3. CASE NextRound
      BY <2>3 DEF NextRound, RoundsSoFar
    <2>4. CASE NextFunction
      BY <2>4 DEF NextFunction, RoundsSoFar
    <2> QED
      BY <2>1, <2>2, <2>3, <2>4 DEF PMNext
  <1>3. RoundsSoFar => RoundsAreEarned
    BY DEF RoundsSoFar, RoundsAreEarned
  <1> QED
    BY <1>1, <1>2, <1>3, PTL DEF PMSpec

-----------------------------------------------------------------------------
(* The inductive invariant behind the other two: every function is Sound,  *)
(* which is what ir.h says of one and what its types say besides.          *)
AllSound ==
  /\ pi \in 0 .. 4 /\ total \in Nat
  /\ mod = [i \in DOMAIN mod |-> mod[i]] /\ \A i \in DOMAIN mod : Sound(mod[i])

(* One pass over a function that is Sound.                                 *)
LEMMA EveryPassKeeps ==
  ASSUME NEW f, Sound(f), NEW p \in {"constfold", "algebraic", "constprop", "dce"}
  PROVE  Sound(run_pass(p, f).f) /\ (run_pass(p, f).changed <=> run_pass(p, f).f # f)
  <1>1. CASE p = "constfold"
    <2>1. run_pass(p, f) = constfold(f)
      BY <1>1 DEF run_pass
    <2> QED
      BY <2>1, ConstfoldKeeps
  <1>2. CASE p = "algebraic"
    <2>1. run_pass(p, f) = algebraic(f)
      BY <1>2 DEF run_pass
    <2> QED
      BY <2>1, AlgebraicKeeps
  <1>3. CASE p = "constprop"
    <2>1. run_pass(p, f) = constprop(f)
      BY <1>3 DEF run_pass
    <2> QED
      BY <2>1, ConstpropKeeps
  <1>4. CASE p = "dce"
    <2>1. run_pass(p, f) = dce(f)
      BY <1>4 DEF run_pass
    <2> QED
      BY <2>1, DceKeeps
  <1> QED
    BY <1>1, <1>2, <1>3, <1>4

LEMMA StartsSound == PMInit => AllSound
  <1> SUFFICES ASSUME PMInit PROVE AllSound
    OBVIOUS
  <1>1. pi \in 0 .. 4 /\ total \in Nat /\ mod \in Modules
    BY DEF PMInit, PMStart
  <1>2. IsSequence(mod) /\ \A i \in DOMAIN mod : Sound(mod[i])
    BY <1>1, ModulesAssumption
  <1>3. mod = [i \in DOMAIN mod |-> mod[i]]
    BY <1>2, SequenceProperties
  <1> QED
    BY <1>1, <1>2, <1>3 DEF AllSound

LEMMA RunPassIsSound ==
  ASSUME AllSound, RunPass
  PROVE  AllSound' /\ Honest
  <1> DEFINE p == passes[pi + 1]
             f == mod[fi]
             r == run_pass(p, f)
  <1>1. /\ pi \in 0 .. 4 /\ pi < 4 /\ pi' = pi + 1 /\ total \in Nat /\ fi \in DOMAIN mod
        /\ mod = [i \in DOMAIN mod |-> mod[i]] /\ \A i \in DOMAIN mod : Sound(mod[i])
    BY Passes DEF RunPass, AllSound, Optimizing
  <1>2. mod' = [mod EXCEPT ![fi] = r.f] /\ total' = total + Bit(r.changed)
    BY DEF RunPass
  <1>3. p \in {"constfold", "algebraic", "constprop", "dce"}
    BY <1>1 DEF passes
  <1>4. Sound(r.f) /\ (r.changed <=> r.f # f)
    BY <1>1, <1>3, EveryPassKeeps
  <1> HIDE DEF r
  <1>5. /\ mod' = [i \in DOMAIN mod' |-> mod'[i]] /\ \A i \in DOMAIN mod' : Sound(mod'[i])
        /\ mod' # mod <=> r.f # f
    BY <1>1, <1>2, <1>4
  <1>6. total' \in Nat /\ (total' = total + 1 <=> r.changed)
    BY <1>1, <1>2 DEF Bit
  <1> QED
    BY <1>1, <1>4, <1>5, <1>6 DEF AllSound, Honest

LEMMA StepsAreSound ==
  ASSUME AllSound, [PMNext]_pm_vars
  PROVE  AllSound' /\ [Honest]_pm_vars
  <1>1. CASE UNCHANGED pm_vars
    BY <1>1 DEF pm_vars, AllSound
  <1>2. CASE RunPass
    BY <1>2, RunPassIsSound
  <1>3. CASE NextRound \/ NextFunction
    BY <1>3 DEF NextRound, NextFunction, AllSound, Honest
  <1> QED
    BY <1>1, <1>2, <1>3 DEF PMNext

LEMMA AlwaysSound == PMSpec => []AllSound
  <1>1. AllSound /\ [PMNext]_pm_vars => AllSound'
    BY StepsAreSound
  <1> QED
    BY <1>1, StartsSound, PTL DEF PMSpec

-----------------------------------------------------------------------------
(* Whatever passes have run, in whatever modules, each function is well    *)
(* formed: blocks end in their only terminator, branches name blocks, a    *)
(* temp has one definition, which comes before each use on every path      *)
(* (ir.h).                                                                 *)
THEOREM PassesKeepIRWellFormed == PMSpec => []IRStaysWellFormed
  <1>1. AllSound => IRStaysWellFormed
    BY DEF AllSound, IRStaysWellFormed, Sound
  <1> QED
    BY <1>1, AlwaysSound, PTL

(* A pass reports a change exactly if it made one (pass.h).                *)
THEOREM PassesReportTheirChanges == PMSpec => ChangesAreReported
  <1>1. AllSound /\ [PMNext]_pm_vars => [pi' = pi + 1 => (total' = total + 1 <=> mod' # mod)]_pm_vars
    BY StepsAreSound DEF Honest
  <1> QED
    BY <1>1, AlwaysSound, PTL DEF PMSpec, ChangesAreReported

(* So the pipeline, short of its cap, leaves a function only when none of  *)
(* the four passes would change it (PassManager::run).                     *)
THEOREM PipelineStopsAtFixpoints == PMSpec => LeavesOnlyAtFixpoint
  BY HonestPassesStopAtFixpoints, PassesReportTheirChanges, PTL

-----------------------------------------------------------------------------
(* Sequences laid end to end.                                              *)

(* F[i] is the first i of the sequences ss, end to end.                    *)
LaidOut(F, ss, n, S) ==
  F \in [0 .. n -> Seq(S)] /\ F[0] = <<>> /\ \A i \in 1 .. n : F[i] = F[i - 1] \o ss[i]

LEMMA LaidOutExists ==
  ASSUME NEW S, NEW n \in Nat, NEW ss, \A i \in 1 .. n : ss[i] \in Seq(S)
  PROVE  \E F : LaidOut(F, ss, n, S)
  <1> DEFINE T == { m \in Nat : \E F : LaidOut(F, ss, m, S) }
  <1>1. 0 \in T
    <2>1. LaidOut([i \in 0 .. 0 |-> <<>>], ss, 0, S)
      BY DEF LaidOut
    <2> QED
      BY <2>1
  <1>2. ASSUME NEW m \in 0 .. n - 1, m \in T
        PROVE  m + 1 \in T
    <2>1. PICK F : LaidOut(F, ss, m, S)
      BY <1>2
    <2>2. m \in Nat /\ m + 1 \in 1 .. n /\ m \in 0 .. m /\ F[m] \in Seq(S) /\ ss[m + 1] \in Seq(S)
      BY <2>1 DEF LaidOut
    <2>3. PICK e \in Seq(S) : e = F[m] \o ss[m + 1]
      BY <2>2, ConcatProperties
    <2> DEFINE G == [i \in 0 .. m + 1 |-> IF i <= m THEN F[i] ELSE e]
    <2>4. \A i \in 0 .. m : G[i] = F[i]
      BY <2>2
    <2>5. G[m + 1] = e
      BY <2>2
    <2>6. G \in [0 .. m + 1 -> Seq(S)]
      <3>1. \A i \in 0 .. m : F[i] \in Seq(S)
        BY <2>1 DEF LaidOut
      <3> QED
        BY <2>2, <2>3, <3>1
    <2> HIDE DEF G
    <2>7. ASSUME NEW i \in 1 .. m + 1
          PROVE  G[i] = G[i - 1] \o ss[i]
      <3>1. CASE i = m + 1
        <4>1. G[i - 1] = F[m]
          BY <2>2, <2>4, <3>1
        <4> QED
          BY <2>3, <2>5, <3>1, <4>1, Zenon
      <3>2. CASE i \in 1 .. m
        <4>1. i \in 0 .. m /\ i - 1 \in 0 .. m
          BY <2>2, <3>2
        <4>2. G[i] = F[i] /\ G[i - 1] = F[i - 1]
          BY <2>4, <4>1
        <4> QED
          BY <2>1, <3>2, <4>2, Zenon DEF LaidOut
      <3>3. i = m + 1 \/ i \in 1 .. m
        BY <2>2
      <3> QED
        BY <3>1, <3>2, <3>3, Zenon
    <2>8. G[0] = <<>>
      BY <2>1, <2>2, <2>4 DEF LaidOut
    <2>9. LaidOut(G, ss, m + 1, S)
      BY <2>6, <2>7, <2>8, Zenon DEF LaidOut
    <2>10. m + 1 \in Nat
      BY <2>2
    <2> QED
      BY <2>9, <2>10
  <1> HIDE DEF T
  <1>3. \A m \in 0 .. n : m \in T
    BY <1>1, <1>2, BoundedInduction
  <1> QED
    BY <1>3 DEF T

LEMMA FlattenIs ==
  ASSUME NEW S, NEW n \in Nat, NEW ss, ss \in Seq(Seq(S)), Len(ss) = n, NEW F, LaidOut(F, ss, n, S)
  PROVE  FlattenSeq(ss) = F[n]
  <1>1. CASE n = 0
    <2>1. ss = <<>> /\ FlattenSeq(ss) = ss
      BY <1>1, EmptySeq DEF FlattenSeq
    <2> QED
      BY <1>1, <2>1 DEF LaidOut
  <1>2. CASE n # 0
    <2> DEFINE Unfolds(g) == g = [i \in 1 .. n |-> IF i = 1 THEN ss[i] ELSE g[i - 1] \o ss[i]]
               f == CHOOSE g : Unfolds(g)
               g0 == [i \in 1 .. n |-> F[i]]
    <2>1. \A i \in 1 .. n : ss[i] \in Seq(S)
      BY ElementOfSeq
    <2>2. \A i \in 1 .. n : g0[i] = IF i = 1 THEN ss[i] ELSE g0[i - 1] \o ss[i]
      <3> SUFFICES ASSUME NEW i \in 1 .. n PROVE g0[i] = IF i = 1 THEN ss[i] ELSE g0[i - 1] \o ss[i]
        OBVIOUS
      <3>1. F[i] = F[i - 1] \o ss[i] /\ g0[i] = F[i]
        BY DEF LaidOut
      <3>2. CASE i = 1
        <4>1. F[i - 1] = <<>>
          BY <3>2 DEF LaidOut
        <4>2. <<>> \o ss[i] = ss[i]
          BY <2>1, ConcatEmptySeq
        <4> QED
          BY <3>1, <3>2, <4>1, <4>2
      <3>3. CASE i # 1
        <4>1. g0[i - 1] = F[i - 1]
          BY <3>3
        <4> QED
          BY <3>1, <3>3, <4>1
      <3> QED
        BY <3>2, <3>3
    <2>3. Unfolds(g0)
      BY <2>2
    <2>4. Unfolds(f)
      <3> HIDE DEF Unfolds, g0
      <3> QED
        BY <2>3
    <2>5. \A i \in 1 .. n : f[i] = IF i = 1 THEN ss[i] ELSE f[i - 1] \o ss[i]
      <3> HIDE DEF f
      <3> QED
        BY <2>4
    <2>6. FlattenSeq(ss) = f[n]
      BY <1>2 DEF FlattenSeq
    <2> HIDE DEF Unfolds, f
    <2> DEFINE T == { i \in 0 .. n : i # 0 => f[i] = F[i] }
    <2>7. 0 \in T
      OBVIOUS
    <2>8. ASSUME NEW m \in 0 .. n - 1, m \in T
          PROVE  m + 1 \in T
      <3>1. m + 1 \in 1 .. n /\ m + 1 \in 0 .. n
        OBVIOUS
      <3>2. F[m + 1] = F[m] \o ss[m + 1]
        <4>1. F[m + 1] = F[(m + 1) - 1] \o ss[m + 1]
          BY <3>1, Zenon DEF LaidOut
        <4>2. (m + 1) - 1 = m
          OBVIOUS
        <4> QED
          BY <4>1, <4>2, Zenon
      <3>3. CASE m = 0
        <4>1. f[m + 1] = ss[m + 1]
          BY <2>5, <3>1, <3>3
        <4>2. F[m] = <<>>
          BY <3>3 DEF LaidOut
        <4>3. <<>> \o ss[m + 1] = ss[m + 1]
          BY <2>1, <3>1, ConcatEmptySeq
        <4> QED
          BY <3>1, <3>2, <4>1, <4>2, <4>3
      <3>4. CASE m # 0
        <4>0. \A i \in 1 .. n : i # 1 => f[i] = f[i - 1] \o ss[i]
          BY <2>5, Zenon
        <4>1. f[m + 1] = f[m] \o ss[m + 1]
          <5>1. m + 1 # 1 /\ (m + 1) - 1 = m
            BY <3>4
          <5>2. f[m + 1] = f[(m + 1) - 1] \o ss[m + 1]
            BY <3>1, <4>0, <5>1
          <5> QED
            BY <5>1, <5>2
        <4> QED
          BY <2>8, <3>1, <3>2, <3>4, <4>1
      <3> QED
        BY <3>3, <3>4
    <2> HIDE DEF T
    <2>9. \A m \in 0 .. n : m \in T
      BY <2>7, <2>8, BoundedInduction
    <2> QED
      BY <1>2, <2>6, <2>9 DEF T
  <1> QED
    BY <1>1, <1>2

(* One sequence more is longer, and ends as that sequence ends.            *)
LEMMA LaidOutStep ==
  ASSUME NEW S, NEW n \in Nat, NEW ss, NEW F, LaidOut(F, ss, n, S), NEW i \in 1 .. n,
         ss[i] \in Seq(S), ss[i] # <<>>
  PROVE  /\ F[i] \in Seq(S) /\ F[i - 1] \in Seq(S) /\ Len(F[i - 1]) < Len(F[i])
         /\ F[i][Len(F[i])] = ss[i][Len(ss[i])]
  <1>1. i \in 0 .. n /\ i - 1 \in 0 .. n
    OBVIOUS
  <1>2. F \in [0 .. n -> Seq(S)] /\ F[i] = F[i - 1] \o ss[i]
    BY Zenon DEF LaidOut
  <1>3. PICK a \in Seq(S) : a = F[i - 1]
    BY <1>1, <1>2
  <1>4. PICK b \in Seq(S) : b = ss[i]
    OBVIOUS
  <1>5. Len(a) \in Nat /\ Len(b) \in Nat \ {0}
    BY <1>4, LenProperties, EmptySeq
  <1>6. /\ a \o b \in Seq(S) /\ Len(a \o b) = Len(a) + Len(b)
        /\ \A k \in 1 .. Len(a) + Len(b) : (a \o b)[k] = IF k <= Len(a) THEN a[k] ELSE b[k - Len(a)]
    BY ConcatProperties
  <1>7. (a \o b)[Len(a) + Len(b)] = b[Len(b)]
    <2>1. Len(a) + Len(b) \in 1 .. Len(a) + Len(b) /\ ~(Len(a) + Len(b) <= Len(a))
          /\ (Len(a) + Len(b)) - Len(a) = Len(b)
      BY <1>5
    <2> QED
      BY <1>6, <2>1, Zenon
  <1>8. F[i] = a \o b
    BY <1>2, <1>3, <1>4, Zenon
  <1>9. Len(a) < Len(a) + Len(b)
    BY <1>5
  <1> QED
    BY <1>3, <1>4, <1>6, <1>7, <1>8, <1>9, Zenon

LEMMA LaidOutGrows ==
  ASSUME NEW S, NEW n \in Nat, NEW ss, NEW F, LaidOut(F, ss, n, S),
         \A i \in 1 .. n : ss[i] \in Seq(S) /\ ss[i] # <<>>
  PROVE  \A b \in 0 .. n - 1 : Len(F[b]) < Len(F[n])
  <1> DEFINE T == { m \in 0 .. n : \A b \in 0 .. m - 1 : Len(F[b]) < Len(F[m]) }
  <1>1. 0 \in T
    OBVIOUS
  <1>0. \A i \in 0 .. n : Len(F[i]) \in Nat
    BY LenProperties DEF LaidOut
  <1>2. ASSUME NEW m \in 0 .. n - 1, m \in T
        PROVE  m + 1 \in T
    <2>1. m + 1 \in 1 .. n /\ (m + 1) - 1 = m /\ m \in 0 .. n /\ m + 1 \in 0 .. n
      OBVIOUS
    <2>2. Len(F[(m + 1) - 1]) < Len(F[m + 1])
      BY <2>1, LaidOutStep
    <2>3. ASSUME NEW b \in 0 .. m
          PROVE  Len(F[b]) < Len(F[m + 1])
      <3>1. CASE b = m
        BY <2>1, <2>2, <3>1
      <3>2. CASE b # m
        <4>1. b \in 0 .. m - 1 /\ b \in 0 .. n
          BY <3>2
        <4>2. Len(F[b]) < Len(F[m])
          BY <1>2, <4>1
        <4>3. Len(F[m]) < Len(F[m + 1])
          BY <2>1, <2>2
        <4> QED
          BY <1>0, <2>1, <4>1, <4>2, <4>3
      <3> QED
        BY <3>1, <3>2
    <2>4. 0 .. (m + 1) - 1 = 0 .. m
      OBVIOUS
    <2> QED
      BY <2>1, <2>3, <2>4
  <1> HIDE DEF T
  <1>3. \A m \in 0 .. n : m \in T
    BY <1>1, <1>2, BoundedInduction
  <1> QED
    BY <1>3 DEF T

(* What FlattenSeq makes of sequences that are not empty.                  *)
LEMMA Flattened ==
  ASSUME NEW S, NEW n \in Nat \ {0}, NEW ss, ss \in Seq(Seq(S)), Len(ss) = n, \A i \in 1 .. n : ss[i] # <<>>
  PROVE  /\ FlattenSeq(ss) \in Seq(S) /\ Len(FlattenSeq(ss)) \in Nat \ {0}
         /\ FlattenSeq(ss)[Len(FlattenSeq(ss))] = ss[n][Len(ss[n])]
         /\ \A b \in 0 .. n - 1 : Len(FlattenSeq(SubSeq(ss, 1, b))) \in 0 .. Len(FlattenSeq(ss)) - 1
  <1>1. \A i \in 1 .. n : ss[i] \in Seq(S)
    BY ElementOfSeq
  <1>2. PICK F : LaidOut(F, ss, n, S)
    BY <1>1, LaidOutExists
  <1>3. FlattenSeq(ss) = F[n]
    BY <1>2, FlattenIs
  <1>4. /\ F[n] \in Seq(S) /\ F[n - 1] \in Seq(S) /\ Len(F[n - 1]) < Len(F[n])
        /\ F[n][Len(F[n])] = ss[n][Len(ss[n])]
    BY <1>1, <1>2, LaidOutStep
  <1>5. Len(F[n]) \in Nat \ {0}
    BY <1>4, LenProperties
  <1>6. ASSUME NEW b \in 0 .. n - 1
        PROVE  Len(FlattenSeq(SubSeq(ss, 1, b))) \in 0 .. Len(FlattenSeq(ss)) - 1
    <2>1. SubSeq(ss, 1, b) \in Seq(Seq(S)) /\ Len(SubSeq(ss, 1, b)) = b
          /\ \A i \in 1 .. b : SubSeq(ss, 1, b)[i] = ss[i]
      BY SubSeqProperties
    <2> DEFINE G == [i \in 0 .. b |-> F[i]]
    <2>2. F \in [0 .. n -> Seq(S)] /\ F[0] = <<>>
      BY <1>2, Zenon DEF LaidOut
    <2>3. G \in [0 .. b -> Seq(S)] /\ G[0] = <<>> /\ G[b] = F[b]
      <3>1. 0 \in 0 .. b /\ b \in 0 .. b /\ \A i \in 0 .. b : i \in 0 .. n
        OBVIOUS
      <3>2. \A i \in 0 .. b : F[i] \in Seq(S)
        BY <2>2, <3>1, Zenon
      <3>3. G \in [0 .. b -> Seq(S)]
        BY <3>2, Zenon
      <3> QED
        BY <2>2, <3>1, <3>3, Zenon
    <2>4. ASSUME NEW i \in 1 .. b
          PROVE  G[i] = G[i - 1] \o SubSeq(ss, 1, b)[i]
      <3>1. i \in 1 .. n /\ G[i] = F[i] /\ G[i - 1] = F[i - 1]
        OBVIOUS
      <3>2. F[i] = F[i - 1] \o ss[i]
        BY <1>2, <3>1, Zenon DEF LaidOut
      <3> QED
        BY <2>1, <3>1, <3>2, Zenon
    <2> HIDE DEF G
    <2>5. LaidOut(G, SubSeq(ss, 1, b), b, S)
      BY <2>3, <2>4, Zenon DEF LaidOut
    <2>6. FlattenSeq(SubSeq(ss, 1, b)) = F[b]
      <3>1. b \in Nat
        OBVIOUS
      <3>2. FlattenSeq(SubSeq(ss, 1, b)) = G[b]
        <4>1. PICK pre : pre = SubSeq(ss, 1, b)
          OBVIOUS
        <4>2. pre \in Seq(Seq(S)) /\ Len(pre) = b /\ LaidOut(G, pre, b, S)
          BY <2>1, <2>5, <4>1, Zenon
        <4>3. FlattenSeq(pre) = G[b]
          BY <3>1, <4>2, FlattenIs
        <4> QED
          BY <4>1, <4>3, Zenon
      <3> QED
        BY <2>3, <3>2, Zenon
    <2>7. Len(F[b]) < Len(F[n])
      BY <1>1, <1>2, LaidOutGrows
    <2>8. Len(F[b]) \in Nat
      BY <2>2, LenProperties
    <2> QED
      BY <1>3, <1>5, <2>6, <2>7, <2>8
  <1> QED
    BY <1>3, <1>4, <1>5, <1>6
-----------------------------------------------------------------------------
(* One instruction.                                                        *)

(* Bytecode of f that does what the VM takes for granted, but that its     *)
(* targets are still blocks.                                               *)
GoodCode(c, f, m) ==
  /\ c \in BC
  /\ c.op \in ValueOps \cup {"Call"} => c.dst \in 0 .. f.next_temp - 1
  /\ c.op \in BinaryOps \cup UnaryOps \cup {"StoreSlot", "Print", "JmpIfFalse", "Ret"}
        => c.a.imm \/ c.a.reg \in 0 .. f.next_temp - 1
  /\ c.op \in BinaryOps => c.b.imm \/ c.b.reg \in 0 .. f.next_temp - 1
  /\ c.op \in {"LoadSlot", "StoreSlot"} => c.slot_idx \in 0 .. f.num_slots - 1
  /\ c.op \in {"Jmp", "JmpIfFalse"} => c.target \in BlockIds(f)
  /\ c.op = "Call" => /\ c.callee \in 0 .. Len(m) - 1
                      /\ \A i \in DOMAIN c.args : c.args[i].imm \/ c.args[i].reg \in 0 .. f.next_temp - 1
                      /\ Len(c.args) = m[c.callee + 1].num_params
GoodCodes(f, m) == { c \in BC : GoodCode(c, f, m) }

(* What Sound and FunctionFits say of one instruction of f.                *)
GoodInstr(in, f, m) ==
  /\ TypedInstr(in) /\ InstrFits(in, f, m)
  /\ in.dst # -1 => in.dst \in 0 .. f.next_temp - 1
  /\ in.op \in {"load", "store"} => in.slot \in 0 .. f.num_slots - 1
  /\ in.op \in {"br", "condbr"} => in.bb_true \in BlockIds(f)
  /\ in.op = "condbr" => in.bb_false \in BlockIds(f)

LEMMA NoOperand == Reg(-1) \in Operand /\ <<>> \in Seq(Operand) /\ Imm(0) \in Operand
  <1>1. 0 \in Word
    BY MaxIntAssumption DEF Word, MinInt
  <1> QED
    BY <1>1 DEF Reg, Operand, Imm

LEMMA NoBCTyped == NoBC \in BC
  <1>1. "Ret" \in BOp /\ -1 \in Int
    BY DEF BOp
  <1> HIDE DEF Operand, BOp
  <1> QED
    BY <1>1, NoOperand DEF NoBC, BC

(* An operand becomes a register or a constant of the function.            *)
LEMMA OperTyped ==
  ASSUME NEW f, f.next_temp \in Nat, NEW v \in Values, ValueFits(v, f)
  PROVE  oper(v) \in Operand /\ (oper(v).imm \/ oper(v).reg \in 0 .. f.next_temp - 1)
  <1>1. 0 \in Word /\ -1 \in Int
    BY MaxIntAssumption DEF Word, MinInt
  <1>2. v.n \in Int
    BY DEF Values
  <1>3. CASE is_const(v)
    BY <1>1, <1>3 DEF oper, Imm, Operand, ValueFits
  <1>4. CASE ~is_const(v)
    BY <1>1, <1>2, <1>4 DEF oper, Reg, Operand, ValueFits
  <1> QED
    BY <1>3, <1>4

LEMMA ArgsTyped ==
  ASSUME NEW f, f.next_temp \in Nat, NEW m, NEW in, TypedInstr(in), InstrFits(in, f, m)
  PROVE  /\ Len(in.args) \in Nat /\ DOMAIN in.args = 1 .. Len(in.args)
         /\ \A i \in 1 .. Len(in.args) :
              oper(in.args[i]) \in Operand /\ (oper(in.args[i]).imm \/ oper(in.args[i]).reg \in 0 .. f.next_temp - 1)
  <1>1. in.args \in Seq(Values)
    BY DEF TypedInstr
  <1>2. Len(in.args) \in Nat /\ DOMAIN in.args = 1 .. Len(in.args)
    BY <1>1, LenProperties
  <1>3. ASSUME NEW i \in 1 .. Len(in.args)
        PROVE  in.args[i] \in Values /\ ValueFits(in.args[i], f)
    BY <1>1, <1>2, ElementOfSeq DEF InstrFits
  <1> QED
    BY <1>2, <1>3, OperTyped

(* The operations of the VM.                                               *)
LEMMA OpSets ==
  /\ \A op \in {"LoadConst", "Move", "Neg", "Not", "Print", "LoadSlot", "StoreSlot", "Call", "Jmp", "JmpIfFalse", "Ret"} :
       op \in BOp /\ op \notin BinaryOps
  /\ \A op \in {"Print", "StoreSlot", "Jmp", "JmpIfFalse", "Ret"} : op \notin ValueOps
  /\ BinaryOps \subseteq BOp /\ BinaryOps \cap {"LoadSlot", "StoreSlot", "Jmp", "JmpIfFalse", "Call", "Ret"} = {}
  /\ \A op \in {"LoadConst", "LoadSlot", "Jmp", "Call"} : op \notin UnaryOps
  BY DEF BOp, BinaryOps, ArithOps, CompareOps, UnaryOps, ValueOps

(* One instruction of one operand.                                         *)
LEMMA LowerUnary ==
  ASSUME NEW f, f.next_temp \in Nat, NEW m, NEW in, GoodInstr(in, f, m), NEW idx,
         in.op \in {"const", "copy", "neg", "not", "print"}
  PROVE  \E c \in GoodCodes(f, m) : LowerInstr(in, idx) = <<c>>
  <1>0. PICK op : \/ in.op = "const" /\ op = "LoadConst"
                  \/ in.op = "copy" /\ op = "Move"
                  \/ in.op = "neg" /\ op = "Neg"
                  \/ in.op = "not" /\ op = "Not"
                  \/ in.op = "print" /\ op = "Print"
    BY Zenon
  <1>1. TypedInstr(in) /\ InstrFits(in, f, m) /\ in.dst \in Int
    BY DEF GoodInstr, TypedInstr
  <1>2. Len(in.args) = 1
    BY <1>1 DEF TypedInstr, InstrFits
  <1>3. PICK a : a = oper(in.args[1])
    OBVIOUS
  <1>4. a \in Operand /\ (a.imm \/ a.reg \in 0 .. f.next_temp - 1)
    BY <1>1, <1>2, <1>3, ArgsTyped
  <1>5. op # "Print" => in.dst \in 0 .. f.next_temp - 1
    BY <1>0, <1>1 DEF GoodInstr, InstrFits, HasResult
  <1>6. op \in {"LoadConst", "Move", "Neg", "Not", "Print"}
    BY <1>0
  <1>7. PICK b : b = [NoBC EXCEPT !.op = op, !.dst = in.dst]
    OBVIOUS
  <1>8. PICK c : c = [b EXCEPT !.a = a]
    OBVIOUS
  <1>9. LowerInstr(in, idx) = <<[[NoBC EXCEPT !.op = op, !.dst = in.dst] EXCEPT !.a = oper(in.args[1])]>>
    BY <1>0 DEF LowerInstr
  <1>10. LowerInstr(in, idx) = <<c>>
    BY <1>3, <1>7, <1>8, <1>9, Zenon
  <1>11. b \in BC /\ b.op = op /\ b.dst = in.dst
    BY <1>1, <1>6, <1>7, OpSets, NoBCTyped DEF BC
  <1>12. c \in BC /\ c.a = a /\ c.op = op /\ c.dst = in.dst
    <2>1. c \in BC /\ c.a = a /\ c.op = b.op /\ c.dst = b.dst
      BY <1>4, <1>8, <1>11 DEF BC
    <2> QED
      BY <1>11, <2>1
  <1>13. GoodCode(c, f, m)
    BY <1>4, <1>5, <1>6, <1>12, OpSets DEF GoodCode
  <1> QED
    BY <1>10, <1>12, <1>13 DEF GoodCodes

LEMMA LowerStore ==
  ASSUME NEW f, f.next_temp \in Nat, NEW m, NEW in, GoodInstr(in, f, m), NEW idx, in.op = "store"
  PROVE  \E c \in GoodCodes(f, m) : LowerInstr(in, idx) = <<c>>
  <1>1. TypedInstr(in) /\ InstrFits(in, f, m) /\ in.dst \in Int /\ in.slot \in Int
    BY DEF GoodInstr, TypedInstr
  <1>2. Len(in.args) = 1 /\ in.slot \in 0 .. f.num_slots - 1
    BY <1>1 DEF TypedInstr, GoodInstr
  <1>3. PICK a : a = oper(in.args[1])
    OBVIOUS
  <1>4. a \in Operand /\ (a.imm \/ a.reg \in 0 .. f.next_temp - 1)
    BY <1>1, <1>2, <1>3, ArgsTyped
  <1>5. PICK b : b = [NoBC EXCEPT !.op = "StoreSlot", !.dst = in.dst]
    OBVIOUS
  <1>6. PICK c : c = [b EXCEPT !.slot_idx = in.slot, !.a = a]
    OBVIOUS
  <1>7. LowerInstr(in, idx)
          = <<[[NoBC EXCEPT !.op = "StoreSlot", !.dst = in.dst] EXCEPT !.slot_idx = in.slot, !.a = oper(in.args[1])]>>
    BY DEF LowerInstr
  <1>8. LowerInstr(in, idx) = <<c>>
    BY <1>3, <1>5, <1>6, <1>7, Zenon
  <1>9. b \in BC /\ b.op = "StoreSlot"
    BY <1>1, <1>5, OpSets, NoBCTyped DEF BC
  <1>10. c \in BC /\ c.a = a /\ c.slot_idx = in.slot /\ c.op = "StoreSlot"
    <2>1. c \in BC /\ c.a = a /\ c.slot_idx = in.slot /\ c.op = b.op
      BY <1>1, <1>4, <1>6, <1>9 DEF BC
    <2> QED
      BY <1>9, <2>1
  <1>11. GoodCode(c, f, m)
    BY <1>2, <1>4, <1>10, OpSets DEF GoodCode
  <1> QED
    BY <1>8, <1>10, <1>11 DEF GoodCodes

LEMMA LowerLoad ==
  ASSUME NEW f, NEW m, NEW in, GoodInstr(in, f, m), NEW idx, in.op = "load"
  PROVE  \E c \in GoodCodes(f, m) : LowerInstr(in, idx) = <<c>>
  <1>1. in.dst \in Int /\ in.slot \in Int /\ in.slot \in 0 .. f.num_slots - 1 /\ in.dst \in 0 .. f.next_temp - 1
    BY DEF GoodInstr, TypedInstr
  <1>2. PICK b : b = [NoBC EXCEPT !.op = "LoadSlot", !.dst = in.dst]
    OBVIOUS
  <1>3. PICK c : c = [b EXCEPT !.slot_idx = in.slot]
    OBVIOUS
  <1>4. LowerInstr(in, idx) = <<[[NoBC EXCEPT !.op = "LoadSlot", !.dst = in.dst] EXCEPT !.slot_idx = in.slot]>>
    BY DEF LowerInstr
  <1>5. LowerInstr(in, idx) = <<c>>
    BY <1>2, <1>3, <1>4, Zenon
  <1>6. b \in BC /\ b.op = "LoadSlot" /\ b.dst = in.dst
    BY <1>1, <1>2, OpSets, NoBCTyped DEF BC
  <1>7. c \in BC /\ c.slot_idx = in.slot /\ c.op = "LoadSlot" /\ c.dst = in.dst
    <2>1. c \in BC /\ c.slot_idx = in.slot /\ c.op = b.op /\ c.dst = b.dst
      BY <1>1, <1>3, <1>6 DEF BC
    <2> QED
      BY <1>6, <2>1
  <1>8. GoodCode(c, f, m)
    BY <1>1, <1>7, OpSets DEF GoodCode
  <1> QED
    BY <1>5, <1>7, <1>8 DEF GoodCodes

LEMMA LowerBinary ==
  ASSUME NEW f, f.next_temp \in Nat, NEW m, NEW in, GoodInstr(in, f, m), NEW idx, in.op \in BinaryIROps
  PROVE  \E c \in GoodCodes(f, m) : LowerInstr(in, idx) = <<c>>
  <1>1. TypedInstr(in) /\ InstrFits(in, f, m) /\ in.dst \in Int
    BY DEF GoodInstr, TypedInstr
  <1>2. Len(in.args) = 2 /\ in.dst \in 0 .. f.next_temp - 1
    BY <1>1 DEF InstrFits, HasResult, GoodInstr
  <1>3. PICK x, y : x = oper(in.args[1]) /\ y = oper(in.args[2])
    OBVIOUS
  <1>4. x \in Operand /\ (x.imm \/ x.reg \in 0 .. f.next_temp - 1)
        /\ y \in Operand /\ (y.imm \/ y.reg \in 0 .. f.next_temp - 1)
    BY <1>1, <1>2, <1>3, ArgsTyped
  <1>5. PICK op : op = bin_bop[in.op]
    OBVIOUS
  <1>6. op \in BinaryOps
    BY <1>5 DEF BinaryIROps, bin_bop, BinaryOps, ArithOps, CompareOps
  <1>7. PICK b : b = [NoBC EXCEPT !.op = op, !.dst = in.dst]
    OBVIOUS
  <1>8. PICK c : c = [b EXCEPT !.a = x, !.b = y]
    OBVIOUS
  <1>9. LowerInstr(in, idx) = <<[[NoBC EXCEPT !.op = bin_bop[in.op], !.dst = in.dst]
                                  EXCEPT !.a = oper(in.args[1]), !.b = oper(in.args[2])]>>
    BY DEF LowerInstr, BinaryIROps
  <1>10. LowerInstr(in, idx) = <<c>>
    BY <1>3, <1>5, <1>7, <1>8, <1>9, Zenon
  <1>11. b \in BC /\ b.op = op /\ b.dst = in.dst
    BY <1>1, <1>6, <1>7, OpSets, NoBCTyped DEF BC
  <1>12. c \in BC /\ c.a = x /\ c.b = y /\ c.op = op /\ c.dst = in.dst
    <2>1. c \in BC /\ c.a = x /\ c.b = y /\ c.op = b.op /\ c.dst = b.dst
      BY <1>4, <1>8, <1>11 DEF BC
    <2> QED
      BY <1>11, <2>1
  <1>13. GoodCode(c, f, m)
    BY <1>2, <1>4, <1>6, <1>12, OpSets DEF GoodCode
  <1> QED
    BY <1>10, <1>12, <1>13 DEF GoodCodes

LEMMA LowerBr ==
  ASSUME NEW f, NEW m, NEW in, GoodInstr(in, f, m), NEW idx, in.op = "br"
  PROVE  \E c \in GoodCodes(f, m) : LowerInstr(in, idx) = <<c>> /\ c.op = "Jmp"
  <1>1. in.dst \in Int /\ in.bb_true \in Int /\ in.bb_true \in BlockIds(f)
    BY DEF GoodInstr, TypedInstr
  <1>2. PICK b : b = [NoBC EXCEPT !.op = "Jmp", !.dst = in.dst]
    OBVIOUS
  <1>3. PICK c : c = [b EXCEPT !.target = in.bb_true]
    OBVIOUS
  <1>4. LowerInstr(in, idx) = <<[[NoBC EXCEPT !.op = "Jmp", !.dst = in.dst] EXCEPT !.target = in.bb_true]>>
    BY DEF LowerInstr
  <1>5. LowerInstr(in, idx) = <<c>>
    BY <1>2, <1>3, <1>4, Zenon
  <1>6. b \in BC /\ b.op = "Jmp"
    BY <1>1, <1>2, OpSets, NoBCTyped DEF BC
  <1>7. c \in BC /\ c.target = in.bb_true /\ c.op = "Jmp"
    <2>1. c \in BC /\ c.target = in.bb_true /\ c.op = b.op
      BY <1>1, <1>3, <1>6 DEF BC
    <2> QED
      BY <1>6, <2>1
  <1>8. GoodCode(c, f, m)
    BY <1>1, <1>7, OpSets DEF GoodCode
  <1> QED
    BY <1>5, <1>7, <1>8 DEF GoodCodes

LEMMA LowerCondbr ==
  ASSUME NEW f, f.next_temp \in Nat, NEW m, NEW in, GoodInstr(in, f, m), NEW idx, in.op = "condbr"
  PROVE  \E c, d \in GoodCodes(f, m) : LowerInstr(in, idx) = <<c, d>> /\ d.op = "Jmp"
  <1>1. TypedInstr(in) /\ InstrFits(in, f, m) /\ in.dst \in Int
        /\ in.bb_true \in Int /\ in.bb_true \in BlockIds(f) /\ in.bb_false \in Int /\ in.bb_false \in BlockIds(f)
    BY DEF GoodInstr, TypedInstr
  <1>2. Len(in.args) = 1
    BY <1>1 DEF InstrFits
  <1>3. PICK a : a = oper(in.args[1])
    OBVIOUS
  <1>4. a \in Operand /\ (a.imm \/ a.reg \in 0 .. f.next_temp - 1)
    BY <1>1, <1>2, <1>3, ArgsTyped
  <1>5. PICK b, j : b = [NoBC EXCEPT !.op = "JmpIfFalse", !.dst = in.dst] /\ j = [NoBC EXCEPT !.op = "Jmp", !.dst = in.dst]
    OBVIOUS
  <1>6. PICK c, d : c = [b EXCEPT !.a = a, !.target = in.bb_false] /\ d = [j EXCEPT !.target = in.bb_true]
    OBVIOUS
  <1>7. LowerInstr(in, idx)
          = <<[[NoBC EXCEPT !.op = "JmpIfFalse", !.dst = in.dst] EXCEPT !.a = oper(in.args[1]), !.target = in.bb_false],
              [[NoBC EXCEPT !.op = "Jmp", !.dst = in.dst] EXCEPT !.target = in.bb_true]>>
    BY DEF LowerInstr
  <1>8. LowerInstr(in, idx) = <<c, d>>
    BY <1>3, <1>5, <1>6, <1>7, Zenon
  <1>9. b \in BC /\ b.op = "JmpIfFalse" /\ j \in BC /\ j.op = "Jmp"
    <2>1. "JmpIfFalse" \in BOp /\ "Jmp" \in BOp /\ in.dst \in Int
      BY <1>1, OpSets
    <2>2. b \in BC /\ b.op = "JmpIfFalse"
      BY <1>5, <2>1, NoBCTyped DEF BC
    <2>3. j \in BC /\ j.op = "Jmp"
      BY <1>5, <2>1, NoBCTyped DEF BC
    <2> QED
      BY <2>2, <2>3
  <1>10. c \in BC /\ c.a = a /\ c.target = in.bb_false /\ c.op = "JmpIfFalse"
    <2>0. in.bb_false \in Int /\ a \in Operand /\ b \in BC
      BY <1>1, <1>4, <1>9
    <2>1. c \in BC /\ c.a = a /\ c.target = in.bb_false /\ c.op = b.op
      BY <1>6, <2>0 DEF BC
    <2> QED
      BY <1>9, <2>1
  <1>11. d \in BC /\ d.target = in.bb_true /\ d.op = "Jmp"
    <2>1. d \in BC /\ d.target = in.bb_true /\ d.op = j.op
      BY <1>1, <1>6, <1>9 DEF BC
    <2> QED
      BY <1>9, <2>1
  <1>12. GoodCode(c, f, m)
    BY <1>1, <1>4, <1>10, OpSets DEF GoodCode
  <1>13. GoodCode(d, f, m)
    BY <1>1, <1>11, OpSets DEF GoodCode
  <1> QED
    BY <1>8, <1>10, <1>11, <1>12, <1>13 DEF GoodCodes

LEMMA LowerRet ==
  ASSUME NEW f, f.next_temp \in Nat, NEW m, NEW in, GoodInstr(in, f, m), NEW idx, in.op = "ret"
  PROVE  \E c \in GoodCodes(f, m) : LowerInstr(in, idx) = <<c>> /\ c.op = "Ret"
  <1>1. TypedInstr(in) /\ InstrFits(in, f, m) /\ in.dst \in Int
    BY DEF GoodInstr, TypedInstr
  <1>2. PICK a : a = IF in.args = <<>> THEN Imm(0) ELSE oper(in.args[1])
    OBVIOUS
  <1>3. a \in Operand /\ (a.imm \/ a.reg \in 0 .. f.next_temp - 1)
    <2>1. CASE in.args = <<>>
      BY <1>2, <2>1, NoOperand DEF Imm
    <2>2. CASE in.args # <<>>
      <3>1. in.args \in Seq(Values)
        BY <1>1 DEF TypedInstr
      <3>2. 1 \in 1 .. Len(in.args)
        BY <2>2, <3>1, EmptySeq, LenProperties
      <3> QED
        BY <1>1, <1>2, <2>2, <3>2, ArgsTyped
    <2> QED
      BY <2>1, <2>2
  <1>4. PICK b : b = [NoBC EXCEPT !.op = "Ret", !.dst = in.dst]
    OBVIOUS
  <1>5. PICK c : c = [b EXCEPT !.a = a]
    OBVIOUS
  <1>6. LowerInstr(in, idx) = <<[[NoBC EXCEPT !.op = "Ret", !.dst = in.dst]
                                  EXCEPT !.a = IF in.args = <<>> THEN Imm(0) ELSE oper(in.args[1])]>>
    BY DEF LowerInstr
  <1>7. LowerInstr(in, idx) = <<c>>
    BY <1>2, <1>4, <1>5, <1>6, Zenon
  <1>8. b \in BC /\ b.op = "Ret"
    <2>1. "Ret" \in BOp /\ in.dst \in Int
      BY <1>1, OpSets
    <2> QED
      BY <1>4, <2>1, NoBCTyped DEF BC
  <1>9. c \in BC /\ c.a = a /\ c.op = "Ret"
    <2>1. c \in BC /\ c.a = a /\ c.op = b.op
      BY <1>3, <1>5, <1>8 DEF BC
    <2> QED
      BY <1>8, <2>1
  <1>10. GoodCode(c, f, m)
    BY <1>3, <1>9, OpSets DEF GoodCode
  <1> QED
    BY <1>7, <1>9, <1>10 DEF GoodCodes

(* idx gives the place of every function of m, from 0.                     *)
Numbers(idx, m) == \A i \in DOMAIN m : idx[m[i].name] = i - 1

LEMMA LowerCall ==
  ASSUME NEW f, f.next_temp \in Nat, NEW m, NEW n \in Nat, DOMAIN m = 1 .. n, Len(m) = n, NEW in, GoodInstr(in, f, m),
         NEW idx, Numbers(idx, m), in.op = "call"
  PROVE  \E c \in GoodCodes(f, m) : LowerInstr(in, idx) = <<c>>
  <1>1. TypedInstr(in) /\ InstrFits(in, f, m) /\ in.dst \in Int
    BY DEF GoodInstr, TypedInstr
  <1>2. in.dst \in 0 .. f.next_temp - 1
    BY <1>1 DEF InstrFits, HasResult, GoodInstr
  <1>3. PICK i \in 1 .. n : m[i].name = in.callee /\ Len(in.args) = m[i].num_params
    BY <1>1 DEF InstrFits
  <1>4. idx[in.callee] = i - 1
    BY <1>3 DEF Numbers
  <1>5. PICK callee : callee = idx[in.callee]
    OBVIOUS
  <1>6. callee \in Int /\ callee \in 0 .. n - 1 /\ callee + 1 = i
    BY <1>4, <1>5
  <1>7. PICK args : args = [k \in DOMAIN in.args |-> oper(in.args[k])]
    OBVIOUS
  <1>8. /\ args \in Seq(Operand) /\ Len(args) = Len(in.args)
        /\ \A k \in DOMAIN args : args[k].imm \/ args[k].reg \in 0 .. f.next_temp - 1
    <2>1. PICK k \in Nat : k = Len(in.args)
      BY <1>1, ArgsTyped
    <2>2. /\ DOMAIN in.args = 1 .. k
          /\ \A p \in 1 .. k : oper(in.args[p]) \in Operand
                              /\ (oper(in.args[p]).imm \/ oper(in.args[p]).reg \in 0 .. f.next_temp - 1)
      BY <1>1, <2>1, ArgsTyped
    <2>3. args \in [1 .. k -> Operand] /\ \A p \in 1 .. k : args[p] = oper(in.args[p])
      BY <1>7, <2>2
    <2>4. args \in Seq(Operand) /\ Len(args) = k /\ DOMAIN args = 1 .. k
      BY <2>3, SeqDef, LenProperties
    <2> QED
      BY <2>1, <2>2, <2>3, <2>4
  <1>9. PICK b : b = [NoBC EXCEPT !.op = "Call", !.dst = in.dst]
    OBVIOUS
  <1>10. PICK c : c = [b EXCEPT !.callee = callee, !.args = args]
    OBVIOUS
  <1>11. LowerInstr(in, idx) = <<[[NoBC EXCEPT !.op = "Call", !.dst = in.dst]
                                   EXCEPT !.callee = idx[in.callee], !.args = [k \in DOMAIN in.args |-> oper(in.args[k])]]>>
    BY DEF LowerInstr
  <1>12. LowerInstr(in, idx) = <<c>>
    BY <1>5, <1>7, <1>9, <1>10, <1>11, Zenon
  <1>13. b \in BC /\ b.op = "Call" /\ b.dst = in.dst
    <2>1. "Call" \in BOp /\ in.dst \in Int
      BY <1>1, OpSets
    <2> QED
      BY <1>9, <2>1, NoBCTyped DEF BC
  <1>14. c \in BC /\ c.callee = callee /\ c.args = args /\ c.op = "Call" /\ c.dst = in.dst
    <2>0. callee \in Int /\ args \in Seq(Operand) /\ b \in BC
      BY <1>6, <1>8, <1>13
    <2>1. c \in BC /\ c.callee = callee /\ c.args = args /\ c.op = b.op /\ c.dst = b.dst
      BY <1>10, <2>0 DEF BC
    <2> QED
      BY <1>13, <2>1
  <1>15. GoodCode(c, f, m)
    BY <1>2, <1>3, <1>6, <1>8, <1>14, OpSets DEF GoodCode
  <1> QED
    BY <1>12, <1>14, <1>15 DEF GoodCodes

(* One instruction becomes one instruction or two, the last of which does  *)
(* not fall through when it is a terminator.                               *)
LEMMA LowerOne ==
  ASSUME NEW f, f.next_temp \in Nat, NEW m, NEW n \in Nat, DOMAIN m = 1 .. n, Len(m) = n, NEW in, GoodInstr(in, f, m),
         NEW idx, Numbers(idx, m)
  PROVE  /\ LowerInstr(in, idx) \in Seq(GoodCodes(f, m)) /\ LowerInstr(in, idx) # <<>>
         /\ op_is_terminator(in.op)
              => LowerInstr(in, idx)[Len(LowerInstr(in, idx))].op \in {"Jmp", "Ret"}
  <1>1. in.op \in Ops
    BY DEF GoodInstr, TypedInstr
  <1>2. ASSUME NEW c \in GoodCodes(f, m), NEW s, s = <<c>>
        PROVE  s \in Seq(GoodCodes(f, m)) /\ s # <<>> /\ s[Len(s)] = c
    BY <1>2
  <1>3. ASSUME NEW c \in GoodCodes(f, m), NEW d \in GoodCodes(f, m), NEW s, s = <<c, d>>
        PROVE  s \in Seq(GoodCodes(f, m)) /\ s # <<>> /\ s[Len(s)] = d
    BY <1>3
  <1>4. CASE in.op \in BinaryIROps
    <2>1. ~op_is_terminator(in.op)
      BY <1>4 DEF BinaryIROps, op_is_terminator, Terminators
    <2> QED
      BY <1>2, <1>4, <2>1, LowerBinary
  <1>5. CASE in.op \in {"const", "copy", "neg", "not", "print"}
    <2>1. ~op_is_terminator(in.op)
      BY <1>5 DEF op_is_terminator, Terminators
    <2>2. PICK c \in GoodCodes(f, m) : LowerInstr(in, idx) = <<c>>
      BY <1>5, LowerUnary
    <2> QED
      BY <1>2, <2>1, <2>2
  <1>6. CASE in.op \in {"load", "store", "call"}
    <2>1. ~op_is_terminator(in.op)
      BY <1>6 DEF op_is_terminator, Terminators
    <2>2. PICK c \in GoodCodes(f, m) : LowerInstr(in, idx) = <<c>>
      BY <1>6, LowerLoad, LowerStore, LowerCall
    <2> QED
      BY <1>2, <2>1, <2>2
  <1>7. CASE in.op \in {"br", "ret"}
    <2>1. PICK c \in GoodCodes(f, m) : LowerInstr(in, idx) = <<c>> /\ c.op \in {"Jmp", "Ret"}
      BY <1>7, LowerBr, LowerRet
    <2> QED
      BY <1>2, <2>1
  <1>8. CASE in.op = "condbr"
    <2>1. PICK c \in GoodCodes(f, m), d \in GoodCodes(f, m) : LowerInstr(in, idx) = <<c, d>> /\ d.op = "Jmp"
      BY <1>8, LowerCondbr
    <2> QED
      BY <1>3, <2>1
  <1> QED
    BY <1>1, <1>4, <1>5, <1>6, <1>7, <1>8 DEF Ops, Terminators
-----------------------------------------------------------------------------
(* One function.                                                           *)

(* What Sound and FunctionFits say of the instructions of f, one by one.   *)
LEMMA GoodFunction ==
  ASSUME NEW f, NEW m, Sound(f), FunctionFits(f, m)
  PROVE  /\ Laid(f) /\ f.next_temp \in Nat
         /\ \A k \in 1 .. Len(f.blocks) :
              /\ Len(f.blocks[k]) > 0 /\ op_is_terminator(f.blocks[k][Len(f.blocks[k])].op)
              /\ \A i \in 1 .. Len(f.blocks[k]) : GoodInstr(f.blocks[k][i], f, m)
  <1>1. Laid(f) /\ f.next_temp \in Nat
    BY TypedIsLaid DEF Sound, TypedFunction
  <1>2. ASSUME NEW k \in 1 .. Len(f.blocks)
        PROVE  /\ Len(f.blocks[k]) > 0 /\ op_is_terminator(f.blocks[k][Len(f.blocks[k])].op)
               /\ \A i \in 1 .. Len(f.blocks[k]) : GoodInstr(f.blocks[k][i], f, m)
    <2>1. k - 1 \in BlockIds(f) /\ Block(f, k - 1) = f.blocks[k]
      BY <1>1, PositionProperties DEF Laid
    <2>2. PICK s : s = f.blocks[k]
      OBVIOUS
    <2>3. /\ s # <<>>
          /\ \A i \in DOMAIN s : op_is_terminator(s[i].op) <=> i = Len(s)
          /\ Last(s).op \in {"br", "condbr"} => Last(s).bb_true \in BlockIds(f)
          /\ Last(s).op = "condbr" => Last(s).bb_false \in BlockIds(f)
      <3>1. CFGWellFormed(f) /\ Block(f, k - 1) = s
        BY <2>1, <2>2 DEF Sound, WellFormed
      <3> QED
        BY <2>1, <3>1, Zenon DEF CFGWellFormed
    <2>4. Len(s) \in Nat /\ DOMAIN s = 1 .. Len(s)
      BY <1>1, <2>2 DEF Laid
    <2>5. IsSequence(s)
      BY <1>1, <2>2 DEF Sound, TypedFunction, Laid
    <2>6. Len(s) > 0
      <3>1. ASSUME Len(s) = 0 PROVE FALSE
        BY <2>3, <2>5, <3>1, EmptySeq DEF IsSequence
      <3> QED
        BY <2>4, <3>1
    <2>7. ASSUME NEW i \in 1 .. Len(s)
          PROVE  GoodInstr(s[i], f, m)
      <3>1. Place(f, k, i)
        BY <2>2, <2>7 DEF Place
      <3>2. TypedInstr(s[i]) /\ s[i] \in InstrsOf(f)
        BY <2>2, <3>1, TypedInstructions
      <3>3. InstrFits(s[i], f, m)
        BY <1>1, <2>2, <2>4 DEF FunctionFits, Laid
      <3>4. s[i].dst # -1 => s[i].dst \in 0 .. f.next_temp - 1
        <4>1. <<k - 1, i>> \in Positions(f) /\ At(f, <<k - 1, i>>) = s[i]
          BY <1>1, <2>2, PositionProperties
        <4>2. SingleAssignment(f)
          BY DEF Sound, WellFormed
        <4> QED
          BY <4>1, <4>2, Zenon DEF SingleAssignment
      <3>5. s[i].op \in {"load", "store"} => s[i].slot \in 0 .. f.num_slots - 1
        BY <3>2 DEF Sound, WellFormed, SlotsInRange
      <3>6. s[i].op \in {"br", "condbr"} => i = Len(s) /\ Last(s) = s[i]
        BY <2>3, <2>4 DEF op_is_terminator, Terminators, Last
      <3> QED
        BY <2>3, <3>2, <3>3, <3>4, <3>5, <3>6 DEF GoodInstr
    <2>8. op_is_terminator(s[Len(s)].op)
      BY <2>3, <2>4, <2>6
    <2> QED
      BY <2>2, <2>6, <2>7, <2>8
  <1> QED
    BY <1>1, <1>2

LEMMA LowerBlockGood ==
  ASSUME NEW f, f.next_temp \in Nat, NEW m, NEW n \in Nat, DOMAIN m = 1 .. n, Len(m) = n,
         NEW idx, Numbers(idx, m), NEW block, NEW k \in Nat \ {0}, DOMAIN block = 1 .. k,
         \A i \in 1 .. k : GoodInstr(block[i], f, m), op_is_terminator(block[k].op)
  PROVE  /\ LowerBlock(block, idx) \in Seq(GoodCodes(f, m)) /\ LowerBlock(block, idx) # <<>>
         /\ LowerBlock(block, idx)[Len(LowerBlock(block, idx))].op \in {"Jmp", "Ret"}
  <1>1. PICK S : S = GoodCodes(f, m)
    OBVIOUS
  <1>2. PICK ss : ss = [i \in 1 .. k |-> LowerInstr(block[i], idx)]
    OBVIOUS
  <1>3. \A i \in 1 .. k : /\ LowerInstr(block[i], idx) \in Seq(S) /\ LowerInstr(block[i], idx) # <<>>
                          /\ op_is_terminator(block[i].op)
                               => LowerInstr(block[i], idx)[Len(LowerInstr(block[i], idx))].op \in {"Jmp", "Ret"}
    BY <1>1, LowerOne
  <1>4. /\ \A i \in 1 .. k : ss[i] \in Seq(S) /\ ss[i] # <<>>
        /\ ss[k][Len(ss[k])].op \in {"Jmp", "Ret"}
    BY <1>2, <1>3
  <1>5. ss \in Seq(Seq(S)) /\ Len(ss) = k
    <2>1. ss \in [1 .. k -> Seq(S)]
      BY <1>2, <1>3
    <2> QED
      BY <2>1, SeqDef, LenProperties
  <1>6. PICK flat : flat = FlattenSeq(ss)
    OBVIOUS
  <1>7. flat \in Seq(S) /\ Len(flat) \in Nat \ {0} /\ flat[Len(flat)] = ss[k][Len(ss[k])]
    BY <1>4, <1>5, <1>6, Flattened
  <1>8. LowerBlock(block, idx) = flat
    BY <1>2, <1>6, Zenon DEF LowerBlock
  <1>9. flat # <<>>
    BY <1>7, EmptySeq
  <1> QED
    BY <1>1, <1>4, <1>7, <1>8, <1>9

(* A jump's block replaced by its place in the code.                       *)
Patched(code, c) == IF c.op \in {"Jmp", "JmpIfFalse"} THEN [c EXCEPT !.target = block_start(code, @)] ELSE c

LEMMA PatchedIs ==
  ASSUME NEW code, NEW c \in BC, c.op \in {"Jmp", "JmpIfFalse"} => block_start(code, c.target) \in Int
  PROVE  /\ Patched(code, c) \in BC
         /\ Patched(code, c).op = c.op
         /\ Patched(code, c).dst = c.dst /\ Patched(code, c).a = c.a /\ Patched(code, c).b = c.b
         /\ Patched(code, c).slot_idx = c.slot_idx /\ Patched(code, c).callee = c.callee
         /\ Patched(code, c).args = c.args
         /\ c.op \in {"Jmp", "JmpIfFalse"} => Patched(code, c).target = block_start(code, c.target)
  <1>1. CASE c.op \in {"Jmp", "JmpIfFalse"}
    <2>1. PICK t : t = block_start(code, c.target)
      OBVIOUS
    <2>2. Patched(code, c) = [c EXCEPT !.target = t]
      BY <1>1, <2>1 DEF Patched
    <2> QED
      BY <1>1, <2>1, <2>2 DEF BC
  <1>2. CASE c.op \notin {"Jmp", "JmpIfFalse"}
    BY <1>2 DEF Patched
  <1> QED
    BY <1>1, <1>2

(* The code of f, in a program that has as many functions as m.            *)
LEMMA LowerFn ==
  ASSUME NEW f, NEW m, NEW n \in Nat, DOMAIN m = 1 .. n, Len(m) = n, Sound(f), FunctionFits(f, m),
         NEW idx, Numbers(idx, m), NEW g, g = lower_fn(f, idx)
  PROVE  /\ g \in BCFunction /\ g.num_params = f.num_params /\ g.num_slots = f.num_slots
         /\ g.num_params <= g.num_slots
         /\ \A p : Len(p.funcs) = n => BCFunctionOK(g, p)
         /\ \A i \in DOMAIN g.code : g.code[i].op = "Call" => /\ g.code[i].callee + 1 \in 1 .. n
                                                            /\ Len(g.code[i].args) = m[g.code[i].callee + 1].num_params
  <1>1. /\ Laid(f) /\ f.next_temp \in Nat
        /\ \A k \in 1 .. Len(f.blocks) :
              /\ Len(f.blocks[k]) > 0 /\ op_is_terminator(f.blocks[k][Len(f.blocks[k])].op)
              /\ \A i \in 1 .. Len(f.blocks[k]) : GoodInstr(f.blocks[k][i], f, m)
    BY GoodFunction
  <1>2. PICK N \in Nat \ {0} : N = Len(f.blocks) /\ DOMAIN f.blocks = 1 .. N
    BY <1>1 DEF Laid
  <1>3. PICK S : S = GoodCodes(f, m)
    OBVIOUS
  <1>4. PICK code : code = [k \in 1 .. N |-> LowerBlock(f.blocks[k], idx)]
    OBVIOUS
  <1>5. ASSUME NEW k \in 1 .. N
        PROVE  code[k] \in Seq(S) /\ code[k] # <<>> /\ code[k][Len(code[k])].op \in {"Jmp", "Ret"}
    <2>1. PICK block : block = f.blocks[k]
      OBVIOUS
    <2>2. PICK l \in Nat \ {0} : l = Len(block) /\ DOMAIN block = 1 .. l
      BY <1>1, <1>2, <2>1 DEF Laid
    <2>3. (\A i \in 1 .. l : GoodInstr(block[i], f, m)) /\ op_is_terminator(block[l].op)
      BY <1>1, <1>2, <2>1, <2>2
    <2>4. /\ LowerBlock(block, idx) \in Seq(GoodCodes(f, m)) /\ LowerBlock(block, idx) # <<>>
          /\ LowerBlock(block, idx)[Len(LowerBlock(block, idx))].op \in {"Jmp", "Ret"}
      BY <1>1, <2>2, <2>3, LowerBlockGood
    <2>5. code[k] = LowerBlock(block, idx)
      BY <1>4, <2>1
    <2> QED
      BY <1>3, <2>4, <2>5
  <1>6. code \in Seq(Seq(S)) /\ Len(code) = N
    <2>1. code \in [1 .. N -> Seq(S)]
      BY <1>4, <1>5
    <2> QED
      BY <2>1, SeqDef, LenProperties
  <1>7. PICK flat : flat = FlattenSeq(code)
    OBVIOUS
  <1>8. PICK L : L = Len(flat)
    OBVIOUS
  <1>9. /\ flat \in Seq(S) /\ L \in Nat \ {0} /\ flat[L] = code[N][Len(code[N])]
        /\ \A b \in 0 .. N - 1 : Len(FlattenSeq(SubSeq(code, 1, b))) \in 0 .. L - 1
    BY <1>5, <1>6, <1>7, <1>8, Flattened
  <1>10. \A b \in BlockIds(f) : block_start(code, b) \in 0 .. L - 1
    BY <1>2, <1>9 DEF block_start, BlockIds
  <1>11. flat[L].op \in {"Jmp", "Ret"} /\ DOMAIN flat = 1 .. L
    BY <1>5, <1>8, <1>9, LenProperties
  <1>12. g = [num_regs |-> f.next_temp, num_slots |-> f.num_slots, num_params |-> f.num_params,
              code |-> [i \in DOMAIN flat |-> Patched(code, flat[i])]]
    <2>1. code = [k \in DOMAIN f.blocks |-> LowerBlock(f.blocks[k], idx)]
      BY <1>2, <1>4, Zenon
    <2> QED
      BY <1>7, <2>1, Zenon DEF lower_fn, Patched
  <1>13. /\ g.num_regs = f.next_temp /\ g.num_slots = f.num_slots /\ g.num_params = f.num_params
         /\ g.code = [i \in 1 .. L |-> Patched(code, flat[i])]
    BY <1>11, <1>12
  <1>14. ASSUME NEW i \in 1 .. L
         PROVE  /\ g.code[i] = Patched(code, flat[i]) /\ flat[i] \in BC /\ GoodCode(flat[i], f, m)
                /\ g.code[i] \in BC
                /\ flat[i].op \in {"Jmp", "JmpIfFalse"} => block_start(code, flat[i].target) \in Int
    <2>1. flat[i] \in S
      BY <1>8, <1>9, ElementOfSeq
    <2>2. flat[i] \in BC /\ GoodCode(flat[i], f, m)
      BY <1>3, <2>1 DEF GoodCodes
    <2>3. flat[i].op \in {"Jmp", "JmpIfFalse"} => block_start(code, flat[i].target) \in Int
      BY <1>9, <1>10, <2>2 DEF GoodCode
    <2>4. g.code[i] = Patched(code, flat[i])
      BY <1>13
    <2>5. Patched(code, flat[i]) \in BC
      BY <2>2, <2>3, PatchedIs
    <2> QED
      BY <2>2, <2>3, <2>4, <2>5
  <1>15. g.code \in Seq(BC) /\ Len(g.code) = L /\ DOMAIN g.code = 1 .. L
    <2>1. g.code \in [1 .. L -> BC]
      BY <1>13, <1>14
    <2> QED
      BY <1>9, <2>1, SeqDef, LenProperties
  <1>16. f.num_params \in 0 .. f.num_slots /\ f.num_slots \in Nat /\ f.num_params \in Nat
    <2>1. f.num_params \in 0 .. f.num_slots /\ f.num_slots \in Int
      BY DEF FunctionFits, Sound, TypedFunction
    <2> QED
      BY <2>1
  <1>17. g \in BCFunction
    BY <1>1, <1>12, <1>13, <1>15, <1>16 DEF BCFunction
  <1>18. ASSUME NEW p, Len(p.funcs) = n, NEW i \in 1 .. L
         PROVE  BCOK(g.code[i], i - 1, g, p)
    <2>1. PICK c, d : c = flat[i] /\ d = g.code[i]
      OBVIOUS
    <2>2. c \in BC /\ d = Patched(code, c) /\ GoodCode(c, f, m)
          /\ (c.op \in {"Jmp", "JmpIfFalse"} => block_start(code, c.target) \in Int)
      BY <1>14, <2>1
    <2>3. /\ d.op = c.op /\ d.dst = c.dst /\ d.a = c.a /\ d.b = c.b /\ d.slot_idx = c.slot_idx
          /\ d.callee = c.callee /\ d.args = c.args
          /\ c.op \in {"Jmp", "JmpIfFalse"} => d.target = block_start(code, c.target)
      BY <2>2, PatchedIs
    <2>4. c.op \in {"Jmp", "JmpIfFalse"} => d.target \in 0 .. Len(g.code) - 1
      BY <1>10, <1>15, <2>2, <2>3 DEF GoodCode
    <2>5. c.op \notin {"Jmp", "Ret"} => (i - 1) + 1 < Len(g.code)
      BY <1>9, <1>11, <1>15, <2>1
    <2>6. BCOK(d, i - 1, g, p)
      BY <1>13, <1>18, <2>2, <2>3, <2>4, <2>5 DEF BCOK, GoodCode, OperandOK
    <2> QED
      BY <2>1, <2>6
  <1>19. \A p : Len(p.funcs) = n => BCFunctionOK(g, p)
    BY <1>9, <1>15, <1>18 DEF BCFunctionOK
  <1>20. ASSUME NEW i \in 1 .. L, g.code[i].op = "Call"
         PROVE  g.code[i].callee + 1 \in 1 .. n /\ Len(g.code[i].args) = m[g.code[i].callee + 1].num_params
    <2>1. PICK c, d : c = flat[i] /\ d = g.code[i]
      OBVIOUS
    <2>2. c \in BC /\ d = Patched(code, c) /\ GoodCode(c, f, m)
          /\ (c.op \in {"Jmp", "JmpIfFalse"} => block_start(code, c.target) \in Int)
      BY <1>14, <2>1
    <2>3. d.op = c.op /\ d.callee = c.callee /\ d.args = c.args
      BY <2>2, PatchedIs
    <2> QED
      BY <1>20, <2>1, <2>2, <2>3 DEF GoodCode
  <1> QED
    BY <1>13, <1>15, <1>16, <1>17, <1>19, <1>20
-----------------------------------------------------------------------------
(* The whole program.                                                      *)

(* Of functions of different names one has the name of the i-th.           *)
LEMMA FunctionsNumbered ==
  ASSUME NEW m, NEW n \in Nat, DOMAIN m = 1 .. n,
         \A i, j \in DOMAIN m : m[i].name = m[j].name => i = j, NEW i \in 1 .. n
  PROVE  { j \in 1 .. n : m[j].name = m[i].name } # {} /\ Max({ j \in 1 .. n : m[j].name = m[i].name }) = i
  <1>1. { j \in 1 .. n : m[j].name = m[i].name } = {i}
    OBVIOUS
  <1>2. Max({i}) = i
    BY DEF Max
  <1> QED
    BY <1>1, <1>2

LEMMA CodegenIs ==
  ASSUME NEW m, NEW n \in Nat, DOMAIN m = 1 .. n, Len(m) = n,
         \A i, j \in DOMAIN m : m[i].name = m[j].name => i = j
  PROVE  \E idx : /\ Numbers(idx, m)
                 /\ codegen(m).funcs = [i \in 1 .. n |-> lower_fn(m[i], idx)]
                 /\ \A i \in 1 .. n : m[i].name = "main" => codegen(m).main_index = i - 1
                 /\ codegen(m) = [funcs |-> codegen(m).funcs, main_index |-> codegen(m).main_index]
  <1> DEFINE names == { m[i].name : i \in DOMAIN m }
             idx == [x \in names |-> SelectLastInSeq(m, LAMBDA f : f.name = x) - 1]
  <1>1. Numbers(idx, m)
    <2> SUFFICES ASSUME NEW i \in 1 .. n PROVE idx[m[i].name] = i - 1
      BY DEF Numbers
    <2>1. idx[m[i].name] = SelectLastInSeq(m, LAMBDA f : f.name = m[i].name) - 1
      OBVIOUS
    <2> HIDE DEF idx
    <2>2. SelectLastInSeq(m, LAMBDA f : f.name = m[i].name) = i
      <3>1. PICK I : I = { j \in 1 .. n : m[j].name = m[i].name }
        OBVIOUS
      <3>2. I # {} /\ Max(I) = i
        BY <3>1, FunctionsNumbered
      <3>3. SelectLastInSeq(m, LAMBDA f : f.name = m[i].name) = IF I # {} THEN Max(I) ELSE 0
        BY <3>1 DEF SelectLastInSeq
      <3> QED
        BY <3>2, <3>3
    <2> QED
      BY <2>1, <2>2, Zenon
  <1>2. codegen(m) = [funcs |-> [i \in DOMAIN m |-> lower_fn(m[i], idx)],
                      main_index |-> IF "main" \in names THEN idx["main"] ELSE -1]
    BY Zenon DEF codegen
  <1>3. ASSUME NEW i \in 1 .. n, m[i].name = "main"
        PROVE  "main" \in names /\ idx["main"] = i - 1
    <2>1. "main" \in names
      BY <1>3
    <2>2. idx["main"] = i - 1
      <3> HIDE DEF idx
      <3> QED
        BY <1>1, <1>3, Zenon DEF Numbers
    <2> QED
      BY <2>1, <2>2
  <1> HIDE DEF idx, names
  <1> QED
    BY <1>1, <1>2, <1>3

(* The code generated from a module that is what codegen.cpp takes it for. *)
LEMMA CodegenIsSafe ==
  ASSUME NEW m, m = [i \in DOMAIN m |-> m[i]], NEW n \in Nat, DOMAIN m = 1 .. n, Len(m) = n,
         \A i \in DOMAIN m : Sound(m[i]), Lowerable(m)
  PROVE  SafeProgram(codegen(m))
  <1>1. PICK idx : /\ Numbers(idx, m)
                   /\ codegen(m).funcs = [i \in 1 .. n |-> lower_fn(m[i], idx)]
                   /\ \A i \in 1 .. n : m[i].name = "main" => codegen(m).main_index = i - 1
                   /\ codegen(m) = [funcs |-> codegen(m).funcs, main_index |-> codegen(m).main_index]
    BY CodegenIs DEF Lowerable
  <1>2. PICK p : p = codegen(m)
    OBVIOUS
  <1>3. PICK main \in 1 .. n : m[main].name = "main" /\ m[main].num_params = 0
    BY DEF Lowerable
  <1>4. p.main_index = main - 1
    BY <1>1, <1>2, <1>3
  <1>5. ASSUME NEW i \in 1 .. n
        PROVE  /\ p.funcs[i] \in BCFunction /\ p.funcs[i].num_params = m[i].num_params
               /\ p.funcs[i].num_params <= p.funcs[i].num_slots
               /\ \A q : Len(q.funcs) = n => BCFunctionOK(p.funcs[i], q)
               /\ \A j \in DOMAIN p.funcs[i].code :
                    LET c == p.funcs[i].code[j]
                    IN  c.op = "Call" => c.callee + 1 \in 1 .. n /\ Len(c.args) = m[c.callee + 1].num_params
    <2>1. PICK f, g : f = m[i] /\ g = lower_fn(f, idx)
      OBVIOUS
    <2>2. p.funcs[i] = g
      BY <1>1, <1>2, <2>1
    <2>3. Sound(f) /\ FunctionFits(f, m)
      BY <2>1 DEF Lowerable
    <2>4. /\ g \in BCFunction /\ g.num_params = f.num_params
          /\ g.num_params <= g.num_slots
          /\ \A q : Len(q.funcs) = n => BCFunctionOK(g, q)
          /\ \A j \in DOMAIN g.code : g.code[j].op = "Call" =>
               g.code[j].callee + 1 \in 1 .. n /\ Len(g.code[j].args) = m[g.code[j].callee + 1].num_params
      BY <1>1, <2>1, <2>3, LowerFn
    <2> QED
      BY <2>1, <2>2, <2>4
  <1>6. p.funcs \in Seq(BCFunction) /\ Len(p.funcs) = n /\ DOMAIN p.funcs = 1 .. n
    <2>1. p.funcs \in [1 .. n -> BCFunction]
      BY <1>1, <1>2, <1>5
    <2> QED
      BY <2>1, SeqDef, LenProperties
  <1>7. p \in BCProgram
    <2>1. p = [funcs |-> p.funcs, main_index |-> p.main_index]
      BY <1>1, <1>2, Zenon
    <2>2. p.main_index \in Int
      BY <1>4
    <2> QED
      BY <1>6, <2>1, <2>2 DEF BCProgram
  <1>8. ProgramOK(p)
    <2>1. p.main_index \in -1 .. Len(p.funcs) - 1
      BY <1>4, <1>6
    <2>2. \A i \in DOMAIN p.funcs : BCFunctionOK(p.funcs[i], p)
      BY <1>5, <1>6
    <2> QED
      BY <1>7, <2>1, <2>2 DEF ProgramOK
  <1>9. CallsFit(p)
    <2>1. ASSUME NEW i \in DOMAIN p.funcs, NEW j \in DOMAIN p.funcs[i].code, p.funcs[i].code[j].op = "Call"
          PROVE  Len(p.funcs[i].code[j].args) = p.funcs[p.funcs[i].code[j].callee + 1].num_params
      <3>1. i \in 1 .. n
        BY <1>6
      <3>2. PICK k : k = p.funcs[i].code[j].callee + 1
        OBVIOUS
      <3>3. k \in 1 .. n /\ Len(p.funcs[i].code[j].args) = m[k].num_params
        BY <1>5, <2>1, <3>1, <3>2
      <3>4. p.funcs[k].num_params = m[k].num_params
        BY <1>5, <3>3
      <3> QED
        BY <3>2, <3>3, <3>4
    <2>2. p.funcs[p.main_index + 1].num_params = 0
      <3>1. p.main_index + 1 = main
        BY <1>4
      <3> QED
        BY <1>3, <1>5, <3>1
    <2>3. \A i \in DOMAIN p.funcs : p.funcs[i].num_params <= p.funcs[i].num_slots
      BY <1>5, <1>6
    <2> QED
      BY <2>1, <2>2, <2>3 DEF CallsFit
  <1>10. p.main_index >= 0
    BY <1>4
  <1> QED
    BY <1>2, <1>8, <1>9, <1>10 DEF SafeProgram
-----------------------------------------------------------------------------
(* The passes keep what codegen.cpp takes for granted.                     *)

(* What the rest of the module and codegen.cpp see of a function besides   *)
(* its blocks.                                                             *)
SameOutside(g, f) ==
  g.name = f.name /\ g.num_params = f.num_params /\ g.num_slots = f.num_slots /\ g.next_temp = f.next_temp

LEMMA OtherBlocksSameOutside ==
  ASSUME NEW f, Sound(f), NEW blocks
  PROVE  SameOutside([f EXCEPT !.blocks = blocks], f) /\ [f EXCEPT !.blocks = blocks].blocks = blocks
  <1>1. f \in [name : {f.name}, num_params : Int, num_slots : Int, next_temp : Nat, blocks : {f.blocks}]
    BY DEF Sound, TypedFunction
  <1> QED
    BY <1>1 DEF SameOutside

LEMMA AllFit ==
  ASSUME NEW f, NEW m, FunctionFits(f, m), NEW g, SameOutside(g, f),
         \A k \in DOMAIN g.blocks : \A i \in DOMAIN g.blocks[k] : InstrFits(g.blocks[k][i], f, m)
  PROVE  FunctionFits(g, m)
  <1>1. ASSUME NEW in, InstrFits(in, f, m)
        PROVE  InstrFits(in, g, m)
    <2>1. \A v : ValueFits(v, f) <=> ValueFits(v, g)
      BY DEF ValueFits, SameOutside
    <2> QED
      BY <1>1, <2>1, Zenon DEF InstrFits
  <1> QED
    BY <1>1 DEF FunctionFits, SameOutside

(* The instructions of f, one by one.                                      *)
LEMMA FittingInstructions ==
  ASSUME NEW f, NEW m, Sound(f), FunctionFits(f, m)
  PROVE  /\ \A k \in DOMAIN f.blocks : \A i \in DOMAIN f.blocks[k] :
              TypedInstr(f.blocks[k][i]) /\ InstrFits(f.blocks[k][i], f, m)
         /\ \A in \in InstrsOf(f) : TypedInstr(in) /\ InstrFits(in, f, m)
  <1>1. /\ Laid(f)
        /\ \A k, i : Place(f, k, i) => TypedInstr(f.blocks[k][i]) /\ f.blocks[k][i] \in InstrsOf(f)
        /\ \A in \in InstrsOf(f) : \E k, i : Place(f, k, i) /\ in = f.blocks[k][i]
    BY TypedInstructions
  <1>2. \A k, i : Place(f, k, i) <=> k \in DOMAIN f.blocks /\ i \in DOMAIN f.blocks[k]
    BY <1>1 DEF Laid, Place
  <1>3. \A k \in DOMAIN f.blocks : \A i \in DOMAIN f.blocks[k] : InstrFits(f.blocks[k][i], f, m)
    BY DEF FunctionFits
  <1>4. \A k, i : Place(f, k, i) => InstrFits(f.blocks[k][i], f, m)
    BY <1>2, <1>3, Zenon
  <1>5. \A k \in DOMAIN f.blocks : \A i \in DOMAIN f.blocks[k] : TypedInstr(f.blocks[k][i])
    BY <1>1, <1>2, Zenon
  <1>6. ASSUME NEW in \in InstrsOf(f)
        PROVE  TypedInstr(in) /\ InstrFits(in, f, m)
    <2>1. PICK k, i : Place(f, k, i) /\ in = f.blocks[k][i]
      BY <1>1, Zenon
    <2> QED
      BY <1>1, <1>4, <2>1, Zenon
  <1> QED
    BY <1>3, <1>5, <1>6, Zenon

LEMMA ArgumentsFit ==
  ASSUME NEW f, NEW m, NEW in, TypedInstr(in), InstrFits(in, f, m)
  PROVE  /\ Len(in.args) \in Nat /\ DOMAIN in.args = 1 .. Len(in.args)
         /\ \A i \in 1 .. Len(in.args) : in.args[i] \in Values /\ ValueFits(in.args[i], f)
  <1>1. in.args \in Seq(Values)
    BY DEF TypedInstr
  <1>2. Len(in.args) \in Nat /\ DOMAIN in.args = 1 .. Len(in.args)
    BY <1>1, LenProperties
  <1> QED
    BY <1>1, <1>2, ElementOfSeq DEF InstrFits

(* The instructions that passes put in the place of another.               *)
LEMMA OneOperandFits ==
  ASSUME NEW f, NEW m, NEW op \in {"const", "copy"}, NEW dst, dst # -1, NEW v, ValueFits(v, f)
  PROVE  InstrFits(Ins(op, dst, <<v>>), f, m)
  <1>1. PICK in : in = Ins(op, dst, <<v>>)
    OBVIOUS
  <1>2. in.op = op /\ in.dst = dst /\ in.args = <<v>>
    BY <1>1, InsIs
  <1>3. \A i \in DOMAIN in.args : in.args[i] = v
    BY <1>2
  <1>4. op \notin BinaryIROps
    BY DEF BinaryIROps
  <1> QED
    BY <1>1, <1>2, <1>3, <1>4 DEF InstrFits

LEMMA MakeConstFits ==
  ASSUME NEW f, NEW m, NEW in, in.dst # -1, NEW c \in Word
  PROVE  InstrFits(make_const(in, c), f, m)
  <1>1. ValueFits(Const(c), f)
    BY DEF ValueFits, Const, is_const
  <1> QED
    BY <1>1, OneOperandFits DEF make_const

LEMMA MakeCopyFits ==
  ASSUME NEW f, NEW m, NEW in, in.dst # -1, NEW v, ValueFits(v, f)
  PROVE  InstrFits(make_copy(in, v), f, m)
  BY OneOperandFits DEF make_copy

-----------------------------------------------------------------------------
(* Constant folding: what is folded is a word.                             *)
LEMMA SmallWords == {0, 1, MinInt} \subseteq Word /\ Word \subseteq Int
  BY MaxIntAssumption DEF Word, MinInt

LEMMA FoldBinaryWord ==
  ASSUME NEW op, NEW a \in Word, NEW b \in Word
  PROVE  fold_binary(op, a, b).out \in Word
  <1>1. a \in Int /\ b \in Int
    BY SmallWords
  <1>2. \A p : Bit(p) \in Word
    BY SmallWords DEF Bit
  <1>3. Wrap(a + b) \in Word /\ Wrap(a - b) \in Word /\ Wrap(a * b) \in Word
    BY <1>1, WrapWord
  <1>4. b # 0 => FoldDiv(a, b) \in Word /\ FoldMod(a, b) \in Word
    BY SmallWords, TruncDivWord, TruncModWord DEF FoldDiv, FoldMod
  <1>5. CASE op \in {"div", "mod"} /\ b = 0
    BY <1>5, SmallWords DEF fold_binary, NotFolded
  <1>6. CASE ~(op \in {"div", "mod"} /\ b = 0) /\ op \in BinaryIROps
    BY <1>2, <1>3, <1>4, <1>6 DEF fold_binary, Folded, BinaryIROps
  <1>7. CASE op \notin BinaryIROps
    <2>1. fold_binary(op, a, b) = NotFolded
      BY <1>7, Zenon DEF fold_binary, BinaryIROps
    <2> QED
      BY <2>1, SmallWords DEF NotFolded
  <1> QED
    BY <1>5, <1>6, <1>7

LEMMA FoldWord ==
  ASSUME NEW f, NEW m, NEW in, TypedInstr(in), InstrFits(in, f, m), FoldOf(in).ok
  PROVE  FoldOf(in).out \in Word
  <1>1. ~(in.dst < 0 \/ in.op \in {"const", "copy"} \/ ~AllConst(in))
    BY DEF FoldOf, NotFolded
  <1>2. \A i \in 1 .. Len(in.args) : in.args[i].n \in Word
    <2>1. \A i \in 1 .. Len(in.args) : ValueFits(in.args[i], f) /\ is_const(in.args[i])
      BY <1>1, ArgumentsFit DEF AllConst
    <2> QED
      BY <2>1 DEF ValueFits
  <1>3. (Len(in.args) = 1 => in.args[1].n \in Word) /\ (Len(in.args) = 2 => in.args[1].n \in Word /\ in.args[2].n \in Word)
    BY <1>2
  <1>4. CASE in.op = "neg" /\ Len(in.args) = 1
    <2>1. FoldOf(in) = Folded(Wrap(0 - in.args[1].n))
      BY <1>1, <1>4 DEF FoldOf, FoldNeg
    <2>2. ASSUME NEW x \in Word
          PROVE  Wrap(0 - x) \in Word
      <3>1. x \in Int
        BY SmallWords
      <3>2. 0 - x \in Int
        BY <3>1
      <3> QED
        BY <3>2, WrapWord
    <2>3. Wrap(0 - in.args[1].n) \in Word
      BY <1>3, <1>4, <2>2
    <2> QED
      BY <2>1, <2>3 DEF Folded
  <1>5. CASE in.op = "not" /\ Len(in.args) = 1
    <2>1. FoldOf(in) = Folded(Bit(in.args[1].n = 0))
      BY <1>1, <1>5 DEF FoldOf
    <2> QED
      BY <2>1, SmallWords DEF Folded, Bit
  <1>6. CASE in.op \notin {"neg", "not"} /\ Len(in.args) = 2
    <2>1. FoldOf(in) = fold_binary(in.op, in.args[1].n, in.args[2].n)
      BY <1>1, <1>6 DEF FoldOf
    <2> QED
      BY <1>3, <1>6, <2>1, FoldBinaryWord
  <1>7. CASE ~(in.op = "neg" /\ Len(in.args) = 1) /\ ~(in.op = "not" /\ Len(in.args) = 1)
              /\ ~(in.op \notin {"neg", "not"} /\ Len(in.args) = 2)
    <2>1. FoldOf(in) = NotFolded
      BY <1>1, <1>7 DEF FoldOf
    <2> QED
      BY <2>1, SmallWords DEF NotFolded
  <1> QED
    BY <1>4, <1>5, <1>6, <1>7

LEMMA ConstfoldFits ==
  ASSUME NEW f, NEW m, Sound(f), FunctionFits(f, m)
  PROVE  SameOutside(constfold(f).f, f) /\ FunctionFits(constfold(f).f, m)
  <1> DEFINE New(in) == IF FoldOf(in).ok THEN make_const(in, FoldOf(in).out) ELSE in
             blocks == [k \in DOMAIN f.blocks |-> [i \in DOMAIN f.blocks[k] |-> New(f.blocks[k][i])]]
  <1>1. ASSUME NEW in, TypedInstr(in), InstrFits(in, f, m)
        PROVE  InstrFits(New(in), f, m)
    <2>1. CASE FoldOf(in).ok
      <3>1. in.dst # -1
        BY <1>1, <2>1, FoldTyped
      <3>2. FoldOf(in).out \in Word
        BY <1>1, <2>1, FoldWord
      <3> QED
        BY <2>1, <3>1, <3>2, MakeConstFits
    <2> QED
      BY <1>1, <2>1
  <1>2. constfold(f).f = [f EXCEPT !.blocks = blocks]
    BY DEF constfold
  <1> HIDE DEF New
  <1>3. \A k \in DOMAIN blocks : \A i \in DOMAIN blocks[k] : InstrFits(blocks[k][i], f, m)
    BY <1>1, FittingInstructions
  <1> HIDE DEF blocks
  <1>4. SameOutside(constfold(f).f, f) /\ constfold(f).f.blocks = blocks
    BY <1>2, OtherBlocksSameOutside
  <1> QED
    BY <1>3, <1>4, AllFit

-----------------------------------------------------------------------------
(* Algebraic simplification.                                               *)
LEMMA SimplifiedFits ==
  ASSUME NEW f, NEW m, NEW in, TypedInstr(in), InstrFits(in, f, m)
  PROVE  InstrFits(Simplified(in), f, m)
  <1> DEFINE a == in.args[1]
             b == in.args[2]
  <1>1. CASE in.dst < 0 \/ Len(in.args) # 2
    BY <1>1 DEF Simplified
  <1>2. CASE ~(in.dst < 0) /\ Len(in.args) = 2
    <2>1. in.dst # -1
      BY <1>2
    <2>2. ValueFits(a, f) /\ ValueFits(b, f)
      BY <1>2, ArgumentsFit
    <2>3. Simplified(in) \in {in, make_copy(in, a), make_copy(in, b), make_const(in, 0), make_const(in, 1)}
      BY <1>2, Zenon DEF Simplified
    <2> HIDE DEF a, b
    <2>4. 0 \in Word /\ 1 \in Word
      BY SmallWords
    <2>5. InstrFits(make_copy(in, a), f, m) /\ InstrFits(make_copy(in, b), f, m)
      BY <2>1, <2>2, MakeCopyFits
    <2>6. InstrFits(make_const(in, 0), f, m) /\ InstrFits(make_const(in, 1), f, m)
      BY <2>1, <2>4, MakeConstFits
    <2> QED
      BY <2>3, <2>5, <2>6
  <1> QED
    BY <1>1, <1>2

LEMMA AlgebraicFits ==
  ASSUME NEW f, NEW m, Sound(f), FunctionFits(f, m)
  PROVE  SameOutside(algebraic(f).f, f) /\ FunctionFits(algebraic(f).f, m)
  <1> DEFINE blocks == [k \in DOMAIN f.blocks |-> [i \in DOMAIN f.blocks[k] |-> Simplified(f.blocks[k][i])]]
  <1>1. algebraic(f).f = [f EXCEPT !.blocks = blocks]
    BY DEF algebraic
  <1>2. \A k \in DOMAIN blocks : \A i \in DOMAIN blocks[k] : InstrFits(blocks[k][i], f, m)
    BY SimplifiedFits, FittingInstructions
  <1> HIDE DEF blocks
  <1>3. SameOutside(algebraic(f).f, f) /\ algebraic(f).f.blocks = blocks
    BY <1>1, OtherBlocksSameOutside
  <1> QED
    BY <1>2, <1>3, AllFit
-----------------------------------------------------------------------------
(* Propagation: every value that is known fits.                            *)
AllValuesFit(map, f) == \A x \in DOMAIN map : ValueFits(map[x], f)

LEMMA WithFits ==
  ASSUME NEW f, NEW map, AllValuesFit(map, f), NEW x, NEW v, ValueFits(v, f)
  PROVE  AllValuesFit(With(map, x, v), f)
  <1> SUFFICES ASSUME NEW y \in DOMAIN With(map, x, v) PROVE ValueFits(With(map, x, v)[y], f)
    BY Zenon DEF AllValuesFit
  <1>1. \/ y = x /\ With(map, x, v)[y] = v
        \/ y \in DOMAIN map /\ With(map, x, v)[y] = map[y]
    BY DEF With
  <1> QED
    BY <1>1, Zenon DEF AllValuesFit

LEMMA ForwardFits ==
  ASSUME NEW f, NEW map, AllValuesFit(map, f), NEW v, ValueFits(v, f)
  PROVE  ValueFits(Forward(map, v), f)
  BY DEF AllValuesFit, Forward

LEMMA TempFits ==
  ASSUME NEW f, NEW t \in 0 .. f.next_temp - 1
  PROVE  ValueFits(Temp(t), f)
  BY DEF Temp, ValueFits, is_const

LEMMA DefMapFits ==
  ASSUME NEW f, NEW m, Sound(f), FunctionFits(f, m)
  PROVE  AllValuesFit(DefMap(f), f)
  <1> SUFFICES ASSUME NEW t \in DOMAIN DefMap(f) PROVE ValueFits(DefMap(f)[t], f)
    BY DEF AllValuesFit
  <1>1. \E in \in CopyDefs(f) : in.dst = t
    BY DEF DefMap
  <1>2. PICK in \in CopyDefs(f) : in.dst = t /\ DefMap(f)[t] = in.args[1]
    <2> DEFINE in == CHOOSE in \in CopyDefs(f) : in.dst = t
    <2>1. in \in CopyDefs(f) /\ in.dst = t
      BY <1>1
    <2>2. DefMap(f)[t] = in.args[1]
      BY DEF DefMap
    <2> QED
      BY <2>1, <2>2
  <1>3. in \in InstrsOf(f) /\ in.op \in {"const", "copy"}
    BY DEF CopyDefs
  <1>4. TypedInstr(in) /\ InstrFits(in, f, m)
    BY <1>3, FittingInstructions
  <1>5. Len(in.args) = 1
    BY <1>3, <1>4 DEF TypedInstr
  <1> QED
    BY <1>2, <1>4, <1>5, ArgumentsFit

LEMMA ResolvedFits ==
  ASSUME NEW f, NEW m, Sound(f), FunctionFits(f, m)
  PROVE  AllValuesFit(Resolved(DefMap(f)), f)
  <1> DEFINE def == DefMap(f)
             N == Cardinality(DOMAIN def)
  <1>1. DOMAIN def \subseteq 0 .. f.next_temp - 1 /\ AllValuesFit(def, f)
    BY DefMapProperties, DefMapFits
  <1> HIDE DEF def
  <1>2. f.next_temp \in Nat
    BY DEF Sound, TypedFunction
  <1>3. N \in Nat
    <2>1. IsFiniteSet(0 .. f.next_temp - 1)
      BY <1>2, FS_Interval
    <2> QED
      BY <1>1, <2>1, FS_Subset, FS_CardinalityType
  <1> SUFFICES ASSUME NEW t \in DOMAIN def PROVE ValueFits(Chase(def, t)[N], f)
    BY DEF AllValuesFit, Resolved, def
  <1> DEFINE c == Chase(def, t)
             T == { n \in 0 .. N : ValueFits(c[n], f) }
  <1>4. c = [n \in 0 .. N |-> IF n = 0 THEN Temp(t) ELSE Forward(def, c[n - 1])]
    BY <1>3, ChaseDef
  <1> HIDE DEF c, N
  <1>5. 0 \in T
    <2>1. c[0] = Temp(t)
      BY <1>3, <1>4
    <2>2. ValueFits(Temp(t), f)
      BY <1>1, TempFits
    <2> QED
      BY <1>3, <2>1, <2>2
  <1>6. ASSUME NEW n \in 0 .. N - 1, n \in T
        PROVE  n + 1 \in T
    <2>1. n + 1 \in 0 .. N /\ n + 1 # 0 /\ (n + 1) - 1 = n
      BY <1>3
    <2>2. c[n + 1] = Forward(def, c[n])
      BY <1>4, <2>1
    <2>3. ValueFits(c[n + 1], f)
      BY <1>1, <1>6, <2>2, ForwardFits
    <2> QED
      BY <2>1, <2>3
  <1>7. \A n \in 0 .. N : n \in T
    <2> HIDE DEF T
    <2> QED
      BY <1>3, <1>5, <1>6, BoundedInduction
  <1> QED
    BY <1>3, <1>7 DEF c

LEMMA ForwardedFits ==
  ASSUME NEW f, NEW m, NEW tv, AllValuesFit(tv, f), NEW in, TypedInstr(in), InstrFits(in, f, m)
  PROVE  /\ InstrFits(Forwarded(tv, in), f, m)
         /\ \A i \in 1 .. Len(in.args) : ValueFits(Forwarded(tv, in).args[i], f)
  <1>1. /\ Len(in.args) \in Nat /\ DOMAIN in.args = 1 .. Len(in.args)
        /\ \A i \in 1 .. Len(in.args) : ValueFits(in.args[i], f)
    BY ArgumentsFit
  <1>2. PICK n \in Nat : n = Len(in.args)
    BY <1>1
  <1>3. PICK args : args = [i \in 1 .. n |-> Forward(tv, in.args[i])]
    OBVIOUS
  <1>4. PICK fwd : fwd = Forwarded(tv, in)
    OBVIOUS
  <1>5. fwd = [in EXCEPT !.args = args]
    BY <1>1, <1>2, <1>3, <1>4 DEF Forwarded
  <1>6. in \in [op : Ops, dst : Int, args : Seq(Values), slot : Int, callee : {in.callee}, bb_true : Int, bb_false : Int]
    BY DEF TypedInstr
  <1>7. fwd.op = in.op /\ fwd.dst = in.dst /\ fwd.callee = in.callee /\ fwd.args = args
    BY <1>5, <1>6
  <1>8. \A i \in 1 .. n : ValueFits(args[i], f)
    BY <1>1, <1>2, <1>3, ForwardFits
  <1>9. DOMAIN args = 1 .. n /\ Len(args) = n
    <2>1. IsSequence(args) /\ Len(args) = n
      BY <1>3, SequenceMade
    <2> QED
      BY <1>3, <2>1
  <1>10. InstrFits(fwd, f, m)
    BY <1>2, <1>7, <1>8, <1>9 DEF InstrFits
  <1> QED
    BY <1>2, <1>4, <1>7, <1>8, <1>10

(* The state of the walk after i instructions of a block.                  *)
WalkFits(f, m, i, st) ==
  /\ AllValuesFit(st.tv, f) /\ AllValuesFit(st.slots, f)
  /\ st.code = [j \in 1 .. i |-> st.code[j]]
  /\ \A j \in 1 .. i : InstrFits(st.code[j], f, m)

LEMMA WalkStepFits ==
  ASSUME NEW f, NEW m, Sound(f), NEW i \in Nat, NEW st, WalkFits(f, m, i, st),
         NEW in \in InstrsOf(f), TypedInstr(in), InstrFits(in, f, m)
  PROVE  WalkFits(f, m, i + 1, PropInstr(st, in))
  <1> DEFINE next == PropInstr(st, in)
             fwd == Forwarded(st.tv, in)
             v == st.slots[in.slot]
             new == IF Known(st, in) THEN Slotted(v, in) ELSE fwd
  <1>1. /\ AllValuesFit(st.tv, f) /\ AllValuesFit(st.slots, f)
        /\ st.code = [j \in 1 .. i |-> st.code[j]]
        /\ \A j \in 1 .. i : InstrFits(st.code[j], f, m)
    BY DEF WalkFits
  <1>2. /\ next.tv = IF Known(st, in) THEN With(st.tv, in.dst, v) ELSE st.tv
        /\ in.op = "store" => next.slots = With(st.slots, in.slot, fwd.args[1])
        /\ in.op = "load" /\ ~Known(st, in) => next.slots = With(st.slots, in.slot, Temp(in.dst))
        /\ in.op # "store" /\ (in.op # "load" \/ Known(st, in)) => next.slots = st.slots
        /\ next.code = Append(st.code, new)
    BY PropInstrIs
  <1>3. in.op = "load" => in.dst # -1 /\ ValueFits(Temp(in.dst), f)
    <2>1. in.dst # -1 => in.dst \in 0 .. f.next_temp - 1
      <3>1. PICK p \in Positions(f) : in = At(f, p)
        BY DEF InstrsOf
      <3>2. SingleAssignment(f)
        BY DEF Sound, WellFormed
      <3> QED
        BY <3>1, <3>2, Zenon DEF SingleAssignment
    <2>2. in.op = "load" => in.dst # -1
      BY DEF TypedInstr
    <2> QED
      BY <2>1, <2>2, TempFits
  <1>4. Known(st, in) => in.op = "load" /\ ValueFits(v, f)
    BY <1>1 DEF Known, AllValuesFit
  <1>5. InstrFits(fwd, f, m) /\ (in.op = "store" => ValueFits(fwd.args[1], f))
    <2>1. in.op = "store" => 1 \in 1 .. Len(in.args)
      <3>1. in.op = "store" => Len(in.args) = 1
        BY DEF TypedInstr
      <3>2. 1 \in 1 .. 1
        OBVIOUS
      <3> QED
        BY <3>1, <3>2, Zenon
    <2>2. InstrFits(fwd, f, m) /\ \A j \in 1 .. Len(in.args) : ValueFits(fwd.args[j], f)
      BY <1>1, ForwardedFits
    <2> HIDE DEF fwd
    <2> QED
      BY <2>1, <2>2
  <1> HIDE DEF next, fwd, v
  <1>6. AllValuesFit(next.tv, f)
    BY <1>1, <1>2, <1>4, WithFits
  <1>7. AllValuesFit(next.slots, f)
    <2>1. CASE in.op = "store"
      BY <1>1, <1>2, <1>5, <2>1, WithFits
    <2>2. CASE in.op = "load" /\ ~Known(st, in)
      BY <1>1, <1>2, <1>3, <2>2, WithFits
    <2>3. CASE in.op # "store" /\ (in.op # "load" \/ Known(st, in))
      BY <1>1, <1>2, <2>3
    <2> QED
      BY <2>1, <2>2, <2>3
  <1>8. InstrFits(new, f, m)
    <2>1. CASE Known(st, in)
      <3>1. in.dst # -1 /\ ValueFits(v, f)
        BY <1>3, <1>4, <2>1
      <3>2. is_const(v) => v.n \in Word
        BY <3>1 DEF ValueFits
      <3>3. InstrFits(Slotted(v, in), f, m)
        BY <3>1, <3>2, MakeConstFits, MakeCopyFits DEF Slotted
      <3> QED
        BY <2>1, <3>3
    <2>2. CASE ~Known(st, in)
      BY <1>5, <2>2
    <2> QED
      BY <2>1, <2>2
  <1> HIDE DEF new
  <1>9. /\ next.code = [j \in 1 .. i + 1 |-> next.code[j]]
        /\ \A j \in 1 .. i : next.code[j] = st.code[j]
        /\ next.code[i + 1] = new
    BY <1>1, <1>2, Appended
  <1>10. ASSUME NEW j \in 1 .. i + 1
         PROVE  InstrFits(next.code[j], f, m)
    <2>1. j \in 1 .. i \/ j = i + 1
      OBVIOUS
    <2> QED
      BY <1>1, <1>8, <1>9, <2>1
  <1> QED
    BY <1>6, <1>7, <1>9, <1>10 DEF WalkFits, next

LEMMA WalkAllFits ==
  ASSUME NEW f, NEW m, Sound(f), FunctionFits(f, m), NEW k \in 1 .. Len(f.blocks), NEW acc, AllValuesFit(acc.tv, f)
  PROVE  WalkFits(f, m, Len(f.blocks[k]), Walk(acc, f.blocks[k])[Len(f.blocks[k])])
  <1> DEFINE N == Len(f.blocks[k])
             w == Walk(acc, f.blocks[k])
             T == { i \in 0 .. N : WalkFits(f, m, i, w[i]) }
  <1>1. N \in Nat /\ DOMAIN f.blocks[k] = 1 .. N /\ k \in DOMAIN f.blocks
    <2>1. TypedFunction(f)
      BY DEF Sound
    <2>2. Laid(f)
      BY <2>1, TypedIsLaid
    <2> QED
      BY <2>2, Zenon DEF Laid
  <1>2. w = [n \in 0 .. N |->
               IF n = 0 THEN [tv |-> acc.tv, slots |-> <<>>, changed |-> acc.changed, code |-> <<>>]
               ELSE PropInstr(w[n - 1], f.blocks[k][n])]
    <2>1. PICK block : block = f.blocks[k]
      OBVIOUS
    <2>2. Len(block) \in Nat
      BY <1>1, <2>1
    <2>3. Walk(acc, block) =
            [n \in 0 .. Len(block) |->
               IF n = 0 THEN [tv |-> acc.tv, slots |-> <<>>, changed |-> acc.changed, code |-> <<>>]
               ELSE PropInstr(Walk(acc, block)[n - 1], block[n])]
      BY <2>2, WalkDef
    <2> QED
      BY <2>1, <2>3
  <1> HIDE DEF w
  <1>3. 0 \in T
    <2>1. w[0] = [tv |-> acc.tv, slots |-> <<>>, changed |-> acc.changed, code |-> <<>>]
      BY <1>1, <1>2
    <2>2. w[0].tv = acc.tv /\ w[0].slots = <<>> /\ w[0].code = <<>>
      BY <2>1
    <2>3. DOMAIN w[0].slots = {} /\ w[0].code = [j \in 1 .. 0 |-> w[0].code[j]]
      BY <2>2
    <2>4. WalkFits(f, m, 0, w[0])
      BY <2>2, <2>3 DEF WalkFits, AllValuesFit
    <2> QED
      BY <1>1, <2>4
  <1>4. ASSUME NEW i \in 0 .. N - 1, i \in T
        PROVE  i + 1 \in T
    <2>1. i + 1 \in 0 .. N /\ i + 1 # 0 /\ (i + 1) - 1 = i /\ i \in Nat /\ i + 1 \in 1 .. N
      BY <1>1
    <2>2. w[i + 1] = PropInstr(w[i], f.blocks[k][i + 1])
      BY <1>2, <2>1
    <2>3. TypedInstr(f.blocks[k][i + 1]) /\ InstrFits(f.blocks[k][i + 1], f, m) /\ f.blocks[k][i + 1] \in InstrsOf(f)
      <3>1. Place(f, k, i + 1)
        BY <1>1, <2>1 DEF Place
      <3> QED
        BY <1>1, <2>1, <3>1, FittingInstructions, TypedInstructions
    <2>4. WalkFits(f, m, i + 1, w[i + 1])
      BY <1>4, <2>1, <2>2, <2>3, WalkStepFits
    <2> QED
      BY <2>1, <2>4
  <1>5. \A i \in 0 .. N : i \in T
    <2> HIDE DEF T, N
    <2> QED
      BY <1>1, <1>3, <1>4, BoundedInduction
  <1> QED
    BY <1>1, <1>5 DEF w

(* The state of the walk after k blocks.                                   *)
BlocksFit(f, m, k, acc) ==
  /\ AllValuesFit(acc.tv, f)
  /\ acc.blocks = [j \in 1 .. k |-> acc.blocks[j]]
  /\ \A j \in 1 .. k : \A i \in DOMAIN acc.blocks[j] : InstrFits(acc.blocks[j][i], f, m)

LEMMA PropBlockFits ==
  ASSUME NEW f, NEW m, Sound(f), FunctionFits(f, m), NEW k \in 0 .. Len(f.blocks) - 1, NEW acc, BlocksFit(f, m, k, acc)
  PROVE  BlocksFit(f, m, k + 1, PropBlock(acc, f.blocks[k + 1]))
  <1> DEFINE next == PropBlock(acc, f.blocks[k + 1])
             N == Len(f.blocks[k + 1])
             st == Walk(acc, f.blocks[k + 1])[N]
  <1>1. Len(f.blocks) \in Nat /\ k \in Nat /\ k + 1 \in 1 .. Len(f.blocks)
    BY TypedIsLaid DEF Sound, Laid
  <1>2. WalkFits(f, m, N, st)
    BY <1>1, WalkAllFits DEF BlocksFit
  <1>3. next.tv = st.tv /\ next.blocks = Append(acc.blocks, st.code)
    BY DEF PropBlock
  <1> HIDE DEF next, st, N
  <1>4. /\ AllValuesFit(st.tv, f) /\ st.code = [j \in 1 .. N |-> st.code[j]]
        /\ \A j \in 1 .. N : InstrFits(st.code[j], f, m)
    BY <1>2 DEF WalkFits
  <1>5. \A j \in DOMAIN st.code : InstrFits(st.code[j], f, m)
    <2>1. DOMAIN st.code = 1 .. N
      BY <1>4
    <2> QED
      BY <1>4, <2>1
  <1>6. /\ acc.blocks = [j \in 1 .. k |-> acc.blocks[j]]
        /\ \A j \in 1 .. k : \A i \in DOMAIN acc.blocks[j] : InstrFits(acc.blocks[j][i], f, m)
    BY DEF BlocksFit
  <1>7. /\ next.blocks = [j \in 1 .. k + 1 |-> next.blocks[j]]
        /\ \A j \in 1 .. k : next.blocks[j] = acc.blocks[j]
        /\ next.blocks[k + 1] = st.code
    BY <1>1, <1>3, <1>6, Appended
  <1>8. ASSUME NEW j \in 1 .. k + 1, NEW i \in DOMAIN next.blocks[j]
        PROVE  InstrFits(next.blocks[j][i], f, m)
    <2>1. j \in 1 .. k \/ j = k + 1
      BY <1>1
    <2>2. CASE j \in 1 .. k
      <3>1. next.blocks[j] = acc.blocks[j]
        BY <1>7, <2>2
      <3> QED
        BY <1>6, <2>2, <3>1
    <2>3. CASE j = k + 1
      <3>1. next.blocks[j] = st.code
        BY <1>7, <2>3
      <3> QED
        BY <1>5, <3>1
    <2> QED
      BY <2>1, <2>2, <2>3
  <1> QED
    BY <1>3, <1>4, <1>7, <1>8 DEF BlocksFit, next

LEMMA ConstpropFits ==
  ASSUME NEW f, NEW m, Sound(f), FunctionFits(f, m)
  PROVE  SameOutside(constprop(f).f, f) /\ FunctionFits(constprop(f).f, m)
  <1> DEFINE N == Len(f.blocks)
             w == WalkBlocks(f)
             T == { k \in 0 .. N : BlocksFit(f, m, k, w[k]) }
             blocks == w[N].blocks
  <1>1. Laid(f) /\ N \in Nat
    BY TypedIsLaid DEF Sound, Laid
  <1>2. w = [n \in 0 .. N |->
               IF n = 0 THEN [tv |-> Resolved(DefMap(f)), changed |-> FALSE, blocks |-> <<>>]
               ELSE PropBlock(w[n - 1], f.blocks[n])]
    BY <1>1, WalkBlocksDef
  <1>3. constprop(f).f = [f EXCEPT !.blocks = blocks]
    BY DEF constprop
  <1> HIDE DEF w
  <1>4. 0 \in T
    <2>1. w[0] = [tv |-> Resolved(DefMap(f)), changed |-> FALSE, blocks |-> <<>>]
      BY <1>1, <1>2
    <2>2. w[0].tv = Resolved(DefMap(f)) /\ w[0].blocks = <<>>
      BY <2>1
    <2>3. w[0].blocks = [j \in 1 .. 0 |-> w[0].blocks[j]]
      BY <2>2
    <2>4. AllValuesFit(w[0].tv, f)
      BY <2>2, ResolvedFits
    <2>5. BlocksFit(f, m, 0, w[0])
      BY <2>3, <2>4 DEF BlocksFit
    <2> QED
      BY <1>1, <2>5
  <1>5. ASSUME NEW k \in 0 .. N - 1, k \in T
        PROVE  k + 1 \in T
    <2>1. k + 1 \in 0 .. N /\ k + 1 # 0 /\ (k + 1) - 1 = k
      BY <1>1
    <2>2. w[k + 1] = PropBlock(w[k], f.blocks[k + 1])
      BY <1>2, <2>1
    <2>3. BlocksFit(f, m, k + 1, w[k + 1])
      BY <1>5, <2>2, PropBlockFits
    <2> QED
      BY <2>1, <2>3
  <1>6. BlocksFit(f, m, N, w[N])
    <2> HIDE DEF T, N
    <2>1. \A k \in 0 .. N : k \in T
      BY <1>1, <1>4, <1>5, BoundedInduction
    <2> QED
      BY <1>1, <2>1 DEF T
  <1> HIDE DEF blocks
  <1>7. \A k \in DOMAIN blocks : \A i \in DOMAIN blocks[k] : InstrFits(blocks[k][i], f, m)
    <2>1. /\ blocks = [j \in 1 .. N |-> blocks[j]]
          /\ \A j \in 1 .. N : \A i \in DOMAIN blocks[j] : InstrFits(blocks[j][i], f, m)
      BY <1>6 DEF BlocksFit, blocks
    <2>2. DOMAIN blocks = 1 .. N
      BY <2>1
    <2> QED
      BY <2>1, <2>2
  <1>8. SameOutside(constprop(f).f, f) /\ constprop(f).f.blocks = blocks
    BY <1>3, OtherBlocksSameOutside
  <1> QED
    BY <1>7, <1>8, AllFit
-----------------------------------------------------------------------------
(* Dead-code elimination: what is left are instructions of f, but for the  *)
(* ids of blocks.                                                          *)
LEMMA RetargetedFits ==
  ASSUME NEW f, NEW m, NEW seen, NEW in, TypedInstr(in), InstrFits(in, f, m)
  PROVE  InstrFits(Retargeted(seen, in), f, m)
  <1>1. PICK t : t = Retargeted(seen, in)
    OBVIOUS
  <1>2. in \in [op : Ops, dst : Int, args : Seq(Values), slot : Int, callee : {in.callee}, bb_true : Int, bb_false : Int]
    BY DEF TypedInstr
  <1>3. t.op = in.op /\ t.dst = in.dst /\ t.args = in.args /\ t.callee = in.callee
    <2>1. CASE in.op = "br"
      <3>1. PICK x : x = Rank(seen, in.bb_true)
        OBVIOUS
      <3>2. t = [in EXCEPT !.bb_true = x]
        BY <1>1, <2>1, <3>1 DEF Retargeted
      <3> QED
        BY <1>2, <3>2
    <2>2. CASE in.op = "condbr"
      <3>1. PICK x, y : x = Rank(seen, in.bb_true) /\ y = Rank(seen, in.bb_false)
        OBVIOUS
      <3>2. t = [in EXCEPT !.bb_true = x, !.bb_false = y]
        BY <1>1, <2>2, <3>1 DEF Retargeted
      <3> QED
        BY <1>2, <3>2
    <2>3. CASE in.op \notin {"br", "condbr"}
      BY <1>1, <2>3 DEF Retargeted
    <2> QED
      BY <2>1, <2>2, <2>3
  <1> QED
    BY <1>1, <1>3, Zenon DEF InstrFits

LEMMA RemoveUnreachableFits ==
  ASSUME NEW f, NEW m, Sound(f), FunctionFits(f, m)
  PROVE  SameOutside(remove_unreachable(f).f, f) /\ FunctionFits(remove_unreachable(f).f, m)
  <1> DEFINE seen == reachable_blocks(f)
             keep == InOrder(seen)
             n == Cardinality(seen)
             blocks == Packed(f)
  <1>1. CASE reachable_blocks(f) = BlockIds(f)
    BY <1>1, RemoveUnreachableIs DEF SameOutside
  <1>2. CASE reachable_blocks(f) # BlockIds(f)
    <2>1. remove_unreachable(f).f = [f EXCEPT !.blocks = blocks]
      BY <1>2, RemoveUnreachableIs
    <2>2. Laid(f)
      BY TypedIsLaid DEF Sound
    <2>3. seen \subseteq BlockIds(f) /\ keep \in [1 .. n -> seen]
      BY SeenProperties
    <2>4. blocks = [j \in DOMAIN keep |-> [Block(f, keep[j]) EXCEPT ![Len(Block(f, keep[j]))] =
                                            Retargeted(seen, @)]]
      BY Zenon DEF Packed
    <2> HIDE DEF seen, keep, blocks
    <2>5. ASSUME NEW j \in DOMAIN blocks, NEW i \in DOMAIN blocks[j]
          PROVE  InstrFits(blocks[j][i], f, m)
      <3>1. PICK b : b = keep[j]
        OBVIOUS
      <3>2. j \in DOMAIN keep /\ b \in BlockIds(f)
        BY <2>3, <2>4, <3>1
      <3>3. PICK s : s = f.blocks[b + 1]
        OBVIOUS
      <3>4. Block(f, b) = s /\ b + 1 \in DOMAIN f.blocks
        BY <2>2, <3>2, <3>3, PositionProperties DEF Laid
      <3>5. blocks[j] = [s EXCEPT ![Len(s)] = Retargeted(seen, s[Len(s)])]
        BY <2>4, <3>1, <3>2, <3>4
      <3>6. i \in DOMAIN s /\ blocks[j][i] \in {s[i], Retargeted(seen, s[i])}
        BY <3>5
      <3>7. TypedInstr(s[i]) /\ InstrFits(s[i], f, m)
        BY <3>3, <3>4, <3>6, FittingInstructions
      <3>8. InstrFits(Retargeted(seen, s[i]), f, m)
        BY <3>7, RetargetedFits
      <3> QED
        BY <3>6, <3>7, <3>8
    <2>6. SameOutside(remove_unreachable(f).f, f) /\ remove_unreachable(f).f.blocks = blocks
      BY <2>1, OtherBlocksSameOutside
    <2> QED
      BY <2>5, <2>6, AllFit
  <1> QED
    BY <1>1, <1>2

LEMMA SweepFits ==
  ASSUME NEW f, NEW m, Sound(f), FunctionFits(f, m), NEW dead, Deletable(f, dead)
  PROVE  SameOutside(sweep_dead(f, dead), f) /\ FunctionFits(sweep_dead(f, dead), m)
  <1> DEFINE kept(k) == InOrder(Survivors(f, dead, k))
             blocks == [k \in DOMAIN f.blocks |-> [j \in DOMAIN kept(k) |-> f.blocks[k][kept(k)[j]]]]
  <1>1. sweep_dead(f, dead) = [f EXCEPT !.blocks = blocks]
    BY DEF sweep_dead
  <1>2. Laid(f)
    BY TypedIsLaid DEF Sound
  <1>3. ASSUME NEW k \in DOMAIN blocks, NEW i \in DOMAIN blocks[k]
        PROVE  InstrFits(blocks[k][i], f, m)
    <2>1. k \in DOMAIN f.blocks /\ k \in 1 .. Len(f.blocks) /\ DOMAIN f.blocks[k] = 1 .. Len(f.blocks[k])
      BY <1>2 DEF Laid
    <2>2. PICK S : S = Survivors(f, dead, k)
      OBVIOUS
    <2>3. S \in SUBSET Int /\ IsFiniteSet(S) /\ S \subseteq 1 .. Len(f.blocks[k])
      BY <2>1, <2>2, SurvivorsProperties DEF Deletable
    <2>4. InOrder(S) \in [1 .. Cardinality(S) -> S]
      BY <2>3, InOrderProperties
    <2>5. PICK e : e = InOrder(S)
      OBVIOUS
    <2>6. blocks[k] = [j \in DOMAIN e |-> f.blocks[k][e[j]]]
      BY <2>1, <2>2, <2>5
    <2>7. blocks[k][i] = f.blocks[k][e[i]] /\ e[i] \in S
      BY <1>3, <2>4, <2>5, <2>6
    <2>8. e[i] \in DOMAIN f.blocks[k]
      BY <2>1, <2>3, <2>7
    <2> QED
      BY <2>1, <2>7, <2>8, FittingInstructions
  <1> HIDE DEF blocks
  <1>4. SameOutside(sweep_dead(f, dead), f) /\ sweep_dead(f, dead).blocks = blocks
    BY <1>1, OtherBlocksSameOutside
  <1> QED
    BY <1>3, <1>4, AllFit

LEMMA DceFits ==
  ASSUME NEW f, NEW m, Sound(f), FunctionFits(f, m)
  PROVE  SameOutside(dce(f).f, f) /\ FunctionFits(dce(f).f, m)
  <1> DEFINE a == remove_unreachable(f).f
             b == eliminate_dead_temps(a).f
             c == dead_store_elim(b).f
  <1>1. Sound(a) /\ SameOutside(a, f) /\ FunctionFits(a, m)
    BY RemoveUnreachableKeeps, RemoveUnreachableFits
  <1> HIDE DEF a
  <1>2. Sound(b) /\ SameOutside(b, a) /\ FunctionFits(b, m)
    <2>1. b = sweep_dead(a, Marked(a)[a.next_temp])
      BY DEF eliminate_dead_temps
    <2>2. Deletable(a, Marked(a)[a.next_temp])
      BY <1>1, MarkedDeletable
    <2> QED
      BY <1>1, <2>1, <2>2, SweepKeeps, SweepFits
  <1> HIDE DEF b
  <1>3. SameOutside(c, b) /\ FunctionFits(c, m)
    <2>1. c = sweep_dead(b, DeadStores(b))
      BY DEF dead_store_elim
    <2>2. Deletable(b, DeadStores(b))
      BY <1>2, DeadStoresDeletable
    <2> QED
      BY <1>2, <2>1, <2>2, SweepFits
  <1>4. dce(f).f = c
    BY DEF dce, a, b
  <1> HIDE DEF c
  <1> QED
    BY <1>1, <1>2, <1>3, <1>4 DEF SameOutside

-----------------------------------------------------------------------------
(* The pipeline.                                                           *)
LEMMA EveryPassFits ==
  ASSUME NEW f, NEW m, Sound(f), FunctionFits(f, m), NEW p \in {"constfold", "algebraic", "constprop", "dce"}
  PROVE  SameOutside(run_pass(p, f).f, f) /\ FunctionFits(run_pass(p, f).f, m)
  <1>1. CASE p = "constfold"
    <2>1. run_pass(p, f) = constfold(f)
      BY <1>1 DEF run_pass
    <2> QED
      BY <2>1, ConstfoldFits
  <1>2. CASE p = "algebraic"
    <2>1. run_pass(p, f) = algebraic(f)
      BY <1>2 DEF run_pass
    <2> QED
      BY <2>1, AlgebraicFits
  <1>3. CASE p = "constprop"
    <2>1. run_pass(p, f) = constprop(f)
      BY <1>3 DEF run_pass
    <2> QED
      BY <2>1, ConstpropFits
  <1>4. CASE p = "dce"
    <2>1. run_pass(p, f) = dce(f)
      BY <1>4 DEF run_pass
    <2> QED
      BY <2>1, DceFits
  <1> QED
    BY <1>1, <1>2, <1>3, <1>4

(* One function of a module replaced: the others call it as before.        *)
LEMMA ReplacedFunctionFits ==
  ASSUME NEW m, Lowerable(m), NEW i \in DOMAIN m, NEW g, SameOutside(g, m[i]), FunctionFits(g, m)
  PROVE  Lowerable([m EXCEPT ![i] = g])
  <1>1. PICK new : new = [m EXCEPT ![i] = g]
    OBVIOUS
  <1>2. /\ DOMAIN new = DOMAIN m
        /\ \A j \in DOMAIN m : new[j].name = m[j].name /\ new[j].num_params = m[j].num_params
        /\ \A j \in DOMAIN m : new[j] = m[j] \/ new[j] = g
    BY <1>1 DEF SameOutside
  <1>3. ASSUME NEW f, FunctionFits(f, m)
        PROVE  FunctionFits(f, new)
    <2>1. ASSUME NEW in, InstrFits(in, f, m)
          PROVE  InstrFits(in, f, new)
      <3>1. in.op = "call" => \E j \in DOMAIN new : new[j].name = in.callee /\ Len(in.args) = new[j].num_params
        BY <1>2, <2>1 DEF InstrFits
      <3> QED
        BY <2>1, <3>1, Zenon DEF InstrFits
    <2> QED
      BY <1>3, <2>1, Zenon DEF FunctionFits
  <1>4. \A j \in DOMAIN new : FunctionFits(new[j], new)
    BY <1>2, <1>3 DEF Lowerable
  <1>5. \A j, k \in DOMAIN new : new[j].name = new[k].name => j = k
    BY <1>2, Zenon DEF Lowerable
  <1>6. \E j \in DOMAIN new : new[j].name = "main" /\ new[j].num_params = 0
    BY <1>2, Zenon DEF Lowerable
  <1>7. Lowerable(new)
    BY <1>4, <1>5, <1>6, Zenon DEF Lowerable
  <1> QED
    BY <1>1, <1>7, Zenon

(* The inductive invariant: besides each function being Sound, the module  *)
(* is what codegen.cpp takes it for.                                       *)
AllLowerable == mod \in Seq({ mod[i] : i \in DOMAIN mod }) /\ Lowerable(mod)

LEMMA StartsLowerable == PMInit => AllLowerable
  BY ModulesAssumption, LowerableAssumption DEF PMInit, PMStart, AllLowerable, IsSequence

LEMMA StepsAreLowerable ==
  ASSUME AllSound, AllLowerable, [PMNext]_pm_vars
  PROVE  AllLowerable'
  <1>1. CASE UNCHANGED pm_vars
    BY <1>1 DEF pm_vars, AllLowerable
  <1>2. CASE RunPass
    <2> DEFINE p == passes[pi + 1]
               r == run_pass(p, mod[fi])
    <2>1. pi \in 0 .. 4 /\ pi < 4 /\ fi \in DOMAIN mod /\ Sound(mod[fi])
      BY <1>2, Passes DEF RunPass, AllSound, Optimizing
    <2>2. mod' = [mod EXCEPT ![fi] = r.f]
      BY <1>2 DEF RunPass
    <2>3. p \in {"constfold", "algebraic", "constprop", "dce"}
      BY <2>1 DEF passes
    <2>4. FunctionFits(mod[fi], mod)
      BY <2>1 DEF AllLowerable, Lowerable
    <2>5. SameOutside(r.f, mod[fi]) /\ FunctionFits(r.f, mod)
      BY <2>1, <2>3, <2>4, EveryPassFits
    <2> HIDE DEF r
    <2>6. Lowerable(mod')
      BY <2>1, <2>2, <2>5, ReplacedFunctionFits DEF AllLowerable
    <2>7. mod' \in Seq({ mod'[i] : i \in DOMAIN mod' })
      <3>1. PICK n \in Nat : DOMAIN mod = 1 .. n
        BY LenProperties DEF AllLowerable
      <3>2. PICK new : new = mod'
        OBVIOUS
      <3>3. new \in [1 .. n -> { new[i] : i \in DOMAIN new }]
        BY <2>2, <3>1, <3>2
      <3> QED
        BY <3>2, <3>3, SeqDef
    <2> QED
      BY <2>6, <2>7 DEF AllLowerable
  <1>3. CASE NextRound \/ NextFunction
    BY <1>3 DEF NextRound, NextFunction, AllLowerable
  <1> QED
    BY <1>1, <1>2, <1>3 DEF PMNext

LEMMA AlwaysLowerable == PMSpec => [](AllSound /\ AllLowerable)
  <1>1. AllSound /\ AllLowerable /\ [PMNext]_pm_vars => AllLowerable'
    BY StepsAreLowerable
  <1> QED
    BY <1>1, AlwaysSound, StartsLowerable, PTL DEF PMSpec

(* Whatever passes have run, in whatever modules, the code generated is    *)
(* safe for the VM: registers, slots, functions and jump targets exist,    *)
(* no activation runs off its code, main exists and takes nothing, calls   *)
(* pass what is declared (codegen.cpp, vm.cpp).                            *)
THEOREM LoweredCodeIsAlwaysSafe == PMSpec => []LoweredCodeIsSafe
  <1>1. ASSUME AllSound, AllLowerable
        PROVE  LoweredCodeIsSafe
    <2>1. PICK m : m = mod
      OBVIOUS
    <2>2. m = [i \in DOMAIN m |-> m[i]] /\ (\A i \in DOMAIN m : Sound(m[i])) /\ Lowerable(m)
      BY <1>1, <2>1, Zenon DEF AllSound, AllLowerable
    <2>3. PICK n \in Nat : DOMAIN m = 1 .. n /\ Len(m) = n
      BY <1>1, <2>1, LenProperties DEF AllLowerable
    <2>4. SafeProgram(codegen(m))
      BY <2>2, <2>3, CodegenIsSafe
    <2> QED
      BY <2>1, <2>4 DEF LoweredCodeIsSafe
  <1> QED
    BY <1>1, AlwaysLowerable, PTL

-----------------------------------------------------------------------------
(* How much there is of a function: its instructions, and those of them    *)
(* that are neither const nor copy.                                        *)
Forwarding == {"const", "copy"}
Plain(f) == { p \in Positions(f) : At(f, p).op \notin Forwarding }

LEMMA SizeIs ==
  ASSUME NEW f
  PROVE  Size(f) = Cardinality(Positions(f)) + Cardinality(Plain(f))
  BY DEF Size, ir_instr_count, Plain, Forwarding

LEMMA FiniteFunction ==
  ASSUME NEW f, Sound(f)
  PROVE  /\ IsFiniteSet(Positions(f)) /\ Cardinality(Positions(f)) \in Nat
         /\ IsFiniteSet(Plain(f)) /\ Cardinality(Plain(f)) \in Nat
  <1> DEFINE At1(k) == { <<k - 1, i>> : i \in 1 .. Len(f.blocks[k]) }
             K == 1 .. Len(f.blocks)
             S == { At1(k) : k \in K }
  <1>1. Laid(f)
    BY TypedIsLaid DEF Sound
  <1>2. ASSUME NEW k \in K
        PROVE  IsFiniteSet(At1(k))
    <2> DEFINE I == 1 .. Len(f.blocks[k])
               F == [i \in I |-> <<k - 1, i>>]
    <2>1. IsFiniteSet(I)
      <3>1. Len(f.blocks[k]) \in Int
        BY <1>1 DEF Laid
      <3> QED
        BY <3>1, FS_Interval
    <2>2. F \in Surjection(I, At1(k))
      BY DEF Surjection
    <2> QED
      BY <2>1, <2>2, FS_Surjection
  <1> HIDE DEF At1
  <1>3. IsFiniteSet(S)
    <2>1. IsFiniteSet(K)
      <3>1. Len(f.blocks) \in Int
        BY <1>1 DEF Laid
      <3> QED
        BY <3>1, FS_Interval
    <2>2. [k \in K |-> At1(k)] \in Surjection(K, S)
      BY DEF Surjection
    <2> QED
      BY <2>1, <2>2, FS_Surjection
  <1>4. IsFiniteSet(UNION S)
    BY <1>2, <1>3, FS_UNION
  <1>5. Positions(f) \subseteq UNION S
    <2> SUFFICES ASSUME NEW p \in Positions(f) PROVE p \in UNION S
      OBVIOUS
    <2>1. PICK k : k = p[1] + 1
      OBVIOUS
    <2>2. p = <<k - 1, p[2]>> /\ k \in K /\ p[2] \in 1 .. Len(f.blocks[k])
      BY <1>1, <2>1, PositionProperties
    <2> HIDE DEF K
    <2>3. p \in At1(k)
      BY <2>2 DEF At1
    <2> QED
      BY <2>2, <2>3
  <1>6. IsFiniteSet(Positions(f))
    BY <1>4, <1>5, FS_Subset
  <1>7. Plain(f) \subseteq Positions(f)
    BY DEF Plain
  <1>8. IsFiniteSet(Plain(f))
    BY <1>6, <1>7, FS_Subset
  <1> QED
    BY <1>6, <1>8, FS_CardinalityType

LEMMA SizeIsNat ==
  ASSUME NEW f, Sound(f)
  PROVE  Size(f) \in Nat /\ ir_instr_count(f) \in Nat
  <1>1. Cardinality(Positions(f)) \in Nat /\ Cardinality(Plain(f)) \in Nat
    BY FiniteFunction
  <1> QED
    BY <1>1, SizeIs DEF ir_instr_count

(* Of a function some instructions of which are left there is no more than *)
(* there was, and less if one is gone.                                     *)
LEMMA LessIsLeft ==
  ASSUME NEW f, Sound(f), NEW g, Sound(g), NEW e \in [Positions(g) -> Positions(f)],
         \A p, q \in Positions(g) : e[p] = e[q] => p = q,
         \A p \in Positions(g) : At(g, p).op = At(f, e[p]).op
  PROVE  /\ ir_instr_count(g) <= ir_instr_count(f) /\ Size(g) <= Size(f)
         /\ (\E x \in Positions(f) : \A p \in Positions(g) : e[p] # x) => Size(g) < Size(f)
  <1> DEFINE n(h) == Cardinality(Positions(h))
             m(h) == Cardinality(Plain(h))
  <1>1. /\ IsFiniteSet(Positions(f)) /\ IsFiniteSet(Plain(f)) /\ n(f) \in Nat /\ m(f) \in Nat
        /\ n(g) \in Nat /\ m(g) \in Nat
    BY FiniteFunction
  <1>2. e \in Injection(Positions(g), Positions(f))
    BY DEF Injection, IsInjective
  <1>3. n(g) <= n(f) /\ (n(g) = n(f) => e \in Surjection(Positions(g), Positions(f)))
    BY <1>1, <1>2, FS_Injection
  <1>4. m(g) <= m(f)
    <2> DEFINE F == [p \in Plain(g) |-> e[p]]
    <2>1. F \in [Plain(g) -> Plain(f)] /\ \A p, q \in Plain(g) : F[p] = F[q] => p = q
      BY DEF Plain
    <2>2. F \in Injection(Plain(g), Plain(f))
      BY <2>1 DEF Injection, IsInjective
    <2> QED
      BY <1>1, <2>2, FS_Injection
  <1>5. ASSUME NEW x \in Positions(f), \A p \in Positions(g) : e[p] # x
        PROVE  n(g) # n(f)
    <2>1. e \notin Surjection(Positions(g), Positions(f))
      BY <1>5 DEF Surjection
    <2> QED
      BY <1>3, <2>1
  <1>6. ir_instr_count(g) = n(g) /\ ir_instr_count(f) = n(f) /\ Size(g) = n(g) + m(g) /\ Size(f) = n(f) + m(f)
    BY SizeIs DEF ir_instr_count
  <1>7. (\E x \in Positions(f) : \A p \in Positions(g) : e[p] # x) => n(g) # n(f)
    BY <1>5
  <1> HIDE DEF n, m
  <1> QED
    BY <1>1, <1>3, <1>4, <1>6, <1>7

(* A function with instructions replaced, place by place.                  *)
ReplacedBy(f, g, blocks) == ReplacedIn(f, blocks) /\ g = [f EXCEPT !.blocks = blocks]

LEMMA PlaceIsPosition ==
  ASSUME NEW f, Laid(f), NEW k, NEW i, Place(f, k, i)
  PROVE  <<k - 1, i>> \in Positions(f) /\ At(f, <<k - 1, i>>) = f.blocks[k][i]
  <1>1. k \in 1 .. Len(f.blocks) /\ i \in 1 .. Len(f.blocks[k])
    BY DEF Place
  <1>2. k - 1 \in BlockIds(f) /\ Block(f, k - 1) = f.blocks[k]
    BY <1>1 DEF Laid, BlockIds, Block
  <1>3. i \in DOMAIN Block(f, k - 1)
    BY <1>1, <1>2 DEF Laid
  <1> QED
    BY <1>2, <1>3 DEF Positions, At

LEMMA ReplacedPlaces ==
  ASSUME NEW f, Sound(f), NEW blocks, NEW g, Sound(g), ReplacedBy(f, g, blocks)
  PROVE  /\ g.blocks = blocks /\ Positions(g) = Positions(f)
         /\ \A k, i : Place(g, k, i) <=> Place(f, k, i)
         /\ \A p \in Positions(f) : /\ Place(f, p[1] + 1, p[2])
                                    /\ At(f, p) = f.blocks[p[1] + 1][p[2]] /\ At(g, p) = blocks[p[1] + 1][p[2]]
         /\ \A k, i : Place(f, k, i) => /\ <<k - 1, i>> \in Positions(f)
                                        /\ At(f, <<k - 1, i>>) = f.blocks[k][i] /\ At(g, <<k - 1, i>>) = blocks[k][i]
  <1> DEFINE n == Len(f.blocks)
  <1>1. Laid(f) /\ Laid(g)
    BY TypedIsLaid DEF Sound
  <1>2. g.blocks = blocks
    BY OtherBlocksSameOutside DEF ReplacedBy
  <1>3. DOMAIN blocks = 1 .. n /\ \A k \in 1 .. n : DOMAIN blocks[k] = 1 .. Len(f.blocks[k])
    <2>1. blocks = [k \in 1 .. n |-> blocks[k]]
      BY DEF ReplacedBy, ReplacedIn
    <2>2. \A k \in 1 .. n : blocks[k] = [i \in 1 .. Len(f.blocks[k]) |-> blocks[k][i]]
      BY DEF ReplacedBy, ReplacedIn
    <2> QED
      BY <2>1, <2>2
  <1>4. Len(g.blocks) = n
    <2>1. Len(g.blocks) \in Nat /\ DOMAIN g.blocks = 1 .. Len(g.blocks) /\ n \in Nat
      BY <1>1 DEF Laid
    <2>2. 1 .. Len(g.blocks) = 1 .. n
      BY <1>2, <1>3, <2>1
    <2> QED
      BY <2>1, <2>2
  <1>5. \A k \in 1 .. n : Len(blocks[k]) = Len(f.blocks[k])
    <2> TAKE k \in 1 .. n
    <2>1. Len(blocks[k]) \in Nat /\ DOMAIN blocks[k] = 1 .. Len(blocks[k]) /\ Len(f.blocks[k]) \in Nat
      BY <1>1, <1>2, <1>4 DEF Laid
    <2>2. 1 .. Len(blocks[k]) = 1 .. Len(f.blocks[k])
      BY <1>3, <2>1
    <2> QED
      BY <2>1, <2>2
  <1>6. \A k, i : Place(g, k, i) <=> Place(f, k, i)
    <2> SUFFICES ASSUME NEW k, NEW i
                 PROVE  Place(g, k, i) <=> Place(f, k, i)
      OBVIOUS
    <2>1. k \in 1 .. n => Len(g.blocks[k]) = Len(f.blocks[k])
      BY <1>2, <1>5
    <2> QED
      BY <1>4, <2>1 DEF Place
  <1>7. ASSUME NEW k, NEW i, Place(f, k, i)
        PROVE  /\ <<k - 1, i>> \in Positions(f) /\ <<k - 1, i>> \in Positions(g)
               /\ At(f, <<k - 1, i>>) = f.blocks[k][i] /\ At(g, <<k - 1, i>>) = blocks[k][i]
    <2>1. Place(g, k, i)
      BY <1>6, <1>7
    <2>2. <<k - 1, i>> \in Positions(f) /\ At(f, <<k - 1, i>>) = f.blocks[k][i]
      BY <1>1, <1>7, PlaceIsPosition
    <2>3. <<k - 1, i>> \in Positions(g) /\ At(g, <<k - 1, i>>) = g.blocks[k][i]
      BY <1>1, <2>1, PlaceIsPosition
    <2> QED
      BY <1>2, <2>2, <2>3
  <1>8. ASSUME NEW p, p \in Positions(f) \/ p \in Positions(g)
        PROVE  Place(f, p[1] + 1, p[2]) /\ p = <<(p[1] + 1) - 1, p[2]>>
    <2>1. CASE p \in Positions(f)
      BY <1>1, <2>1, PositionProperties DEF Place
    <2>2. CASE p \in Positions(g)
      <3>1. Place(g, p[1] + 1, p[2]) /\ p = <<(p[1] + 1) - 1, p[2]>>
        BY <1>1, <2>2, PositionProperties DEF Place
      <3> QED
        BY <1>6, <3>1
    <2> QED
      BY <1>8, <2>1, <2>2
  <1>9. \A p : p \in Positions(f) <=> p \in Positions(g)
    <2> TAKE p
    <2> DEFINE k == p[1] + 1
    <2>1. p \in Positions(f) \/ p \in Positions(g) => Place(f, k, p[2]) /\ p = <<k - 1, p[2]>>
      BY <1>8
    <2> HIDE DEF k
    <2> QED
      BY <1>7, <2>1
  <1>10. ASSUME NEW p \in Positions(f)
         PROVE  /\ Place(f, p[1] + 1, p[2])
                /\ At(f, p) = f.blocks[p[1] + 1][p[2]] /\ At(g, p) = blocks[p[1] + 1][p[2]]
    BY <1>1, <1>2, <1>8, <1>9, PositionProperties
  <1> QED
    BY <1>2, <1>6, <1>7, <1>9, <1>10

(* Instructions that become const or copy make the function smaller.       *)
LEMMA LessIsPlain ==
  ASSUME NEW f, Sound(f), NEW blocks, NEW g, Sound(g), ReplacedBy(f, g, blocks),
         \A k, i : Place(f, k, i) /\ f.blocks[k][i].op \in Forwarding => blocks[k][i].op \in Forwarding
  PROVE  /\ ir_instr_count(g) = ir_instr_count(f) /\ ir_instr_count(f) \in Nat
         /\ Plain(g) \subseteq Plain(f)
         /\ Size(f) = ir_instr_count(f) + Cardinality(Plain(f)) /\ Size(g) = ir_instr_count(f) + Cardinality(Plain(g))
         /\ (\E k, i : Place(f, k, i) /\ f.blocks[k][i].op \notin Forwarding /\ blocks[k][i].op \in Forwarding)
              => Size(g) < Size(f)
  <1>1. /\ Positions(g) = Positions(f)
        /\ \A p \in Positions(f) : /\ Place(f, p[1] + 1, p[2])
                                   /\ At(f, p) = f.blocks[p[1] + 1][p[2]] /\ At(g, p) = blocks[p[1] + 1][p[2]]
        /\ \A k, i : Place(f, k, i) => /\ <<k - 1, i>> \in Positions(f)
                                       /\ At(f, <<k - 1, i>>) = f.blocks[k][i] /\ At(g, <<k - 1, i>>) = blocks[k][i]
    BY ReplacedPlaces
  <1>2. /\ IsFiniteSet(Plain(f)) /\ Cardinality(Plain(f)) \in Nat /\ Cardinality(Positions(f)) \in Nat
        /\ Cardinality(Plain(g)) \in Nat
    BY FiniteFunction
  <1>3. Plain(g) \subseteq Plain(f)
    BY <1>1 DEF Plain
  <1>4. Cardinality(Plain(g)) <= Cardinality(Plain(f)) /\ (Plain(g) # Plain(f) => Cardinality(Plain(g)) # Cardinality(Plain(f)))
    BY <1>2, <1>3, FS_Subset
  <1>5. ASSUME NEW k, NEW i, Place(f, k, i), f.blocks[k][i].op \notin Forwarding, blocks[k][i].op \in Forwarding
        PROVE  Plain(g) # Plain(f)
    <2>1. <<k - 1, i>> \in Plain(f) /\ <<k - 1, i>> \notin Plain(g)
      BY <1>1, <1>5 DEF Plain
    <2> QED
      BY <2>1
  <1>6. /\ ir_instr_count(g) = Cardinality(Positions(f)) /\ ir_instr_count(f) = Cardinality(Positions(f))
        /\ Size(g) = Cardinality(Positions(f)) + Cardinality(Plain(g))
        /\ Size(f) = Cardinality(Positions(f)) + Cardinality(Plain(f))
    BY <1>1, SizeIs DEF ir_instr_count
  <1> QED
    BY <1>2, <1>3, <1>4, <1>5, <1>6

-----------------------------------------------------------------------------
(* The numbers of temps.                                                   *)

(* The results that block k of f computes from its instruction i on are    *)
(* numbered above u.                                                       *)
Above(f, k, i, u) == \A j \in i .. Len(f.blocks[k]) : f.blocks[k][j].dst # -1 => u < f.blocks[k][j].dst

LEMMA NumberedIs ==
  ASSUME NEW f, Sound(f)
  PROVE  Numbered(f) <=> \A k, i : Place(f, k, i) =>
                           /\ \A u \in TempsIn(f.blocks[k][i]) : Above(f, k, i, u)
                           /\ f.blocks[k][i].dst # -1 => Above(f, k, i + 1, f.blocks[k][i].dst)
  <1>1. Laid(f)
    BY TypedIsLaid DEF Sound
  <1>2. \A k, i : Place(f, k, i) => f.blocks[k][i].dst = -1 \/ f.blocks[k][i].dst >= 0
    <2> SUFFICES ASSUME NEW k, NEW i, Place(f, k, i), f.blocks[k][i].dst # -1 PROVE f.blocks[k][i].dst >= 0
      OBVIOUS
    <2>1. <<k - 1, i>> \in Positions(f) /\ At(f, <<k - 1, i>>) = f.blocks[k][i]
      BY <1>1, PositionProperties DEF Place
    <2>2. f.blocks[k][i].dst \in 0 .. f.next_temp - 1
      BY <2>1 DEF Sound, WellFormed, SingleAssignment
    <2> QED
      BY <2>2
  <1>3. ASSUME Numbered(f), NEW k, NEW i, Place(f, k, i)
        PROVE  /\ \A u \in TempsIn(f.blocks[k][i]) : Above(f, k, i, u)
               /\ f.blocks[k][i].dst # -1 => Above(f, k, i + 1, f.blocks[k][i].dst)
    <2>1. ASSUME NEW j \in i .. Len(f.blocks[k]), f.blocks[k][j].dst # -1
          PROVE  /\ \A u \in TempsIn(f.blocks[k][i]) : u < f.blocks[k][j].dst
                 /\ i < j => f.blocks[k][i].dst < f.blocks[k][j].dst
      <3>1. k \in DOMAIN f.blocks /\ j \in DOMAIN f.blocks[k] /\ i \in 1 .. j
        BY <1>1, <1>3 DEF Place, Laid
      <3> QED
        BY <1>3, <2>1, <3>1 DEF Numbered
    <2>2. \A j \in i + 1 .. Len(f.blocks[k]) : j \in i .. Len(f.blocks[k]) /\ i < j
      BY <1>1, <1>3 DEF Place, Laid
    <2> QED
      BY <2>1, <2>2 DEF Above
  <1>4. ASSUME \A k, i : Place(f, k, i) =>
                 /\ \A u \in TempsIn(f.blocks[k][i]) : Above(f, k, i, u)
                 /\ f.blocks[k][i].dst # -1 => Above(f, k, i + 1, f.blocks[k][i].dst)
        PROVE  Numbered(f)
    <2> SUFFICES ASSUME NEW k \in DOMAIN f.blocks, NEW j \in DOMAIN f.blocks[k], f.blocks[k][j].dst # -1,
                        NEW i \in 1 .. j
                 PROVE  /\ \A u \in TempsIn(f.blocks[k][i]) : u < f.blocks[k][j].dst
                        /\ i < j => f.blocks[k][i].dst < f.blocks[k][j].dst
      BY Zenon DEF Numbered
    <2>1. Place(f, k, i) /\ Place(f, k, j) /\ j \in i .. Len(f.blocks[k]) /\ (i < j => j \in i + 1 .. Len(f.blocks[k]))
      BY <1>1 DEF Place, Laid
    <2>2. \A u \in TempsIn(f.blocks[k][i]) : u < f.blocks[k][j].dst
      BY <1>4, <2>1 DEF Above
    <2>3. CASE f.blocks[k][i].dst # -1
      BY <1>4, <2>1, <2>2, <2>3 DEF Above
    <2>4. CASE f.blocks[k][i].dst = -1
      <3>1. f.blocks[k][j].dst >= 0
        BY <1>2, <2>1
      <3>2. f.blocks[k][j].dst \in Int
        BY <2>1, TypedInstructions DEF TypedInstr
      <3> QED
        BY <2>2, <2>4, <3>1, <3>2
    <2> QED
      BY <2>3, <2>4
  <1> QED
    BY <1>3, <1>4, Zenon

(* Instructions replaced by some that mention temps from before only.      *)
LEMMA ReplacedNumbered ==
  ASSUME NEW f, Sound(f), Numbered(f), NEW blocks, NEW g, Sound(g), ReplacedBy(f, g, blocks),
         \A k, i : Place(f, k, i) => \A u \in TempsIn(blocks[k][i]) : Above(f, k, i, u)
  PROVE  Numbered(g)
  <1>1. g.blocks = blocks /\ \A k, i : Place(g, k, i) <=> Place(f, k, i)
    BY ReplacedPlaces
  <1>2. \A k, i : Place(f, k, i) => blocks[k][i].dst = f.blocks[k][i].dst
    BY Zenon DEF ReplacedBy, ReplacedIn, Replaces, Place
  <1>3. Laid(f) /\ Laid(g)
    BY TypedIsLaid DEF Sound
  <1>4. ASSUME NEW k, NEW i, Place(f, k, i), NEW h \in {i, i + 1}, NEW u, Above(f, k, h, u)
        PROVE  Above(g, k, h, u)
    <2> SUFFICES ASSUME NEW j \in h .. Len(g.blocks[k]), g.blocks[k][j].dst # -1
                 PROVE  u < g.blocks[k][j].dst
      BY DEF Above
    <2>1. Place(g, k, j)
      <3>1. Place(g, k, i)
        BY <1>1, <1>4
      <3>2. i \in Nat /\ i >= 1 /\ Len(g.blocks[k]) \in Nat
        BY <1>3, <3>1 DEF Place, Laid
      <3>3. j \in 1 .. Len(g.blocks[k])
        BY <3>2
      <3> QED
        BY <3>1, <3>3 DEF Place
    <2>2. Place(f, k, j)
      BY <1>1, <2>1
    <2>3. g.blocks[k][j].dst = f.blocks[k][j].dst
      BY <1>1, <1>2, <2>2
    <2>4. j \in h .. Len(f.blocks[k])
      BY <2>1, <2>2, <1>4 DEF Place
    <2> QED
      BY <1>4, <2>3, <2>4 DEF Above
  <1>5. ASSUME NEW k, NEW i, Place(g, k, i)
        PROVE  /\ \A u \in TempsIn(g.blocks[k][i]) : Above(g, k, i, u)
               /\ g.blocks[k][i].dst # -1 => Above(g, k, i + 1, g.blocks[k][i].dst)
    <2>1. Place(f, k, i)
      BY <1>1, <1>5
    <2>2. f.blocks[k][i].dst # -1 => Above(f, k, i + 1, f.blocks[k][i].dst)
      BY <2>1, NumberedIs
    <2> QED
      BY <1>1, <1>2, <1>4, <2>1, <2>2
  <1> QED
    BY <1>5, NumberedIs

-----------------------------------------------------------------------------
(* Folding and simplification.                                             *)

(* What EveryChangeIsProgress says of a function and what it becomes.      *)
Smaller(f, g) ==
  /\ Size(g) < Size(f) \/ (Size(g) = Size(f) /\ Forwardable(g) < Forwardable(f))
  /\ ir_instr_count(g) <= ir_instr_count(f)

(* An instruction that is another one has become const or copy.            *)
Improves(new, in) ==
  /\ TypedInstr(new) /\ Replaces(new, in) /\ TempsIn(new) \subseteq TempsIn(in)
  /\ new = in \/ (in.op \notin Forwarding /\ new.op \in Forwarding)

LEMMA ImprovedFunction ==
  ASSUME NEW f, Sound(f), Numbered(f), NEW blocks,
         blocks = [k \in DOMAIN f.blocks |-> [i \in DOMAIN f.blocks[k] |-> blocks[k][i]]],
         \A k, i : Place(f, k, i) => Improves(blocks[k][i], f.blocks[k][i]),
         NEW g, g = [f EXCEPT !.blocks = blocks]
  PROVE  Numbered(g) /\ (g # f => Smaller(f, g))
  <1>1. g = [f EXCEPT !.blocks = blocks]
    OBVIOUS
  <1>2. Rewritten(f, blocks)
    BY Zenon DEF Rewritten, Improves
  <1>3. NoNewUses(f, blocks)
    BY Zenon DEF NoNewUses, Improves
  <1>4. Sound(g) /\ (g # f <=> Differ(f, blocks))
    BY <1>1, <1>2, <1>3, RewritingKeeps, Zenon
  <1>5. ReplacedBy(f, g, blocks)
    BY <1>1, <1>2, RewrittenIn DEF ReplacedBy
  <1>6. Numbered(g)
    <2>1. \A k, i : Place(f, k, i) => \A u \in TempsIn(blocks[k][i]) : Above(f, k, i, u)
      BY <1>3, NumberedIs DEF NoNewUses
    <2> QED
      BY <1>4, <1>5, <2>1, ReplacedNumbered
  <1>7. ASSUME g # f
        PROVE  Smaller(f, g)
    <2>1. \A k, i : Place(f, k, i) /\ f.blocks[k][i].op \in Forwarding => blocks[k][i].op \in Forwarding
      BY Zenon DEF Improves
    <2>2. PICK k, i : Place(f, k, i) /\ blocks[k][i] # f.blocks[k][i]
      BY <1>4, <1>7 DEF Differ
    <2>3. f.blocks[k][i].op \notin Forwarding /\ blocks[k][i].op \in Forwarding
      BY <2>2, Zenon DEF Improves
    <2>4. /\ ir_instr_count(g) = ir_instr_count(f) /\ ir_instr_count(f) \in Nat
          /\ Size(g) < Size(f)
      BY <1>4, <1>5, <2>1, <2>2, <2>3, LessIsPlain
    <2> QED
      BY <2>4 DEF Smaller
  <1> QED
    BY <1>1, <1>6, <1>7, Zenon

LEMMA ConstfoldProgress ==
  ASSUME NEW f, Sound(f), Numbered(f)
  PROVE  Numbered(constfold(f).f) /\ (constfold(f).f # f => Smaller(f, constfold(f).f))
  <1> DEFINE New(in) == IF FoldOf(in).ok THEN make_const(in, FoldOf(in).out) ELSE in
             blocks == [k \in DOMAIN f.blocks |-> [i \in DOMAIN f.blocks[k] |-> New(f.blocks[k][i])]]
  <1>1. ASSUME NEW in, TypedInstr(in)
        PROVE  Improves(New(in), in)
    <2>1. CASE FoldOf(in).ok
      <3>1. in.dst >= 0 /\ FoldOf(in).out \in Int
        BY <1>1, <2>1, FoldTyped
      <3>2. in.op \notin Forwarding
        <4> SUFFICES ASSUME in.op \in {"const", "copy"} PROVE FALSE
          BY DEF Forwarding
        <4>1. FoldOf(in) = NotFolded
          BY DEF FoldOf
        <4> QED
          BY <2>1, <4>1 DEF NotFolded
      <3>3. New(in) = make_const(in, FoldOf(in).out)
        BY <2>1
      <3> QED
        BY <1>1, <3>1, <3>2, <3>3, MakeConst DEF Improves, Forwarding
    <2>2. CASE ~FoldOf(in).ok
      BY <1>1, <2>2, ReplacesItself DEF Improves
    <2> QED
      BY <2>1, <2>2
  <1>2. constfold(f).f = [f EXCEPT !.blocks = blocks]
    BY DEF constfold
  <1> HIDE DEF New
  <1>3. /\ blocks = [k \in DOMAIN f.blocks |-> [i \in DOMAIN f.blocks[k] |-> blocks[k][i]]]
        /\ \A k, i : Place(f, k, i) => blocks[k][i] = New(f.blocks[k][i])
    BY TypedInstructions DEF Laid, Place
  <1> HIDE DEF blocks
  <1>4. ASSUME NEW k, NEW i, Place(f, k, i)
        PROVE  Improves(blocks[k][i], f.blocks[k][i])
    <2>1. PICK in : in = f.blocks[k][i]
      OBVIOUS
    <2>2. TypedInstr(in) /\ blocks[k][i] = New(in)
      BY <1>3, <1>4, <2>1, TypedInstructions
    <2>3. Improves(New(in), in)
      BY <1>1, <2>2
    <2> QED
      BY <2>1, <2>2, <2>3
  <1> QED
    BY <1>2, <1>3, <1>4, ImprovedFunction

LEMMA AlgebraicProgress ==
  ASSUME NEW f, Sound(f), Numbered(f)
  PROVE  Numbered(algebraic(f).f) /\ (algebraic(f).f # f => Smaller(f, algebraic(f).f))
  <1> DEFINE blocks == [k \in DOMAIN f.blocks |-> [i \in DOMAIN f.blocks[k] |-> Simplified(f.blocks[k][i])]]
  <1>1. ASSUME NEW in, TypedInstr(in)
        PROVE  Improves(Simplified(in), in)
    <2>1. TypedInstr(Simplified(in)) /\ Replaces(Simplified(in), in) /\ TempsIn(Simplified(in)) \subseteq TempsIn(in)
      BY <1>1, SimplifiedTyped
    <2>2. CASE in.dst < 0 \/ Len(in.args) # 2
      BY <2>1, <2>2 DEF Simplified, Improves
    <2>3. CASE ~(in.dst < 0) /\ Len(in.args) = 2
      <3> DEFINE a == in.args[1]
                 b == in.args[2]
      <3>1. in.op \notin Forwarding
        BY <1>1, <2>3 DEF TypedInstr, Forwarding
      <3>2. Simplified(in) \in {in, make_copy(in, a), make_copy(in, b), make_const(in, 0), make_const(in, 1)}
        BY <2>3, Zenon DEF Simplified
      <3>3. \A v : make_copy(in, v).op \in Forwarding /\ make_const(in, v).op \in Forwarding
        BY InsIs DEF make_copy, make_const, Forwarding
      <3> HIDE DEF a, b
      <3>4. Simplified(in) = in \/ Simplified(in).op \in Forwarding
        BY <3>2, <3>3
      <3> QED
        BY <2>1, <3>1, <3>4 DEF Improves
    <2> QED
      BY <2>2, <2>3
  <1>2. algebraic(f).f = [f EXCEPT !.blocks = blocks]
    BY DEF algebraic
  <1>3. /\ blocks = [k \in DOMAIN f.blocks |-> [i \in DOMAIN f.blocks[k] |-> blocks[k][i]]]
        /\ \A k, i : Place(f, k, i) => blocks[k][i] = Simplified(f.blocks[k][i])
    BY TypedInstructions DEF Laid, Place
  <1> HIDE DEF blocks
  <1>4. ASSUME NEW k, NEW i, Place(f, k, i)
        PROVE  Improves(blocks[k][i], f.blocks[k][i])
    <2>1. PICK in : in = f.blocks[k][i]
      OBVIOUS
    <2>2. TypedInstr(in) /\ blocks[k][i] = Simplified(in)
      BY <1>3, <1>4, <2>1, TypedInstructions
    <2>3. Improves(Simplified(in), in)
      BY <1>1, <2>2
    <2> QED
      BY <2>1, <2>2, <2>3
  <1> QED
    BY <1>2, <1>3, <1>4, ImprovedFunction

-----------------------------------------------------------------------------
(* Dead-code elimination.                                                  *)

(* Of f there is left g: its block j was block o[j], the instruction h of  *)
(* it was instruction kept[j][h] of that.                                  *)
LeftOf(f, g, o, kept) ==
  /\ \A j \in 1 .. Len(g.blocks) : o[j] \in 1 .. Len(f.blocks)
  /\ \A j, m \in 1 .. Len(g.blocks) : o[j] = o[m] => j = m
  /\ \A j, h : Place(g, j, h) =>
       /\ kept[j][h] \in 1 .. Len(f.blocks[o[j]])
       /\ g.blocks[j][h].op = f.blocks[o[j]][kept[j][h]].op /\ g.blocks[j][h].dst = f.blocks[o[j]][kept[j][h]].dst
       /\ TempsIn(g.blocks[j][h]) = TempsIn(f.blocks[o[j]][kept[j][h]])
       /\ \A i \in 1 .. h - 1 : kept[j][i] < kept[j][h]

LEMMA LeftIsNumbered ==
  ASSUME NEW f, Sound(f), Numbered(f), NEW g, Sound(g), NEW o, NEW kept, LeftOf(f, g, o, kept)
  PROVE  Numbered(g)
  <1>1. Laid(f) /\ Laid(g)
    BY TypedIsLaid DEF Sound
  <1>2. ASSUME NEW j, NEW h, Place(g, j, h), NEW i \in 1 .. h - 1
        PROVE  Place(g, j, i)
    BY <1>1, <1>2 DEF Place, Laid
  <1>3. ASSUME NEW j, NEW h, Place(g, j, h)
        PROVE  /\ \A u \in TempsIn(g.blocks[j][h]) : Above(g, j, h, u)
               /\ g.blocks[j][h].dst # -1 => Above(g, j, h + 1, g.blocks[j][h].dst)
    <2> DEFINE k == o[j]
               i == kept[j][h]
    <2>1. /\ Place(f, k, i) /\ g.blocks[j][h].dst = f.blocks[k][i].dst /\ TempsIn(g.blocks[j][h]) = TempsIn(f.blocks[k][i])
      BY <1>3 DEF LeftOf, Place
    <2>2. /\ \A u \in TempsIn(f.blocks[k][i]) : Above(f, k, i, u)
          /\ f.blocks[k][i].dst # -1 => Above(f, k, i + 1, f.blocks[k][i].dst)
      BY <2>1, NumberedIs
    <2>3. h \in Nat /\ h >= 1 /\ h <= Len(g.blocks[j]) /\ Len(g.blocks[j]) \in Nat
      BY <1>1, <1>3 DEF Place, Laid
    <2>4. ASSUME NEW m \in h .. Len(g.blocks[j])
          PROVE  /\ Place(f, k, kept[j][m]) /\ kept[j][m] \in Nat /\ g.blocks[j][m].dst = f.blocks[k][kept[j][m]].dst
                 /\ kept[j][m] >= i /\ (m > h => kept[j][m] >= i + 1)
      <3>1. Place(g, j, m)
        BY <1>3, <2>3 DEF Place
      <3>2. /\ kept[j][m] \in 1 .. Len(f.blocks[k]) /\ g.blocks[j][m].dst = f.blocks[k][kept[j][m]].dst
            /\ \A n \in 1 .. m - 1 : kept[j][n] < kept[j][m]
        BY <3>1 DEF LeftOf
      <3>3. k \in 1 .. Len(f.blocks) /\ Len(f.blocks[k]) \in Nat /\ i \in Nat /\ kept[j][m] \in Nat
        BY <1>1, <2>1, <3>2 DEF Place, Laid
      <3>4. m > h => kept[j][h] < kept[j][m]
        <4>1. m > h => h \in 1 .. m - 1
          BY <2>3
        <4> QED
          BY <3>2, <4>1
      <3>5. m = h \/ m > h
        BY <2>3
      <3> QED
        BY <3>2, <3>3, <3>4, <3>5 DEF Place
    <2> HIDE DEF k, i
    <2>5. \A m \in h .. Len(g.blocks[j]) : /\ kept[j][m] \in i .. Len(f.blocks[k])
                                           /\ m \in h + 1 .. Len(g.blocks[j]) => kept[j][m] \in i + 1 .. Len(f.blocks[k])
                                           /\ g.blocks[j][m].dst = f.blocks[k][kept[j][m]].dst
      <3> TAKE m \in h .. Len(g.blocks[j])
      <3>1. kept[j][m] \in 1 .. Len(f.blocks[k]) /\ Len(f.blocks[k]) \in Nat /\ i \in Nat
        BY <1>1, <2>1, <2>4 DEF Place, Laid
      <3> QED
        BY <2>3, <2>4, <3>1
    <2>6. \A m \in h + 1 .. Len(g.blocks[j]) : m \in h .. Len(g.blocks[j])
      BY <2>3
    <2> QED
      BY <2>1, <2>2, <2>5, <2>6 DEF Above
  <1> QED
    BY <1>3, NumberedIs

LEMMA LeftIsLess ==
  ASSUME NEW f, Sound(f), NEW g, Sound(g), NEW o, NEW kept, LeftOf(f, g, o, kept)
  PROVE  /\ ir_instr_count(g) <= ir_instr_count(f) /\ Size(g) <= Size(f)
         /\ (\E k, i : Place(f, k, i) /\ \A j, h : Place(g, j, h) /\ o[j] = k => kept[j][h] # i) => Size(g) < Size(f)
  <1> DEFINE e == [p \in Positions(g) |-> <<o[p[1] + 1] - 1, kept[p[1] + 1][p[2]]>>]
             From(p, j, h, k, i) == /\ Place(g, j, h) /\ p = <<j - 1, h>> /\ h \in Nat /\ h >= 1
                                    /\ k = o[j] /\ i = kept[j][h] /\ Place(f, k, i) /\ k \in Nat /\ i \in Nat
                                    /\ e[p] = <<k - 1, i>>
  <1>1. Laid(f) /\ Laid(g)
    BY TypedIsLaid DEF Sound
  <1>2. ASSUME NEW p \in Positions(g)
        PROVE  /\ \E j, h, k, i : From(p, j, h, k, i)
               /\ e[p] \in Positions(f) /\ At(g, p).op = At(f, e[p]).op
    <2>1. PICK j, h : j = p[1] + 1 /\ h = p[2]
      OBVIOUS
    <2>2. PICK k, i : k = o[j] /\ i = kept[j][h]
      OBVIOUS
    <2>3. e[p] = <<k - 1, i>>
      BY <2>1, <2>2
    <2> HIDE DEF e, From
    <2>4. Place(g, j, h) /\ p = <<j - 1, h>> /\ At(g, p) = g.blocks[j][h] /\ h \in Nat /\ h >= 1
      BY <1>1, <2>1, PositionProperties DEF Place
    <2>5. j \in 1 .. Len(g.blocks)
      BY <2>4 DEF Place
    <2>6. k \in 1 .. Len(f.blocks) /\ i \in 1 .. Len(f.blocks[k]) /\ g.blocks[j][h].op = f.blocks[k][i].op
      <3>1. \A b \in 1 .. Len(g.blocks) : o[b] \in 1 .. Len(f.blocks)
        BY Zenon DEF LeftOf
      <3>2. \A b, c : Place(g, b, c) => /\ kept[b][c] \in 1 .. Len(f.blocks[o[b]])
                                        /\ g.blocks[b][c].op = f.blocks[o[b]][kept[b][c]].op
        BY Zenon DEF LeftOf
      <3>3. /\ kept[j][h] \in 1 .. Len(f.blocks[o[j]])
            /\ g.blocks[j][h].op = f.blocks[o[j]][kept[j][h]].op
        BY <2>4, <3>2
      <3> QED
        BY <2>2, <2>5, <3>1, <3>3
    <2>7. Place(f, k, i)
      BY <2>6 DEF Place
    <2>8. <<k - 1, i>> \in Positions(f) /\ At(f, <<k - 1, i>>) = f.blocks[k][i]
      BY <1>1, <2>7, PlaceIsPosition
    <2>9. k \in Nat /\ i \in Nat
      BY <1>1, <2>6 DEF Laid
    <2>10. e[p] \in Positions(f) /\ At(g, p).op = At(f, e[p]).op
      BY <2>3, <2>4, <2>6, <2>8
    <2>11. From(p, j, h, k, i)
      BY <2>2, <2>3, <2>4, <2>7, <2>9 DEF From
    <2> QED
      BY <2>10, <2>11
  <1>3. e \in [Positions(g) -> Positions(f)]
    BY <1>2
  <1> HIDE DEF e, From
  <1>4. ASSUME NEW p \in Positions(g), NEW q \in Positions(g), e[p] = e[q]
        PROVE  p = q
    <2>1. PICK j, h, k, i : From(p, j, h, k, i)
      BY <1>2
    <2>2. PICK m, n, l, a : From(q, m, n, l, a)
      BY <1>2
    <2> USE DEF From
    <2>3. k = l /\ i = a
      BY <1>4, <2>1, <2>2
    <2>4. j \in 1 .. Len(g.blocks) /\ m \in 1 .. Len(g.blocks)
      BY <2>1, <2>2 DEF Place
    <2>5. j = m
      BY <2>1, <2>2, <2>3, <2>4, Zenon DEF LeftOf
    <2>6. /\ \A b \in 1 .. h - 1 : kept[j][b] < i
          /\ \A b \in 1 .. n - 1 : kept[j][b] < i
      <3>1. Place(g, j, h) /\ Place(g, j, n) /\ i = kept[j][h] /\ i = kept[j][n]
        BY <2>1, <2>2, <2>3, <2>5
      <3> HIDE DEF From
      <3>2. /\ \A b \in 1 .. h - 1 : kept[j][b] < kept[j][h]
            /\ \A b \in 1 .. n - 1 : kept[j][b] < kept[j][n]
        BY <3>1, Zenon DEF LeftOf
      <3> QED
        BY <3>1, <3>2
    <2>7. ~(h < n)
      <3>1. h < n => h \in 1 .. n - 1
        BY <2>1, <2>2
      <3>2. h < n => i < i
        BY <2>1, <2>6, <3>1
      <3> QED
        BY <2>1, <3>2
    <2>8. ~(n < h)
      <3>1. n < h => n \in 1 .. h - 1
        BY <2>1, <2>2
      <3>2. n < h => i < i
        BY <2>2, <2>3, <2>5, <2>6, <3>1
      <3> QED
        BY <2>1, <3>2
    <2>9. h = n
      BY <2>1, <2>2, <2>7, <2>8
    <2> QED
      BY <2>1, <2>2, <2>5, <2>9
  <1>5. \A p \in Positions(g) : At(g, p).op = At(f, e[p]).op
    BY <1>2
  <1>6. /\ ir_instr_count(g) <= ir_instr_count(f) /\ Size(g) <= Size(f)
        /\ (\E x \in Positions(f) : \A p \in Positions(g) : e[p] # x) => Size(g) < Size(f)
    BY <1>3, <1>4, <1>5, LessIsLeft
  <1>7. ASSUME NEW k, NEW i, Place(f, k, i), \A j, h : Place(g, j, h) /\ o[j] = k => kept[j][h] # i
        PROVE  \E x \in Positions(f) : \A p \in Positions(g) : e[p] # x
    <2>1. <<k - 1, i>> \in Positions(f) /\ k \in Nat
      BY <1>1, <1>7, PositionProperties DEF Place, Laid
    <2>2. ASSUME NEW p \in Positions(g), e[p] = <<k - 1, i>>
          PROVE  FALSE
      <3>1. PICK j, h, l, a : From(p, j, h, l, a)
        BY <1>2
      <3> USE DEF From
      <3>2. l = k /\ a = i
        BY <2>1, <2>2, <3>1
      <3> QED
        BY <1>7, <3>1, <3>2
    <2> QED
      BY <2>1, <2>2
  <1> QED
    BY <1>6, <1>7

(* A sweep leaves every block and the survivors of it in their order.      *)
LEMMA SweptLeft ==
  ASSUME NEW f, Sound(f), Numbered(f), NEW dead, Deletable(f, dead), dead \subseteq Positions(f)
  PROVE  LET g == sweep_dead(f, dead)
         IN  /\ Sound(g) /\ Numbered(g)
             /\ ir_instr_count(g) <= ir_instr_count(f) /\ Size(g) <= Size(f)
             /\ dead = {} => g = f
             /\ dead # {} => Size(g) < Size(f)
  <1> DEFINE g == sweep_dead(f, dead)
             S(k) == Survivors(f, dead, k)
             kept(k) == InOrder(S(k))
             o == [k \in 1 .. Len(f.blocks) |-> k]
             was == [k \in 1 .. Len(f.blocks) |-> kept(k)]
  <1>1. Laid(f) /\ DOMAIN f.blocks = 1 .. Len(f.blocks)
    BY TypedIsLaid DEF Sound, Laid
  <1>2. Sound(g) /\ Len(g.blocks) = Len(f.blocks) /\ (dead = {} => g = f)
    BY SweepKeeps
  <1>3. Laid(g)
    BY <1>2, TypedIsLaid DEF Sound
  <1>4. g.blocks = [k \in DOMAIN f.blocks |-> [j \in DOMAIN kept(k) |-> f.blocks[k][kept(k)[j]]]]
    BY <1>1 DEF sweep_dead, Laid
  <1>5. ASSUME NEW k \in 1 .. Len(f.blocks)
        PROVE  /\ S(k) \subseteq 1 .. Len(f.blocks[k]) /\ S(k) \in SUBSET Int /\ Cardinality(S(k)) \in Nat
               /\ kept(k) \in [1 .. Cardinality(S(k)) -> S(k)]
               /\ \A i, j \in 1 .. Cardinality(S(k)) : i < j <=> kept(k)[i] < kept(k)[j]
    <2>1. \A p \in dead \cap Positions(f) : ~op_is_terminator(At(f, p).op)
      BY DEF Deletable
    <2>2. /\ S(k) \subseteq 1 .. Len(f.blocks[k]) /\ S(k) \in SUBSET Int /\ IsFiniteSet(S(k)) /\ Cardinality(S(k)) \in Nat
      BY <2>1, SurvivorsProperties
    <2> QED
      BY <2>2, InOrderProperties
  <1>6. ASSUME NEW k \in 1 .. Len(f.blocks)
        PROVE  /\ was[k] = kept(k) /\ o[k] = k
               /\ Len(g.blocks[k]) = Cardinality(S(k))
               /\ \A h \in 1 .. Cardinality(S(k)) : g.blocks[k][h] = f.blocks[k][kept(k)[h]]
    <2>1. was[k] = kept(k) /\ o[k] = k
      OBVIOUS
    <2> HIDE DEF kept, was, o, g
    <2>2. g.blocks[k] = [j \in DOMAIN kept(k) |-> f.blocks[k][kept(k)[j]]]
      BY <1>1, <1>4
    <2>3. DOMAIN kept(k) = 1 .. Cardinality(S(k)) /\ Cardinality(S(k)) \in Nat
      BY <1>5
    <2>4. DOMAIN g.blocks[k] = 1 .. Cardinality(S(k)) /\ DOMAIN g.blocks[k] = 1 .. Len(g.blocks[k]) /\ Len(g.blocks[k]) \in Nat
      BY <1>2, <1>3, <2>2, <2>3 DEF Laid
    <2>5. Len(g.blocks[k]) = Cardinality(S(k))
      BY <2>3, <2>4
    <2> QED
      BY <2>1, <2>2, <2>3, <2>5
  <1> HIDE DEF g, was, o, kept, S
  <1>7. ASSUME NEW j, NEW h, Place(g, j, h)
        PROVE  /\ was[j][h] \in S(j) /\ was[j][h] \in 1 .. Len(f.blocks[j])
               /\ g.blocks[j][h] = f.blocks[j][was[j][h]] /\ o[j] = j
               /\ \A i \in 1 .. h - 1 : was[j][i] < was[j][h]
    <2>1. j \in 1 .. Len(f.blocks)
      BY <1>2, <1>7 DEF Place
    <2>2. h \in 1 .. Cardinality(S(j)) /\ \A i \in 1 .. h - 1 : i \in 1 .. Cardinality(S(j)) /\ i < h
      <3>1. h \in 1 .. Cardinality(S(j)) /\ Cardinality(S(j)) \in Nat
        BY <1>5, <1>6, <1>7, <2>1 DEF Place
      <3> QED
        BY <3>1
    <2>3. /\ S(j) \subseteq 1 .. Len(f.blocks[j]) /\ \A i \in 1 .. Cardinality(S(j)) : kept(j)[i] \in S(j)
          /\ \A i, m \in 1 .. Cardinality(S(j)) : i < m <=> kept(j)[i] < kept(j)[m]
      BY <1>5, <2>1
    <2>4. was[j] = kept(j) /\ o[j] = j /\ g.blocks[j][h] = f.blocks[j][kept(j)[h]]
      BY <1>6, <2>1, <2>2
    <2> QED
      BY <2>2, <2>3, <2>4
  <1>8. LeftOf(f, g, o, was)
    <2>1. \A j \in 1 .. Len(g.blocks) : o[j] = j /\ o[j] \in 1 .. Len(f.blocks)
      BY <1>2, <1>6
    <2>2. \A j, m \in 1 .. Len(g.blocks) : o[j] = o[m] => j = m
      BY <2>1
    <2>3. ASSUME NEW j, NEW h, Place(g, j, h)
          PROVE  /\ was[j][h] \in 1 .. Len(f.blocks[o[j]])
                 /\ g.blocks[j][h].op = f.blocks[o[j]][was[j][h]].op /\ g.blocks[j][h].dst = f.blocks[o[j]][was[j][h]].dst
                 /\ TempsIn(g.blocks[j][h]) = TempsIn(f.blocks[o[j]][was[j][h]])
                 /\ \A i \in 1 .. h - 1 : was[j][i] < was[j][h]
      BY <1>7, <2>3
    <2> QED
      BY <2>1, <2>2, <2>3, Zenon DEF LeftOf
  <1>9. Numbered(g)
    BY <1>2, <1>8, LeftIsNumbered
  <1>10. ASSUME dead # {}
         PROVE  \E k, i : Place(f, k, i) /\ \A j, h : Place(g, j, h) /\ o[j] = k => was[j][h] # i
    <2>1. PICK p \in Positions(f) : p \in dead
      BY <1>10
    <2>2. PICK k : k = p[1] + 1
      OBVIOUS
    <2>3. Place(f, k, p[2]) /\ p = <<k - 1, p[2]>>
      BY <1>1, <2>2, PositionProperties DEF Place
    <2>4. p[2] \notin S(k)
      BY <2>1, <2>3 DEF S, Survivors
    <2>5. ASSUME NEW j, NEW h, Place(g, j, h), o[j] = k
          PROVE  was[j][h] # p[2]
      BY <1>7, <2>4, <2>5
    <2>6. Place(f, k, p[2]) /\ \A j, h : Place(g, j, h) /\ o[j] = k => was[j][h] # p[2]
      BY <2>3, <2>5
    <2> QED
      BY <2>6
  <1>11. /\ ir_instr_count(g) <= ir_instr_count(f) /\ Size(g) <= Size(f)
         /\ dead # {} => Size(g) < Size(f)
    BY <1>2, <1>8, <1>10, LeftIsLess
  <1> QED
    BY <1>2, <1>9, <1>11 DEF g

(* Removing the unreachable blocks leaves the others as they were.         *)
LEMMA PackedLeft ==
  ASSUME NEW f, Sound(f), Numbered(f)
  PROVE  LET g == remove_unreachable(f).f
         IN  /\ Sound(g) /\ Numbered(g)
             /\ ir_instr_count(g) <= ir_instr_count(f) /\ Size(g) <= Size(f)
             /\ g # f => Size(g) < Size(f)
  <1> DEFINE seen == reachable_blocks(f)
             n == Cardinality(seen)
             blocks == Packed(f)
             o == [j \in 1 .. n |-> Origin(f, j) + 1]
             was == [j \in 1 .. n |-> [i \in 1 .. Len(f.blocks[o[j]]) |-> i]]
  <1>1. CASE seen = BlockIds(f)
    <2>1. remove_unreachable(f).f = f
      BY <1>1, RemoveUnreachableIs
    <2>2. ir_instr_count(f) \in Nat /\ Size(f) \in Nat
      BY SizeIsNat
    <2> QED
      BY <2>1, <2>2
  <1>2. ASSUME seen # BlockIds(f)
        PROVE  LET g == remove_unreachable(f).f
               IN  /\ Sound(g) /\ Numbered(g)
                   /\ ir_instr_count(g) <= ir_instr_count(f) /\ Size(g) < Size(f)
    <2>1. PICK g : g = remove_unreachable(f).f
      OBVIOUS
    <2>2. g = [f EXCEPT !.blocks = blocks]
      BY <1>2, <2>1, RemoveUnreachableIs
    <2>3. Sound(g) /\ Len(blocks) = n
      BY <2>2, PackedSound
    <2>4. g.blocks = blocks
      BY <2>2, OtherBlocksSameOutside
    <2>5. Laid(f) /\ Laid(g)
      BY <2>3, TypedIsLaid DEF Sound
    <2>6. seen \subseteq BlockIds(f) /\ n \in Nat
      BY SeenProperties
    <2>7. ASSUME NEW j \in 1 .. n
          PROVE  /\ o[j] = Origin(f, j) + 1 /\ o[j] \in 1 .. Len(f.blocks) /\ Origin(f, j) \in BlockIds(f)
                 /\ Origin(f, j) \in seen
                 /\ Len(g.blocks[j]) = Len(f.blocks[o[j]]) /\ Len(f.blocks[o[j]]) \in Nat
                 /\ \A i \in 1 .. Len(f.blocks[o[j]]) :
                      /\ was[j][i] = i
                      /\ TempsIn(g.blocks[j][i]) = TempsIn(f.blocks[o[j]][i])
                      /\ g.blocks[j][i].op = f.blocks[o[j]][i].op /\ g.blocks[j][i].dst = f.blocks[o[j]][i].dst
      <3>1. o[j] = Origin(f, j) + 1
        OBVIOUS
      <3>2. \A i \in 1 .. Len(f.blocks[o[j]]) : was[j][i] = i
        OBVIOUS
      <3> HIDE DEF o, was, blocks
      <3>3. PICK k : k = Origin(f, j) + 1
        OBVIOUS
      <3>4. /\ k \in 1 .. Len(f.blocks) /\ Origin(f, j) \in BlockIds(f)
            /\ Len(f.blocks[k]) \in Nat /\ Len(blocks[j]) = Len(f.blocks[k])
            /\ \A i \in 1 .. Len(f.blocks[k]) : /\ TempsIn(blocks[j][i]) = TempsIn(f.blocks[k][i])
                                                /\ blocks[j][i].op = f.blocks[k][i].op /\ blocks[j][i].dst = f.blocks[k][i].dst
        BY <3>3, PackedBlock DEF blocks
      <3>5. Origin(f, j) \in seen
        BY SeenProperties DEF Origin
      <3> QED
        BY <2>4, <3>1, <3>2, <3>3, <3>4, <3>5
    <2> HIDE DEF o, was, blocks, n, seen
    <2>8. ASSUME NEW j, NEW h, Place(g, j, h)
          PROVE  /\ j \in 1 .. n /\ h \in 1 .. Len(f.blocks[o[j]])
                 /\ was[j][h] = h /\ \A i \in 1 .. h - 1 : was[j][i] = i /\ i < h
      <3>1. j \in 1 .. n /\ h \in 1 .. Len(g.blocks[j])
        BY <2>3, <2>4, <2>8 DEF Place
      <3>2. PICK L : L = Len(f.blocks[o[j]])
        OBVIOUS
      <3>3. L \in Nat /\ Len(g.blocks[j]) = L /\ \A i \in 1 .. L : was[j][i] = i
        BY <2>7, <3>1, <3>2
      <3>4. \A i \in 1 .. h - 1 : i \in 1 .. L /\ i < h
        BY <3>1, <3>3
      <3> QED
        BY <3>1, <3>2, <3>3, <3>4
    <2>9. LeftOf(f, g, o, was)
      <3>1. \A j \in 1 .. Len(g.blocks) : j \in 1 .. n /\ o[j] \in 1 .. Len(f.blocks)
        BY <2>3, <2>4, <2>7
      <3>2. ASSUME NEW j \in 1 .. Len(g.blocks), NEW m \in 1 .. Len(g.blocks), o[j] = o[m]
            PROVE  j = m
        <4>1. Origin(f, j) = Origin(f, m)
          <5>1. PICK a, b : a = Origin(f, j) /\ b = Origin(f, m)
            OBVIOUS
          <5>2. o[j] = a + 1 /\ o[m] = b + 1 /\ a \in BlockIds(f) /\ b \in BlockIds(f)
            BY <2>7, <3>1, <5>1
          <5>3. a + 1 = b + 1
            BY <3>2, <5>2
          <5>4. a = b
            BY <5>2, <5>3 DEF BlockIds
          <5> QED
            BY <5>1, <5>4
        <4> QED
          BY <3>1, <4>1, SeenProperties DEF Origin, n, seen
      <3>3. ASSUME NEW j, NEW h, Place(g, j, h)
            PROVE  /\ was[j][h] \in 1 .. Len(f.blocks[o[j]])
                   /\ g.blocks[j][h].op = f.blocks[o[j]][was[j][h]].op /\ g.blocks[j][h].dst = f.blocks[o[j]][was[j][h]].dst
                   /\ TempsIn(g.blocks[j][h]) = TempsIn(f.blocks[o[j]][was[j][h]])
                   /\ \A i \in 1 .. h - 1 : was[j][i] < was[j][h]
        <4>1. j \in 1 .. n /\ was[j][h] = h /\ h \in 1 .. Len(f.blocks[o[j]])
          BY <2>8, <3>3
        <4>2. \A i \in 1 .. h - 1 : was[j][i] < was[j][h]
          BY <2>8, <3>3, <4>1
        <4>3. /\ TempsIn(g.blocks[j][h]) = TempsIn(f.blocks[o[j]][h])
              /\ g.blocks[j][h].op = f.blocks[o[j]][h].op /\ g.blocks[j][h].dst = f.blocks[o[j]][h].dst
          BY <2>7, <4>1, Zenon
        <4> QED
          BY <4>1, <4>2, <4>3, Zenon
      <3> QED
        BY <3>1, <3>2, <3>3, Zenon DEF LeftOf
    <2>10. \E k, i : Place(f, k, i) /\ \A j, h : Place(g, j, h) /\ o[j] = k => was[j][h] # i
      <3>1. PICK b \in BlockIds(f) : b \notin seen
        BY <1>2, <2>6
      <3>2. PICK k : k = b + 1
        OBVIOUS
      <3>3. b \in Int /\ k \in 1 .. Len(f.blocks) /\ Block(f, b) = f.blocks[k] /\ Len(f.blocks[k]) \in Nat
        BY <2>5, <3>1, <3>2, PositionProperties DEF BlockIds, Laid
      <3>4. f.blocks[k] # <<>> /\ IsSequence(f.blocks[k])
        BY <3>1, <3>3, <2>5 DEF Sound, WellFormed, CFGWellFormed, TypedFunction, Laid
      <3>5. Len(f.blocks[k]) # 0
        BY <3>4, EmptySeq DEF IsSequence
      <3>6. Place(f, k, 1)
        BY <3>3, <3>5 DEF Place
      <3>7. ASSUME NEW j, NEW h, Place(g, j, h), o[j] = k
            PROVE  FALSE
        <4>1. o[j] = Origin(f, j) + 1 /\ Origin(f, j) \in BlockIds(f) /\ Origin(f, j) \in seen
          BY <2>7, <2>8, <3>7
        <4>2. Origin(f, j) \in Int
          BY <4>1 DEF BlockIds
        <4> QED
          BY <3>1, <3>2, <3>3, <3>7, <4>1, <4>2
      <3>8. Place(f, k, 1) /\ \A j, h : Place(g, j, h) /\ o[j] = k => was[j][h] # 1
        BY <3>6, <3>7
      <3> QED
        BY <3>8
    <2>11. Numbered(g)
      BY <2>3, <2>9, LeftIsNumbered
    <2>12. ir_instr_count(g) <= ir_instr_count(f) /\ Size(g) < Size(f)
      BY <2>3, <2>9, <2>10, LeftIsLess
    <2> QED
      BY <2>1, <2>3, <2>11, <2>12
  <1>3. ASSUME seen # BlockIds(f)
        PROVE  Size(remove_unreachable(f).f) <= Size(f)
    <2>1. PICK g : g = remove_unreachable(f).f
      OBVIOUS
    <2>2. Sound(g) /\ Size(g) < Size(f)
      BY <1>2, <1>3, <2>1
    <2>3. Size(f) \in Nat /\ Size(g) \in Nat
      BY <2>2, SizeIsNat
    <2> QED
      BY <2>1, <2>2, <2>3
  <1> HIDE DEF seen
  <1> QED
    BY <1>1, <1>2, <1>3

LEMMA DceProgress ==
  ASSUME NEW f, Sound(f), Numbered(f)
  PROVE  Numbered(dce(f).f) /\ (dce(f).f # f => Smaller(f, dce(f).f))
  <1> DEFINE a == remove_unreachable(f).f
             b == eliminate_dead_temps(a).f
             c == dead_store_elim(b).f
  <1>1. /\ Sound(a) /\ Numbered(a)
        /\ ir_instr_count(a) <= ir_instr_count(f) /\ Size(a) <= Size(f)
        /\ a # f => Size(a) < Size(f)
    BY PackedLeft
  <1> HIDE DEF a
  <1>2. /\ Sound(b) /\ Numbered(b)
        /\ ir_instr_count(b) <= ir_instr_count(a) /\ Size(b) <= Size(a)
        /\ b # a => Size(b) < Size(a)
    <2> DEFINE dead == Marked(a)[a.next_temp]
    <2>1. b = sweep_dead(a, dead)
      BY DEF eliminate_dead_temps
    <2>2. Deletable(a, dead) /\ dead \subseteq Positions(a)
      BY <1>1, MarkedDeletable
    <2> HIDE DEF dead
    <2> QED
      BY <1>1, <2>1, <2>2, SweptLeft
  <1> HIDE DEF b
  <1>3. /\ Sound(c) /\ Numbered(c)
        /\ ir_instr_count(c) <= ir_instr_count(b) /\ Size(c) <= Size(b)
        /\ c # b => Size(c) < Size(b)
    <2>1. c = sweep_dead(b, DeadStores(b))
      BY DEF dead_store_elim
    <2>2. Deletable(b, DeadStores(b)) /\ DeadStores(b) \subseteq Positions(b)
      BY <1>2, DeadStoresDeletable
    <2> QED
      BY <1>2, <2>1, <2>2, SweptLeft
  <1>4. dce(f).f = c
    BY DEF dce, a, b
  <1> HIDE DEF c
  <1>5. /\ Size(f) \in Nat /\ Size(a) \in Nat /\ Size(b) \in Nat /\ Size(c) \in Nat
        /\ ir_instr_count(f) \in Nat /\ ir_instr_count(a) \in Nat /\ ir_instr_count(b) \in Nat /\ ir_instr_count(c) \in Nat
    BY <1>1, <1>2, <1>3, SizeIsNat
  <1>6. ir_instr_count(c) <= ir_instr_count(f)
    BY <1>1, <1>2, <1>3, <1>5
  <1>7. c # f => Size(c) < Size(f)
    <2>1. Size(c) <= Size(f) /\ (Size(a) < Size(f) \/ Size(b) < Size(a) \/ Size(c) < Size(b) => Size(c) < Size(f))
      BY <1>1, <1>2, <1>3, <1>5
    <2> QED
      BY <1>1, <1>2, <1>3, <2>1
  <1> QED
    BY <1>3, <1>4, <1>6, <1>7 DEF Smaller

-----------------------------------------------------------------------------
(* Propagation: what temps stand for is numbered below them.               *)
Downward(map) ==
  \A t \in DOMAIN map : t \in Int /\ map[t] \in Values /\ (is_temp(map[t]) => map[t].n < t)

LEMMA OperandIs ==
  ASSUME NEW in, TypedInstr(in)
  PROVE  /\ Len(in.args) \in Nat /\ DOMAIN in.args = 1 .. Len(in.args)
         /\ \A i \in 1 .. Len(in.args) : in.args[i] \in Values /\ (is_temp(in.args[i]) => in.args[i].n \in TempsIn(in))
  <1>1. in.args \in Seq(Values)
    BY DEF TypedInstr
  <1>2. Len(in.args) \in Nat /\ DOMAIN in.args = 1 .. Len(in.args)
    BY <1>1
  <1>3. \A i \in 1 .. Len(in.args) : in.args[i] \in Values
    BY <1>1, ElementOfSeq
  <1>4. \A i \in 1 .. Len(in.args) : is_temp(in.args[i]) => in.args[i].n \in TempsIn(in)
    BY <1>2 DEF TempsIn
  <1> QED
    BY <1>2, <1>3, <1>4

LEMMA ResultIs ==
  ASSUME NEW f, Sound(f), NEW k, NEW i, Place(f, k, i), f.blocks[k][i].dst # -1
  PROVE  f.blocks[k][i].dst \in 0 .. f.next_temp - 1
  <1>1. <<k - 1, i>> \in Positions(f) /\ At(f, <<k - 1, i>>) = f.blocks[k][i]
    BY TypedInstructions, PositionProperties DEF Place
  <1> QED
    BY <1>1 DEF Sound, WellFormed, SingleAssignment

LEMMA DefMapIs ==
  ASSUME NEW f, Sound(f), NEW t \in DOMAIN DefMap(f)
  PROVE  \E k, i : /\ Place(f, k, i) /\ f.blocks[k][i].op \in Forwarding /\ f.blocks[k][i].dst = t /\ t >= 0
                   /\ DefMap(f)[t] = f.blocks[k][i].args[1] /\ 1 \in 1 .. Len(f.blocks[k][i].args)
  <1>1. \E in \in CopyDefs(f) : in.dst = t
    BY DEF DefMap
  <1>2. PICK in \in CopyDefs(f) : in.dst = t /\ DefMap(f)[t] = in.args[1]
    <2> DEFINE in == CHOOSE in \in CopyDefs(f) : in.dst = t
    <2>1. in \in CopyDefs(f) /\ in.dst = t
      BY <1>1
    <2>2. DefMap(f)[t] = in.args[1]
      BY DEF DefMap
    <2> QED
      BY <2>1, <2>2
  <1>3. in \in InstrsOf(f) /\ in.dst >= 0 /\ in.op \in Forwarding
    BY DEF CopyDefs, Forwarding
  <1>4. PICK k, i : Place(f, k, i) /\ in = f.blocks[k][i]
    BY <1>3, TypedInstructions
  <1>5. Len(in.args) = 1
    BY <1>3, TypedInstructions DEF TypedInstr, Forwarding
  <1> QED
    BY <1>2, <1>3, <1>4, <1>5

LEMMA DefMapDown ==
  ASSUME NEW f, Sound(f), Numbered(f)
  PROVE  Downward(DefMap(f))
  <1> SUFFICES ASSUME NEW t \in DOMAIN DefMap(f)
               PROVE  t \in Int /\ DefMap(f)[t] \in Values /\ (is_temp(DefMap(f)[t]) => DefMap(f)[t].n < t)
    BY DEF Downward
  <1>1. PICK k, i : /\ Place(f, k, i) /\ f.blocks[k][i].op \in Forwarding /\ f.blocks[k][i].dst = t /\ t >= 0
                    /\ DefMap(f)[t] = f.blocks[k][i].args[1] /\ 1 \in 1 .. Len(f.blocks[k][i].args)
    BY DefMapIs
  <1>2. PICK v : v = DefMap(f)[t]
    OBVIOUS
  <1>3. v \in Values /\ (is_temp(v) => v.n \in TempsIn(f.blocks[k][i]))
    <2>1. TypedInstr(f.blocks[k][i])
      BY <1>1, TypedInstructions
    <2> QED
      BY <1>1, <1>2, <2>1, OperandIs
  <1>4. t \in 0 .. f.next_temp - 1 /\ t # -1
    BY <1>1, ResultIs
  <1>5. is_temp(v) => v.n < t
    <2>1. is_temp(v) => Above(f, k, i, v.n)
      BY <1>1, <1>3, NumberedIs
    <2>2. i \in i .. Len(f.blocks[k])
      BY <1>1, TypedInstructions DEF Place, Laid
    <2> QED
      BY <1>1, <1>4, <2>1, <2>2 DEF Above
  <1> QED
    BY <1>2, <1>3, <1>4, <1>5

(* A chain of copies ends at a constant or at a temp that nothing copies.  *)
LEMMA ChaseEnds ==
  ASSUME NEW f, Sound(f), Numbered(f)
  PROVE  /\ DOMAIN Resolved(DefMap(f)) = DOMAIN DefMap(f)
         /\ Downward(Resolved(DefMap(f)))
         /\ \A t \in DOMAIN DefMap(f) :
              is_temp(Resolved(DefMap(f))[t]) => Resolved(DefMap(f))[t].n \notin DOMAIN DefMap(f)
  <1> DEFINE def == DefMap(f)
             N == Cardinality(DOMAIN def)
  <1>1. DOMAIN def \subseteq 0 .. f.next_temp - 1 /\ Downward(def)
    BY DefMapProperties, DefMapDown
  <1> HIDE DEF def
  <1>2. f.next_temp \in Nat
    BY DEF Sound, TypedFunction
  <1>3. IsFiniteSet(DOMAIN def) /\ DOMAIN def \in SUBSET Int
    <2>1. IsFiniteSet(0 .. f.next_temp - 1)
      BY <1>2, FS_Interval
    <2> QED
      BY <1>1, <1>2, <2>1, FS_Subset
  <1>4. /\ N \in Nat
        /\ \A k \in DOMAIN def : Rank(DOMAIN def, k) \in 0 .. N - 1
        /\ \A j, k \in DOMAIN def : j < k <=> Rank(DOMAIN def, j) < Rank(DOMAIN def, k)
    BY <1>3, RankProperties
  <1> DEFINE r(u) == Rank(DOMAIN def, u)
             Near(v, t, n) == /\ v \in Values
                              /\ is_temp(v) => v.n <= t /\ (v.n \in DOMAIN def => r(v.n) <= N - 1 - n)
  <1> HIDE DEF N, r
  <1>5. ASSUME NEW t \in DOMAIN def
        PROVE  LET v == Chase(def, t)[N]
               IN  /\ v \in Values
                   /\ is_temp(v) => v.n < t /\ v.n \notin DOMAIN def
    <2> DEFINE c == Chase(def, t)
               T == { n \in 0 .. N : Near(c[n], t, n) }
    <2>1. c = [n \in 0 .. N |-> IF n = 0 THEN Temp(t) ELSE Forward(def, c[n - 1])]
      BY <1>4, ChaseDef DEF N
    <2> HIDE DEF c
    <2>2. t \in Int /\ r(t) \in 0 .. N - 1
      BY <1>3, <1>4 DEF r
    <2>3. 0 \in T
      <3>1. c[0] = Temp(t)
        BY <1>4, <2>1
      <3>2. Temp(t) \in Values /\ Temp(t).n = t
        BY <2>2 DEF Temp, Values
      <3>3. Near(Temp(t), t, 0)
        BY <1>4, <2>2, <3>2
      <3> QED
        BY <1>4, <3>1, <3>3
    <2>4. ASSUME NEW n \in 0 .. N - 1, n \in T
          PROVE  n + 1 \in T
      <3>1. n + 1 \in 0 .. N /\ n + 1 # 0 /\ (n + 1) - 1 = n
        BY <1>4
      <3>2. PICK v : v = c[n]
        OBVIOUS
      <3>3. c[n + 1] = Forward(def, v) /\ Near(v, t, n)
        BY <2>1, <2>4, <3>1, <3>2
      <3>4. ASSUME is_temp(v), v.n \in DOMAIN def
            PROVE  Near(def[v.n], t, n + 1)
        <4>1. PICK u, w : u = v.n /\ w = def[u]
          OBVIOUS
        <4>2. u \in Int /\ u \in DOMAIN def /\ u <= t /\ r(u) <= N - 1 - n /\ w \in Values /\ (is_temp(w) => w.n < u)
          BY <1>1, <3>3, <3>4, <4>1 DEF Downward
        <4>3. w.n \in Int
          BY <4>2 DEF Values
        <4>4. is_temp(w) => w.n <= t
          BY <2>2, <4>2, <4>3
        <4>5. is_temp(w) /\ w.n \in DOMAIN def => r(w.n) <= N - 1 - (n + 1)
          <5>1. is_temp(w) /\ w.n \in DOMAIN def => r(w.n) < r(u) /\ r(w.n) \in Int
            BY <1>4, <4>2 DEF r
          <5>2. r(u) \in Int
            BY <1>4, <4>2 DEF r
          <5> QED
            BY <1>4, <4>2, <5>1, <5>2
        <4> QED
          BY <4>1, <4>2, <4>4, <4>5
      <3>5. Near(Forward(def, v), t, n + 1)
        <4>1. CASE is_temp(v) /\ v.n \in DOMAIN def
          BY <3>4, <4>1 DEF Forward
        <4>2. CASE ~(is_temp(v) /\ v.n \in DOMAIN def)
          BY <3>3, <4>2 DEF Forward
        <4> QED
          BY <4>1, <4>2
      <3> QED
        BY <3>1, <3>3, <3>5
    <2>5. N \in T
      <3> HIDE DEF T
      <3>1. \A n \in 0 .. N : n \in T
        BY <1>4, <2>3, <2>4, BoundedInduction
      <3> QED
        BY <1>4, <3>1
    <2>6. PICK v : v = c[N]
      OBVIOUS
    <2>7. Near(v, t, N)
      BY <2>5, <2>6
    <2>8. is_temp(v) => v.n \notin DOMAIN def
      <3> SUFFICES ASSUME is_temp(v), v.n \in DOMAIN def PROVE FALSE
        OBVIOUS
      <3>1. r(v.n) \in 0 .. N - 1
        BY <1>4 DEF r
      <3> QED
        BY <1>4, <2>7, <3>1
    <2>9. is_temp(v) => v.n < t
      <3>1. v.n \in Int
        BY <2>7 DEF Values
      <3> QED
        BY <2>2, <2>7, <2>8, <3>1
    <2> QED
      BY <2>6, <2>7, <2>8, <2>9 DEF c
  <1>6. Resolved(def) = [t \in DOMAIN def |-> Chase(def, t)[N]]
    BY DEF Resolved, N
  <1>7. DOMAIN Resolved(def) = DOMAIN def /\ \A t \in DOMAIN def : Resolved(def)[t] = Chase(def, t)[N]
    BY <1>6
  <1>8. Downward(Resolved(def))
    BY <1>3, <1>5, <1>7 DEF Downward
  <1> QED
    BY <1>5, <1>7, <1>8 DEF def

(* The temps an instruction mentions that takes the place of instruction i *)
(* of block k, or a value that is known there.                             *)
LowAt(f, k, i, v) == v \in Values /\ (is_temp(v) => Above(f, k, i, v.n))
Low(f, k, i, new) ==
  /\ \A u \in TempsIn(new) : Above(f, k, i, u)
  /\ f.blocks[k][i].op \in Forwarding => new.op \in Forwarding
Gains(f, k, i, new) == f.blocks[k][i].op \notin Forwarding /\ new.op \in Forwarding

LEMMA AboveMore ==
  ASSUME NEW f, Sound(f), NEW k, NEW i, Place(f, k, i), NEW t \in Int, Above(f, k, i, t)
  PROVE  /\ Above(f, k, i + 1, t)
         /\ \A u \in Int : u < t => Above(f, k, i, u)
  <1>1. /\ Len(f.blocks[k]) \in Nat /\ i \in Nat /\ i >= 1
        /\ \A j \in i .. Len(f.blocks[k]) : f.blocks[k][j].dst \in Int
    <2>1. Len(f.blocks[k]) \in Nat /\ i \in 1 .. Len(f.blocks[k]) /\ k \in 1 .. Len(f.blocks)
      BY TypedInstructions DEF Place, Laid
    <2>2. \A j \in i .. Len(f.blocks[k]) : Place(f, k, j)
      BY <2>1 DEF Place
    <2> QED
      BY <2>1, <2>2, TypedInstructions DEF TypedInstr
  <1> QED
    BY <1>1 DEF Above

LEMMA ArgsAreAList ==
  ASSUME NEW in, TypedInstr(in)
  PROVE  DOMAIN in.args = 1 .. Len(in.args) /\ in.args = [a \in 1 .. Len(in.args) |-> in.args[a]]
  <1>1. in.args \in Seq(Values)
    BY DEF TypedInstr
  <1> HIDE DEF Values
  <1> QED
    BY <1>1

LEMMA ForwardedArgs ==
  ASSUME NEW tv, NEW in, TypedInstr(in)
  PROVE  /\ Forwarded(tv, in).op = in.op
         /\ Forwarded(tv, in).args = [a \in 1 .. Len(in.args) |-> Forward(tv, in.args[a])]
         /\ Forwarded(tv, in).args = in.args => Forwarded(tv, in) = in
  <1> DEFINE n == Len(in.args)
             args == [a \in 1 .. n |-> Forward(tv, in.args[a])]
  <1>1. in \in [op : Ops, dst : Int, args : Seq(Values), slot : Int, callee : {in.callee}, bb_true : Int, bb_false : Int]
    BY DEF TypedInstr
  <1>2. DOMAIN in.args = 1 .. n /\ in.args = [a \in 1 .. n |-> in.args[a]]
    BY ArgsAreAList
  <1>3. Forwarded(tv, in) = [in EXCEPT !.args = args]
    BY <1>2 DEF Forwarded
  <1> HIDE DEF args
  <1>4. Forwarded(tv, in).op = in.op /\ Forwarded(tv, in).args = args /\ (args = in.args => Forwarded(tv, in) = in)
    BY <1>1, <1>3
  <1> QED
    BY <1>4 DEF args

LEMMA ForwardedOp ==
  ASSUME NEW tv, NEW in, TypedInstr(in)
  PROVE  Forwarded(tv, in).op = in.op
  BY ForwardedArgs

LEMMA ForwardedSame ==
  ASSUME NEW tv, NEW in, TypedInstr(in), \A a \in 1 .. Len(in.args) : Forward(tv, in.args[a]) = in.args[a]
  PROVE  Forwarded(tv, in) = in
  <1> DEFINE n == Len(in.args)
             fwd == Forwarded(tv, in)
  <1>1. fwd.args = [a \in 1 .. n |-> Forward(tv, in.args[a])] /\ (fwd.args = in.args => fwd = in)
    BY ForwardedArgs
  <1>2. in.args = [a \in 1 .. n |-> in.args[a]]
    BY ArgsAreAList
  <1> QED
    BY <1>1, <1>2, Zenon

LEMMA ForwardedLow ==
  ASSUME NEW f, Sound(f), Numbered(f), NEW tv, Downward(tv), NEW k, NEW i, Place(f, k, i)
  PROVE  /\ Low(f, k, i, Forwarded(tv, f.blocks[k][i])) /\ Forwarded(tv, f.blocks[k][i]).op = f.blocks[k][i].op
         /\ f.blocks[k][i].op = "store" => LowAt(f, k, i, Forwarded(tv, f.blocks[k][i]).args[1])
  <1> DEFINE in == f.blocks[k][i]
             fwd == Forwarded(tv, in)
             n == Len(in.args)
  <1>1. TypedInstr(in) /\ \A u \in TempsIn(in) : Above(f, k, i, u)
    BY TypedInstructions, NumberedIs
  <1> HIDE DEF in
  <1>2. /\ n \in Nat /\ DOMAIN in.args = 1 .. n
        /\ \A a \in 1 .. n : in.args[a] \in Values /\ (is_temp(in.args[a]) => in.args[a].n \in TempsIn(in))
    BY <1>1, OperandIs
  <1>3. fwd.args = [a \in 1 .. n |-> Forward(tv, in.args[a])] /\ fwd.op = in.op
    BY <1>1, ForwardedArgs
  <1>4. ASSUME NEW a \in 1 .. n
        PROVE  LowAt(f, k, i, Forward(tv, in.args[a]))
    <2>1. PICK v : v = in.args[a]
      OBVIOUS
    <2>2. v \in Values /\ v.n \in Int /\ (is_temp(v) => Above(f, k, i, v.n))
      BY <1>1, <1>2, <2>1 DEF Values
    <2>3. CASE is_temp(v) /\ v.n \in DOMAIN tv
      <3>1. PICK w : w = tv[v.n]
        OBVIOUS
      <3>2. w \in Values /\ w.n \in Int /\ (is_temp(w) => w.n < v.n)
        BY <2>3, <3>1 DEF Downward, Values
      <3>3. Forward(tv, v) = w
        BY <2>3, <3>1 DEF Forward
      <3>4. is_temp(w) => Above(f, k, i, w.n)
        BY <2>2, <2>3, <3>2, AboveMore
      <3> QED
        BY <2>1, <3>2, <3>3, <3>4 DEF LowAt
    <2>4. CASE ~(is_temp(v) /\ v.n \in DOMAIN tv)
      BY <2>1, <2>2, <2>4 DEF Forward, LowAt
    <2> QED
      BY <2>3, <2>4
  <1> HIDE DEF fwd
  <1>5. \A u \in TempsIn(fwd) : Above(f, k, i, u)
    <2> SUFFICES ASSUME NEW u \in TempsIn(fwd) PROVE Above(f, k, i, u)
      OBVIOUS
    <2>1. PICK a \in DOMAIN fwd.args : is_temp(fwd.args[a]) /\ u = fwd.args[a].n
      BY DEF TempsIn
    <2> HIDE DEF n
    <2>2. a \in 1 .. n /\ fwd.args[a] = Forward(tv, in.args[a])
      BY <1>3
    <2> QED
      BY <1>4, <2>1, <2>2 DEF LowAt
  <1>6. in.op = "store" => LowAt(f, k, i, fwd.args[1])
    <2>1. in.op = "store" => 1 \in 1 .. n
      <3>1. in.op = "store" => n = 1
        BY <1>1, Zenon DEF TypedInstr
      <3>2. 1 \in 1 .. 1
        OBVIOUS
      <3> QED
        BY <3>1, <3>2, Zenon
    <2> HIDE DEF n
    <2>2. in.op = "store" => fwd.args[1] = Forward(tv, in.args[1])
      BY <1>3, <2>1
    <2> QED
      BY <1>4, <2>1, <2>2
  <1> QED
    BY <1>3, <1>5, <1>6 DEF Low, in, fwd

LEMMA SlottedLow ==
  ASSUME NEW f, Sound(f), NEW v, NEW k, NEW i, Place(f, k, i), LowAt(f, k, i, v), f.blocks[k][i].op = "load"
  PROVE  /\ Low(f, k, i, Slotted(v, f.blocks[k][i])) /\ Gains(f, k, i, Slotted(v, f.blocks[k][i]))
         /\ f.blocks[k][i].dst \in Int /\ (is_temp(v) => v.n < f.blocks[k][i].dst)
  <1> DEFINE in == f.blocks[k][i]
  <1>1. TypedInstr(in) /\ in.dst # -1 /\ in.dst \in Int
    BY TypedInstructions DEF TypedInstr
  <1>2. in.dst >= 0
    BY <1>1, ResultIs
  <1>3. v \in Values /\ v.n \in Int /\ (is_temp(v) => v.n < in.dst)
    <2>1. i \in i .. Len(f.blocks[k])
      BY TypedInstructions DEF Place, Laid
    <2> QED
      BY <1>1, <2>1 DEF LowAt, Above, Values
  <1>4. make_const(in, v.n).op = "const" /\ make_copy(in, v).op = "copy" /\ TempsIn(make_const(in, v.n)) = {}
    <2> HIDE DEF in
    <2>1. make_const(in, v.n).op = "const" /\ TempsIn(make_const(in, v.n)) = {}
      BY <1>1, <1>2, <1>3, MakeConst
    <2>2. make_copy(in, v).op = "copy"
      BY InsIs DEF make_copy
    <2> QED
      BY <2>1, <2>2
  <1>5. \A u \in TempsIn(make_copy(in, v)) : is_temp(v) /\ u = v.n
    BY InsIs DEF make_copy, TempsIn
  <1> HIDE DEF in
  <1>6. Slotted(v, in) = make_const(in, v.n) \/ Slotted(v, in) = make_copy(in, v)
    BY DEF Slotted
  <1>7. Slotted(v, in).op \in Forwarding /\ \A u \in TempsIn(Slotted(v, in)) : is_temp(v) /\ u = v.n
    BY <1>4, <1>5, <1>6 DEF Forwarding
  <1>8. in.op \notin Forwarding
    BY DEF in, Forwarding
  <1> QED
    BY <1>1, <1>3, <1>7, <1>8 DEF Low, Gains, LowAt, in

(* After i instructions of block k: either one of them has become const or *)
(* copy, or all the walk did was to forward by what it started with.       *)
WalkedDown(f, k, tv, i, st) ==
  /\ Downward(st.tv)
  /\ \A s \in DOMAIN st.slots : LowAt(f, k, i + 1, st.slots[s])
  /\ st.code = [j \in 1 .. i |-> st.code[j]]
  /\ \A j \in 1 .. i : Low(f, k, j, st.code[j])
  /\ \/ \E j \in 1 .. i : Gains(f, k, j, st.code[j])
     \/ st.tv = tv /\ \A j \in 1 .. i : st.code[j] = Forwarded(tv, f.blocks[k][j])

LEMMA WalkStepDown ==
  ASSUME NEW f, Sound(f), Numbered(f), NEW k \in 1 .. Len(f.blocks), NEW tv, NEW i \in 0 .. Len(f.blocks[k]) - 1,
         NEW st, WalkedDown(f, k, tv, i, st)
  PROVE  WalkedDown(f, k, tv, i + 1, PropInstr(st, f.blocks[k][i + 1]))
  <1> DEFINE in == f.blocks[k][i + 1]
             next == PropInstr(st, in)
             fwd == Forwarded(st.tv, in)
             v == st.slots[in.slot]
             new == IF Known(st, in) THEN Slotted(v, in) ELSE fwd
  <1>1. Place(f, k, i + 1) /\ i \in Nat /\ i + 1 \in Nat
    BY TypedInstructions DEF Place, Laid
  <1>2. /\ Downward(st.tv)
        /\ \A s \in DOMAIN st.slots : LowAt(f, k, i + 1, st.slots[s])
        /\ st.code = [j \in 1 .. i |-> st.code[j]]
        /\ \A j \in 1 .. i : Low(f, k, j, st.code[j])
        /\ \/ \E j \in 1 .. i : Gains(f, k, j, st.code[j])
           \/ st.tv = tv /\ \A j \in 1 .. i : st.code[j] = Forwarded(tv, f.blocks[k][j])
    BY DEF WalkedDown
  <1>3. Known(st, in) => /\ Low(f, k, i + 1, Slotted(v, in)) /\ Gains(f, k, i + 1, Slotted(v, in))
                         /\ in.dst \in Int /\ v \in Values /\ (is_temp(v) => v.n < in.dst)
    <2>1. Known(st, in) => in.op = "load" /\ LowAt(f, k, i + 1, v)
      BY <1>2 DEF Known
    <2> QED
      BY <1>1, <2>1, SlottedLow DEF LowAt
  <1>4. Low(f, k, i + 1, fwd) /\ (in.op = "store" => LowAt(f, k, i + 1, fwd.args[1]))
    BY <1>1, <1>2, ForwardedLow
  <1>5. in.op = "load" => LowAt(f, k, (i + 1) + 1, Temp(in.dst))
    <2>1. in.op = "load" => in.dst # -1 /\ in.dst \in Int
      BY <1>1, TypedInstructions DEF TypedInstr
    <2>2. in.dst # -1 => Above(f, k, (i + 1) + 1, in.dst)
      BY <1>1, NumberedIs
    <2> HIDE DEF in
    <2> QED
      BY <2>1, <2>2 DEF LowAt, Temp, Values
  <1>6. /\ next.tv = IF Known(st, in) THEN With(st.tv, in.dst, v) ELSE st.tv
        /\ in.op = "store" => next.slots = With(st.slots, in.slot, fwd.args[1])
        /\ in.op = "load" /\ ~Known(st, in) => next.slots = With(st.slots, in.slot, Temp(in.dst))
        /\ in.op # "store" /\ (in.op # "load" \/ Known(st, in)) => next.slots = st.slots
        /\ next.code = Append(st.code, new)
    <2> HIDE DEF in
    <2> QED
      BY PropInstrIs
  <1>7. \A w : LowAt(f, k, i + 1, w) => LowAt(f, k, (i + 1) + 1, w)
    <2> SUFFICES ASSUME NEW w \in Values, is_temp(w), Above(f, k, i + 1, w.n)
                 PROVE  Above(f, k, (i + 1) + 1, w.n)
      BY DEF LowAt
    <2>1. w.n \in Int
      BY DEF Values
    <2> QED
      BY <1>1, <2>1, AboveMore
  <1> HIDE DEF next, fwd, in, v
  <1>8. Downward(next.tv)
    <2>1. CASE Known(st, in)
      <3> SUFFICES ASSUME NEW t \in DOMAIN next.tv
                   PROVE  t \in Int /\ next.tv[t] \in Values /\ (is_temp(next.tv[t]) => next.tv[t].n < t)
        BY Zenon DEF Downward
      <3>1. next.tv = With(st.tv, in.dst, v)
        BY <1>6, <2>1
      <3>2. \/ t = in.dst /\ next.tv[t] = v
            \/ t \in DOMAIN st.tv /\ next.tv[t] = st.tv[t]
        BY <3>1, WithProperties
      <3> QED
        BY <1>2, <1>3, <2>1, <3>2 DEF Downward
    <2>2. CASE ~Known(st, in)
      BY <1>2, <1>6, <2>2
    <2> QED
      BY <2>1, <2>2
  <1>9. ASSUME NEW s \in DOMAIN next.slots
        PROVE  LowAt(f, k, (i + 1) + 1, next.slots[s])
    <2>1. ASSUME s \in DOMAIN st.slots, next.slots[s] = st.slots[s]
          PROVE  LowAt(f, k, (i + 1) + 1, next.slots[s])
      BY <1>2, <1>7, <2>1
    <2>2. CASE in.op = "store"
      <3>1. next.slots = With(st.slots, in.slot, fwd.args[1])
        BY <1>6, <2>2
      <3>2. \/ s = in.slot /\ next.slots[s] = fwd.args[1]
            \/ s \in DOMAIN st.slots /\ next.slots[s] = st.slots[s]
        BY <3>1, WithProperties
      <3> QED
        BY <1>4, <1>7, <2>1, <2>2, <3>2
    <2>3. CASE in.op = "load" /\ ~Known(st, in)
      <3>1. next.slots = With(st.slots, in.slot, Temp(in.dst))
        BY <1>6, <2>3
      <3>2. \/ s = in.slot /\ next.slots[s] = Temp(in.dst)
            \/ s \in DOMAIN st.slots /\ next.slots[s] = st.slots[s]
        BY <3>1, WithProperties
      <3> QED
        BY <1>5, <2>1, <2>3, <3>2
    <2>4. CASE in.op # "store" /\ (in.op # "load" \/ Known(st, in))
      BY <1>6, <2>1, <2>4
    <2> QED
      BY <2>2, <2>3, <2>4
  <1>10. /\ next.code = [j \in 1 .. i + 1 |-> next.code[j]]
         /\ \A j \in 1 .. i : next.code[j] = st.code[j]
         /\ next.code[i + 1] = new
    <2> HIDE DEF new
    <2> QED
      BY <1>1, <1>2, <1>6, Appended
  <1>11. Low(f, k, i + 1, new)
    BY <1>3, <1>4
  <1>12. \/ Gains(f, k, i + 1, new)
         \/ next.tv = st.tv /\ new = Forwarded(st.tv, in)
    BY <1>3, <1>6 DEF fwd
  <1> HIDE DEF new
  <1>13. \A j \in 1 .. i + 1 : j \in 1 .. i \/ j = i + 1
    BY <1>1
  <1>14. i + 1 \in 1 .. i + 1 /\ \A j \in 1 .. i : j \in 1 .. i + 1
    BY <1>1
  <1>15. \A j \in 1 .. i + 1 : Low(f, k, j, next.code[j])
    BY <1>2, <1>10, <1>11, <1>13, Zenon
  <1>16. \/ \E j \in 1 .. i + 1 : Gains(f, k, j, next.code[j])
         \/ next.tv = tv /\ \A j \in 1 .. i + 1 : next.code[j] = Forwarded(tv, f.blocks[k][j])
    <2>1. CASE \E j \in 1 .. i : Gains(f, k, j, st.code[j])
      BY <1>10, <1>14, <2>1, Zenon
    <2>2. CASE Gains(f, k, i + 1, new)
      BY <1>10, <1>14, <2>2, Zenon
    <2>3. CASE /\ st.tv = tv /\ \A j \in 1 .. i : st.code[j] = Forwarded(tv, f.blocks[k][j])
               /\ next.tv = st.tv /\ new = Forwarded(st.tv, in)
      BY <1>10, <1>13, <2>3, Zenon DEF in
    <2> QED
      BY <1>2, <1>12, <2>1, <2>2, <2>3, Zenon
  <1> QED
    BY <1>8, <1>9, <1>10, <1>15, <1>16 DEF WalkedDown, next, in

LEMMA WalkAllDown ==
  ASSUME NEW f, Sound(f), Numbered(f), NEW k \in 1 .. Len(f.blocks), NEW acc, Downward(acc.tv)
  PROVE  WalkedDown(f, k, acc.tv, Len(f.blocks[k]), Walk(acc, f.blocks[k])[Len(f.blocks[k])])
  <1> DEFINE N == Len(f.blocks[k])
             w == Walk(acc, f.blocks[k])
             T == { i \in 0 .. N : WalkedDown(f, k, acc.tv, i, w[i]) }
  <1>1. N \in Nat
    BY TypedIsLaid DEF Sound, Laid
  <1>2. w = [n \in 0 .. N |->
               IF n = 0 THEN [tv |-> acc.tv, slots |-> <<>>, changed |-> acc.changed, code |-> <<>>]
               ELSE PropInstr(w[n - 1], f.blocks[k][n])]
    BY <1>1, WalkDef
  <1> HIDE DEF w
  <1>3. 0 \in T
    <2>1. w[0] = [tv |-> acc.tv, slots |-> <<>>, changed |-> acc.changed, code |-> <<>>]
      BY <1>1, <1>2
    <2>2. w[0].tv = acc.tv /\ w[0].slots = <<>> /\ w[0].code = <<>>
      BY <2>1
    <2>3. DOMAIN w[0].slots = {} /\ w[0].code = [j \in 1 .. 0 |-> w[0].code[j]]
      BY <2>2
    <2>4. WalkedDown(f, k, acc.tv, 0, w[0])
      BY <2>2, <2>3 DEF WalkedDown
    <2> QED
      BY <1>1, <2>4
  <1>4. ASSUME NEW i \in 0 .. N - 1, i \in T
        PROVE  i + 1 \in T
    <2>1. i + 1 \in 0 .. N /\ i + 1 # 0 /\ (i + 1) - 1 = i
      BY <1>1
    <2>2. w[i + 1] = PropInstr(w[i], f.blocks[k][i + 1])
      BY <1>2, <2>1
    <2>3. WalkedDown(f, k, acc.tv, i + 1, w[i + 1])
      BY <1>4, <2>2, WalkStepDown
    <2> QED
      BY <2>1, <2>3
  <1>5. \A i \in 0 .. N : i \in T
    <2> HIDE DEF T, N
    <2> QED
      BY <1>1, <1>3, <1>4, BoundedInduction
  <1> QED
    BY <1>1, <1>5 DEF w

(* After k blocks.                                                         *)
BlocksDown(f, k, acc) ==
  /\ Downward(acc.tv)
  /\ acc.blocks = [j \in 1 .. k |-> acc.blocks[j]]
  /\ \A j \in 1 .. k : \A i \in 1 .. Len(f.blocks[j]) : Low(f, j, i, acc.blocks[j][i])
  /\ \/ \E j \in 1 .. k : \E i \in 1 .. Len(f.blocks[j]) : Gains(f, j, i, acc.blocks[j][i])
     \/ /\ acc.tv = Resolved(DefMap(f))
        /\ \A j \in 1 .. k : \A i \in 1 .. Len(f.blocks[j]) :
             acc.blocks[j][i] = Forwarded(Resolved(DefMap(f)), f.blocks[j][i])

LEMMA PropBlockDown ==
  ASSUME NEW f, Sound(f), Numbered(f), NEW k \in 0 .. Len(f.blocks) - 1, NEW acc, BlocksDown(f, k, acc)
  PROVE  BlocksDown(f, k + 1, PropBlock(acc, f.blocks[k + 1]))
  <1> DEFINE next == PropBlock(acc, f.blocks[k + 1])
             N == Len(f.blocks[k + 1])
             st == Walk(acc, f.blocks[k + 1])[N]
             tv == Resolved(DefMap(f))
             Only(j, s) == \A i \in 1 .. Len(f.blocks[j]) : s[i] = Forwarded(tv, f.blocks[j][i])
             Some(j, s) == \E i \in 1 .. Len(f.blocks[j]) : Gains(f, j, i, s[i])
             Every(j, s) == \A i \in 1 .. Len(f.blocks[j]) : Low(f, j, i, s[i])
  <1>1. Len(f.blocks) \in Nat /\ k \in Nat /\ k + 1 \in 1 .. Len(f.blocks)
    BY TypedIsLaid DEF Sound, Laid
  <1>2. WalkedDown(f, k + 1, acc.tv, N, st)
    BY <1>1, WalkAllDown DEF BlocksDown
  <1>3. next.tv = st.tv /\ next.blocks = Append(acc.blocks, st.code)
    BY DEF PropBlock
  <1> HIDE DEF next, st, tv
  <1>4. /\ Downward(st.tv) /\ Every(k + 1, st.code)
        /\ Some(k + 1, st.code) \/ st.tv = acc.tv
        /\ acc.tv = tv => Some(k + 1, st.code) \/ Only(k + 1, st.code)
    BY <1>2 DEF WalkedDown
  <1>5. /\ acc.blocks = [j \in 1 .. k |-> acc.blocks[j]]
        /\ \A j \in 1 .. k : Every(j, acc.blocks[j])
        /\ \/ \E j \in 1 .. k : Some(j, acc.blocks[j])
           \/ acc.tv = tv /\ \A j \in 1 .. k : Only(j, acc.blocks[j])
    BY DEF BlocksDown, tv
  <1> HIDE DEF Only, Some, Every
  <1>6. /\ next.blocks = [j \in 1 .. k + 1 |-> next.blocks[j]]
        /\ \A j \in 1 .. k : next.blocks[j] = acc.blocks[j]
        /\ next.blocks[k + 1] = st.code
    BY <1>1, <1>3, <1>5, Appended
  <1>7. /\ \A j \in 1 .. k + 1 : j \in 1 .. k \/ j = k + 1
        /\ \A j \in 1 .. k : j \in 1 .. k + 1
        /\ k + 1 \in 1 .. k + 1
    BY <1>1
  <1>8. \A j \in 1 .. k + 1 : Every(j, next.blocks[j])
    BY <1>4, <1>5, <1>6, <1>7, Zenon
  <1>9. \/ \E j \in 1 .. k + 1 : Some(j, next.blocks[j])
        \/ next.tv = tv /\ \A j \in 1 .. k + 1 : Only(j, next.blocks[j])
    <2>1. CASE \E j \in 1 .. k : Some(j, acc.blocks[j])
      BY <1>6, <1>7, <2>1, Zenon
    <2>2. CASE Some(k + 1, st.code)
      BY <1>6, <1>7, <2>2, Zenon
    <2>3. CASE /\ acc.tv = tv /\ \A j \in 1 .. k : Only(j, acc.blocks[j])
               /\ st.tv = acc.tv /\ Only(k + 1, st.code)
      BY <1>3, <1>6, <1>7, <2>3, Zenon
    <2> QED
      BY <1>4, <1>5, <2>1, <2>2, <2>3, Zenon
  <1>10. Downward(next.tv)
    BY <1>3, <1>4
  <1> QED
    BY <1>6, <1>8, <1>9, <1>10 DEF BlocksDown, Every, Some, Only, tv, next

LEMMA PropagatedDown ==
  ASSUME NEW f, Sound(f), Numbered(f)
  PROVE  BlocksDown(f, Len(f.blocks), WalkBlocks(f)[Len(f.blocks)])
  <1> DEFINE N == Len(f.blocks)
             w == WalkBlocks(f)
             T == { k \in 0 .. N : BlocksDown(f, k, w[k]) }
  <1>1. N \in Nat
    BY TypedIsLaid DEF Sound, Laid
  <1>2. w = [n \in 0 .. N |->
               IF n = 0 THEN [tv |-> Resolved(DefMap(f)), changed |-> FALSE, blocks |-> <<>>]
               ELSE PropBlock(w[n - 1], f.blocks[n])]
    BY <1>1, WalkBlocksDef
  <1> HIDE DEF w
  <1>3. 0 \in T
    <2>1. w[0] = [tv |-> Resolved(DefMap(f)), changed |-> FALSE, blocks |-> <<>>]
      BY <1>1, <1>2
    <2>2. w[0].tv = Resolved(DefMap(f)) /\ w[0].blocks = <<>>
      BY <2>1
    <2>3. w[0].blocks = [j \in 1 .. 0 |-> w[0].blocks[j]]
      BY <2>2
    <2>4. Downward(w[0].tv)
      BY <2>2, ChaseEnds
    <2>5. BlocksDown(f, 0, w[0])
      BY <2>2, <2>3, <2>4 DEF BlocksDown
    <2> QED
      BY <1>1, <2>5
  <1>4. ASSUME NEW k \in 0 .. N - 1, k \in T
        PROVE  k + 1 \in T
    <2>1. k + 1 \in 0 .. N /\ k + 1 # 0 /\ (k + 1) - 1 = k
      BY <1>1
    <2>2. w[k + 1] = PropBlock(w[k], f.blocks[k + 1])
      BY <1>2, <2>1
    <2>3. BlocksDown(f, k + 1, w[k + 1])
      BY <1>4, <2>2, PropBlockDown
    <2> QED
      BY <2>1, <2>3
  <1>5. \A k \in 0 .. N : k \in T
    <2> HIDE DEF T, N
    <2> QED
      BY <1>1, <1>3, <1>4, BoundedInduction
  <1> QED
    BY <1>1, <1>5 DEF w

(* The operands of f that name what a const or copy stands for.            *)
Forwards(f) ==
  UNION { { <<p, i>> : i \in { j \in DOMAIN At(f, p).args : At(f, p).args[j] # Forward(DefMap(f), At(f, p).args[j]) } } :
            p \in Positions(f) }

LEMMA ForwardsFinite ==
  ASSUME NEW f, Sound(f)
  PROVE  IsFiniteSet(Forwards(f)) /\ Forwardable(f) = Cardinality(Forwards(f)) /\ Forwardable(f) \in Nat
  <1> DEFINE Idx(p) == { j \in DOMAIN At(f, p).args : At(f, p).args[j] # Forward(DefMap(f), At(f, p).args[j]) }
             Here(p) == { <<p, i>> : i \in Idx(p) }
             S == { Here(p) : p \in Positions(f) }
  <1>1. ASSUME NEW p \in Positions(f)
        PROVE  IsFiniteSet(Here(p))
    <2>1. TypedInstr(At(f, p))
      <3>1. Place(f, p[1] + 1, p[2]) /\ At(f, p) = f.blocks[p[1] + 1][p[2]]
        BY TypedInstructions, PositionProperties DEF Place
      <3> QED
        BY <3>1, TypedInstructions
    <2>2. Len(At(f, p).args) \in Int /\ Idx(p) \subseteq 1 .. Len(At(f, p).args)
      BY <2>1, OperandIs
    <2> HIDE DEF Idx
    <2>3. IsFiniteSet(Idx(p))
      <3>1. IsFiniteSet(1 .. Len(At(f, p).args))
        BY <2>2, FS_Interval
      <3> QED
        BY <2>2, <3>1, FS_Subset
    <2>4. [i \in Idx(p) |-> <<p, i>>] \in Surjection(Idx(p), Here(p))
      BY DEF Surjection
    <2> QED
      BY <2>3, <2>4, FS_Surjection
  <1>2. Forwards(f) = UNION S
    BY DEF Forwards
  <1>3. Forwardable(f) = Cardinality(Forwards(f))
    BY DEF Forwardable, Forwards
  <1> HIDE DEF Here
  <1>4. IsFiniteSet(S)
    <2>1. IsFiniteSet(Positions(f))
      BY FiniteFunction
    <2>2. [p \in Positions(f) |-> Here(p)] \in Surjection(Positions(f), S)
      BY DEF Surjection
    <2> QED
      BY <2>1, <2>2, FS_Surjection
  <1>5. IsFiniteSet(Forwards(f))
    BY <1>1, <1>2, <1>4, FS_UNION
  <1> QED
    BY <1>3, <1>5, FS_CardinalityType

(* When all that propagation does is to forward, nothing is left to        *)
(* forward.                                                                *)
LEMMA NothingToForward ==
  ASSUME NEW f, Sound(f), Numbered(f), NEW blocks, NEW g, Sound(g), ReplacedBy(f, g, blocks),
         \A k, i : Place(f, k, i) => blocks[k][i] = Forwarded(Resolved(DefMap(f)), f.blocks[k][i])
  PROVE  Forwards(g) = {}
  <1> DEFINE tv == Resolved(DefMap(f))
  <1>1. /\ \A k, i : Place(g, k, i) <=> Place(f, k, i)
        /\ g.blocks = blocks
    BY ReplacedPlaces
  <1>2. \A k, i : Place(f, k, i) => blocks[k][i].dst = f.blocks[k][i].dst
    BY Zenon DEF ReplacedBy, ReplacedIn, Replaces, Place
  <1>3. /\ DOMAIN tv = DOMAIN DefMap(f)
        /\ \A t \in DOMAIN DefMap(f) : is_temp(tv[t]) => tv[t].n \notin DOMAIN DefMap(f)
    BY ChaseEnds
  <1> HIDE DEF tv
  <1>4. DOMAIN DefMap(g) \subseteq DOMAIN DefMap(f)
    <2> SUFFICES ASSUME NEW t \in DOMAIN DefMap(g) PROVE t \in DOMAIN DefMap(f)
      OBVIOUS
    <2>1. PICK k, i : Place(g, k, i) /\ g.blocks[k][i].op \in Forwarding /\ g.blocks[k][i].dst = t /\ t >= 0
      BY DefMapIs
    <2>2. Place(f, k, i) /\ TypedInstr(f.blocks[k][i]) /\ f.blocks[k][i] \in InstrsOf(f)
      BY <1>1, <2>1, TypedInstructions
    <2>3. blocks[k][i].op = f.blocks[k][i].op
      <3>1. blocks[k][i] = Forwarded(tv, f.blocks[k][i])
        BY <2>2, Zenon DEF tv
      <3>2. ASSUME NEW in, TypedInstr(in)
            PROVE  Forwarded(tv, in).op = in.op
        BY <3>2, ForwardedOp, Zenon
      <3>3. Forwarded(tv, f.blocks[k][i]).op = f.blocks[k][i].op
        BY <2>2, <3>2, Zenon
      <3> QED
        BY <3>1, <3>3, Zenon
    <2>4. f.blocks[k][i].op \in Forwarding /\ f.blocks[k][i].dst = t
      BY <1>1, <1>2, <2>1, <2>2, <2>3
    <2>5. f.blocks[k][i] \in CopyDefs(f)
      BY <2>1, <2>2, <2>4 DEF CopyDefs, Forwarding
    <2> QED
      BY <2>4, <2>5 DEF DefMap
  <1>5. ASSUME NEW p \in Positions(g), NEW j \in DOMAIN At(g, p).args
        PROVE  Forward(DefMap(g), At(g, p).args[j]) = At(g, p).args[j]
    <2>1. PICK k, i : Place(f, k, i) /\ At(g, p) = blocks[k][i]
      <3>1. Place(g, p[1] + 1, p[2]) /\ At(g, p) = g.blocks[p[1] + 1][p[2]]
        BY TypedInstructions, PositionProperties DEF Place
      <3> QED
        BY <1>1, <3>1
    <2>2. PICK in : in = f.blocks[k][i]
      OBVIOUS
    <2>3. TypedInstr(in) /\ At(g, p) = Forwarded(tv, in)
      BY <2>1, <2>2, TypedInstructions DEF tv
    <2>4. At(g, p).args = [a \in 1 .. Len(in.args) |-> Forward(tv, in.args[a])]
      BY <2>3, ForwardedArgs
    <2>5. PICK u, v : u = in.args[j] /\ v = At(g, p).args[j]
      OBVIOUS
    <2>6. v = Forward(tv, u)
      BY <2>4, <2>5
    <2>7. is_temp(v) => v.n \notin DOMAIN DefMap(f)
      BY <1>3, <2>6 DEF Forward
    <2> QED
      BY <1>4, <2>5, <2>7 DEF Forward
  <1> QED
    BY <1>5 DEF Forwards

LEMMA SomethingToForward ==
  ASSUME NEW f, Sound(f), Numbered(f), NEW blocks, Differ(f, blocks),
         \A k, i : Place(f, k, i) => blocks[k][i] = Forwarded(Resolved(DefMap(f)), f.blocks[k][i])
  PROVE  Forwards(f) # {}
  <1> DEFINE tv == Resolved(DefMap(f))
  <1>1. PICK k, i : Place(f, k, i) /\ blocks[k][i] # f.blocks[k][i]
    BY DEF Differ
  <1>2. PICK in, p : in = f.blocks[k][i] /\ p = <<k - 1, i>>
    OBVIOUS
  <1>3. TypedInstr(in) /\ p \in Positions(f) /\ At(f, p) = in
    BY <1>1, <1>2, TypedInstructions, PositionProperties DEF Place
  <1>4. DOMAIN tv = DOMAIN DefMap(f) /\ Downward(DefMap(f))
    BY ChaseEnds, DefMapDown
  <1>5. Forwarded(tv, in) # in
    BY <1>1, <1>2
  <1> HIDE DEF tv
  <1>6. PICK a \in 1 .. Len(in.args) : Forward(tv, in.args[a]) # in.args[a]
    BY <1>3, <1>5, ForwardedSame, Zenon
  <1>7. PICK u : u = in.args[a]
    OBVIOUS
  <1>8. is_temp(u) /\ u.n \in DOMAIN DefMap(f)
    BY <1>4, <1>6, <1>7 DEF Forward
  <1>9. Forward(DefMap(f), u) # u
    <2>1. PICK v : v = DefMap(f)[u.n]
      OBVIOUS
    <2>2. u.n \in Int /\ (is_temp(v) => v.n < u.n)
      BY <1>4, <1>8, <2>1 DEF Downward
    <2>3. v # u
      BY <1>8, <2>2
    <2> QED
      BY <1>8, <2>1, <2>3 DEF Forward
  <1>10. a \in DOMAIN in.args
    BY <1>3, OperandIs
  <1>11. <<p, a>> \in Forwards(f)
    <2>1. a \in { j \in DOMAIN At(f, p).args : At(f, p).args[j] # Forward(DefMap(f), At(f, p).args[j]) }
      BY <1>3, <1>7, <1>9, <1>10
    <2> QED
      BY <1>3, <2>1 DEF Forwards
  <1> QED
    BY <1>11

LEMMA ConstpropProgress ==
  ASSUME NEW f, Sound(f), Numbered(f)
  PROVE  Numbered(constprop(f).f) /\ (constprop(f).f # f => Smaller(f, constprop(f).f))
  <1> DEFINE N == Len(f.blocks)
  <1>1. PICK acc, blocks, g : acc = WalkBlocks(f)[N] /\ blocks = acc.blocks /\ g = constprop(f).f
    OBVIOUS
  <1>2. ReplacedIn(f, blocks) /\ g = [f EXCEPT !.blocks = blocks]
    BY <1>1, ConstpropIs
  <1>3. Sound(g) /\ ReplacedBy(f, g, blocks)
    BY <1>1, <1>2, ConstpropKeeps DEF ReplacedBy
  <1>4. g # f <=> Differ(f, blocks)
    BY <1>2, SameBlocks
  <1>5. BlocksDown(f, N, acc)
    BY <1>1, PropagatedDown
  <1>6. \A k, i : Place(f, k, i) => Low(f, k, i, blocks[k][i])
    BY <1>1, <1>5, Zenon DEF BlocksDown, Place
  <1>7. \/ \E k, i : Place(f, k, i) /\ Gains(f, k, i, blocks[k][i])
        \/ \A k, i : Place(f, k, i) => blocks[k][i] = Forwarded(Resolved(DefMap(f)), f.blocks[k][i])
    BY <1>1, <1>5, Zenon DEF BlocksDown, Place
  <1>8. Numbered(g)
    BY <1>3, <1>6, ReplacedNumbered DEF Low
  <1>9. /\ ir_instr_count(g) = ir_instr_count(f) /\ ir_instr_count(f) \in Nat
        /\ Plain(g) \subseteq Plain(f)
        /\ Size(f) = ir_instr_count(f) + Cardinality(Plain(f)) /\ Size(g) = ir_instr_count(f) + Cardinality(Plain(g))
        /\ (\E k, i : Place(f, k, i) /\ f.blocks[k][i].op \notin Forwarding /\ blocks[k][i].op \in Forwarding)
             => Size(g) < Size(f)
    <2>1. \A k, i : Place(f, k, i) /\ f.blocks[k][i].op \in Forwarding => blocks[k][i].op \in Forwarding
      BY <1>6 DEF Low
    <2> QED
      BY <1>3, <2>1, LessIsPlain
  <1>10. ASSUME NEW k, NEW i, Place(f, k, i), Gains(f, k, i, blocks[k][i])
         PROVE  Smaller(f, g)
    BY <1>9, <1>10 DEF Smaller, Gains
  <1>11. ASSUME \A k, i : Place(f, k, i) => blocks[k][i] = Forwarded(Resolved(DefMap(f)), f.blocks[k][i]), g # f
         PROVE  Smaller(f, g)
    <2>1. Size(g) = Size(f)
      <3>1. /\ Positions(g) = Positions(f)
            /\ \A p \in Positions(f) : /\ Place(f, p[1] + 1, p[2])
                                       /\ At(f, p) = f.blocks[p[1] + 1][p[2]] /\ At(g, p) = blocks[p[1] + 1][p[2]]
        BY <1>3, ReplacedPlaces
      <3>2. ASSUME NEW k, NEW i, Place(f, k, i)
            PROVE  blocks[k][i].op = f.blocks[k][i].op
        <4> DEFINE tv == Resolved(DefMap(f))
        <4>1. blocks[k][i] = Forwarded(tv, f.blocks[k][i])
          BY <1>11, <3>2, Zenon
        <4>2. TypedInstr(f.blocks[k][i])
          BY <3>2, TypedInstructions
        <4> HIDE DEF tv
        <4>3. ASSUME NEW in, TypedInstr(in)
              PROVE  Forwarded(tv, in).op = in.op
          BY <4>3, ForwardedOp, Zenon
        <4>4. Forwarded(tv, f.blocks[k][i]).op = f.blocks[k][i].op
          BY <4>2, <4>3, Zenon
        <4> QED
          BY <4>1, <4>4, Zenon
      <3>3. Plain(g) = Plain(f)
        BY <3>1, <3>2 DEF Plain
      <3> QED
        BY <1>9, <3>3
    <2>2. Forwards(g) = {} /\ Forwards(f) # {}
      BY <1>3, <1>4, <1>11, NothingToForward, SomethingToForward
    <2>3. /\ Forwardable(g) = 0 /\ Forwardable(f) \in Nat /\ Forwardable(f) # 0
      BY <1>3, <2>2, ForwardsFinite, FS_EmptySet
    <2> QED
      BY <1>9, <2>1, <2>3 DEF Smaller
  <1> QED
    BY <1>1, <1>7, <1>8, <1>10, <1>11

-----------------------------------------------------------------------------
(* The pipeline.                                                           *)
LEMMA EveryPassProgresses ==
  ASSUME NEW f, Sound(f), Numbered(f), NEW p \in {"constfold", "algebraic", "constprop", "dce"}
  PROVE  Numbered(run_pass(p, f).f) /\ (run_pass(p, f).f # f => Smaller(f, run_pass(p, f).f))
  <1>1. CASE p = "constfold"
    BY <1>1, ConstfoldProgress DEF run_pass
  <1>2. CASE p = "algebraic"
    BY <1>2, AlgebraicProgress DEF run_pass
  <1>3. CASE p = "constprop"
    BY <1>3, ConstpropProgress DEF run_pass
  <1>4. CASE p = "dce"
    BY <1>4, DceProgress DEF run_pass
  <1> QED
    BY <1>1, <1>2, <1>3, <1>4

(* The inductive invariant: besides each function being Sound, its results *)
(* are numbered in their order.                                            *)
AllNumbered == \A i \in DOMAIN mod : Numbered(mod[i])

Progress ==
  mod' # mod =>
    LET f == mod[fi]  g == mod'[fi]
    IN  /\ \/ Size(g) < Size(f)
           \/ Size(g) = Size(f) /\ Forwardable(g) < Forwardable(f)
        /\ ir_instr_count(g) <= ir_instr_count(f)

LEMMA RunPassProgresses ==
  ASSUME AllSound, AllNumbered, RunPass
  PROVE  AllNumbered' /\ Progress
  <1>1. PICK p, r : p = passes[pi + 1] /\ r = run_pass(p, mod[fi])
    OBVIOUS
  <1>2. /\ pi \in 0 .. 4 /\ pi < 4 /\ fi \in DOMAIN mod
        /\ mod = [i \in DOMAIN mod |-> mod[i]] /\ \A i \in DOMAIN mod : Sound(mod[i]) /\ Numbered(mod[i])
    BY Passes DEF RunPass, AllSound, AllNumbered, Optimizing
  <1>3. mod' = [mod EXCEPT ![fi] = r.f]
    BY <1>1 DEF RunPass
  <1>4. p \in {"constfold", "algebraic", "constprop", "dce"}
    BY <1>1, <1>2 DEF passes
  <1>5. Numbered(r.f) /\ (r.f # mod[fi] => Smaller(mod[fi], r.f))
    BY <1>1, <1>2, <1>4, EveryPassProgresses
  <1>6. AllNumbered'
    BY <1>2, <1>3, <1>5 DEF AllNumbered
  <1>7. mod'[fi] = r.f /\ (mod' # mod => r.f # mod[fi])
    BY <1>2, <1>3
  <1>8. mod' # mod => Smaller(mod[fi], mod'[fi])
    BY <1>5, <1>7
  <1>9. Progress
    BY <1>8 DEF Smaller, Progress
  <1> QED
    BY <1>6, <1>9

LEMMA StepsProgress ==
  ASSUME AllSound, AllNumbered, [PMNext]_pm_vars
  PROVE  AllNumbered' /\ [Progress]_pm_vars
  <1>1. CASE UNCHANGED pm_vars
    BY <1>1 DEF pm_vars, AllNumbered
  <1>2. CASE RunPass
    BY <1>2, RunPassProgresses
  <1>3. CASE NextRound \/ NextFunction
    BY <1>3 DEF NextRound, NextFunction, AllNumbered, Progress
  <1> QED
    BY <1>1, <1>2, <1>3 DEF PMNext

(* A pass that changes a function makes it smaller, or keeps its size and  *)
(* leaves fewer operands that name a const or a copy, and never lengthens  *)
(* the code: a measure falls with every change, so the rounds end by       *)
(* themselves (PassManager::run).                                          *)
THEOREM EveryChangeIsAlwaysProgress == PMSpec => EveryChangeIsProgress
  <1>1. AllSound /\ AllNumbered /\ [PMNext]_pm_vars => AllNumbered' /\ [Progress]_pm_vars
    BY StepsProgress
  <1>2. PMInit => AllNumbered
    BY NumberedAssumption DEF PMInit, PMStart, AllNumbered
  <1>3. PMSpec => [][Progress]_pm_vars
    BY <1>1, <1>2, AlwaysSound, PTL DEF PMSpec
  <1> QED
    BY <1>3 DEF EveryChangeIsProgress, Progress
=============================================================================
