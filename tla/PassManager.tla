----------------------------- MODULE PassManager -----------------------------
(***************************************************************************)
(* The optimisation pipeline (pass_manager.cpp): for each function of the  *)
(* module, the four passes in order, again and again until a round changes *)
(* nothing or max_iters rounds have run.  One step of the model is one     *)
(* pass over one function.                                                 *)
(***************************************************************************)
EXTENDS ConstFold, Algebraic, ConstProp, DCE

CONSTANTS max_iters,     \* PassManager::max_iters
          Modules        \* the IR modules the pipeline may be given

ASSUME MaxItersAssumption == max_iters \in Nat
ASSUME ModulesAssumption == \A m \in Modules : IsSequence(m) /\ \A i \in DOMAIN m : Sound(m[i])
ASSUME NumberedAssumption == \A m \in Modules : \A i \in DOMAIN m : Numbered(m[i])

VARIABLES mod,           \* the IRModule: a sequence of functions
          fi,            \* index of the function being optimised, from 1
          iter,          \* rounds completed over it
          pi,            \* passes of this round completed
          any,           \* whether one of them reported a change
          total          \* passes that reported a change (run's result)

pm_vars == <<mod, fi, iter, pi, any, total>>

(* default_pipeline.                                                       *)
passes == <<"constfold", "algebraic", "constprop", "dce">>

run_pass(p, f) ==
  CASE p = "constfold" -> constfold(f)
    [] p = "algebraic" -> algebraic(f)
    [] p = "constprop" -> constprop(f)
    [] p = "dce"       -> dce(f)

Optimizing == fi \in DOMAIN mod

PMStart == fi = 1 /\ iter = 0 /\ pi = 0 /\ any = FALSE /\ total = 0

PMInit == mod \in Modules /\ PMStart

RunPass ==
  /\ Optimizing /\ iter < max_iters /\ pi < Len(passes)
  /\ LET r == run_pass(passes[pi + 1], mod[fi])
     IN  /\ mod' = [mod EXCEPT ![fi] = r.f]
         /\ any' = (any \/ r.changed)
         /\ total' = total + Bit(r.changed)
  /\ pi' = pi + 1
  /\ UNCHANGED <<fi, iter>>

\* A faulty variant, on which a property must fail.
NextRound_keeps_any ==
  /\ Optimizing /\ pi = Len(passes) /\ any
  /\ iter' = iter + 1 /\ pi' = 0
  /\ UNCHANGED <<mod, fi, any, total>>

(* The round is over and something changed: another one, the cap allowing. *)
NextRound ==
  /\ Optimizing /\ pi = Len(passes) /\ any
  /\ iter' = iter + 1 /\ pi' = 0 /\ any' = FALSE
  /\ UNCHANGED <<mod, fi, total>>

\* A faulty variant, on which a property must fail.
NextFunction_after_a_round ==
  /\ Optimizing
  /\ pi = Len(passes) \/ iter = max_iters
  /\ fi' = fi + 1 /\ iter' = 0 /\ pi' = 0 /\ any' = FALSE /\ total' = 0
  /\ UNCHANGED mod

\* A faulty variant, on which a property must fail.
NextFunction_stays ==
  /\ Optimizing
  /\ (pi = Len(passes) /\ ~any) \/ iter = max_iters
  /\ iter' = 0 /\ pi' = 0 /\ any' = FALSE /\ total' = 0
  /\ UNCHANGED <<mod, fi>>

(* A round that changed nothing, or the cap, ends the work on a function.  *)
NextFunction ==
  /\ Optimizing
  /\ (pi = Len(passes) /\ ~any) \/ iter = max_iters
  /\ fi' = fi + 1 /\ iter' = 0 /\ pi' = 0 /\ any' = FALSE /\ total' = 0
  /\ UNCHANGED mod

PMNext == RunPass \/ NextRound \/ NextFunction

(* A loop of a single thread.                                              *)
PMSpec == PMInit /\ [][PMNext]_pm_vars /\ WF_pm_vars(PMNext)

-----------------------------------------------------------------------------
(* Every pass leaves each function well formed: blocks end in their only   *)
(* terminator, branches name blocks, a temp has one definition, which      *)
(* comes before each reachable use on every path (ir.h).                   *)
IRStaysWellFormed == \A i \in DOMAIN mod : WellFormed(mod[i])

(* A pass reports a change exactly if it changed the function (pass.h): an *)
(* unreported change would end the rounds early, a change reported for     *)
(* nothing would keep them going to the cap.                               *)
ChangesAreReported ==
  [][pi' = pi + 1 => (total' = total + 1 <=> mod' # mod)]_pm_vars

(* A pass that changes a function makes it smaller, or leaves its size and *)
(* makes fewer operands name what a const or copy stands for: this is why  *)
(* the rounds end, whatever the cap.  No pass lengthens the code ("the     *)
(* metric the optimization tests use to prove passes shrink the code",     *)
(* ir.h).                                                                  *)
Size(f) == ir_instr_count(f) + Cardinality({ p \in Positions(f) : At(f, p).op \notin {"const", "copy"} })
Forwardable(f) ==
  Cardinality(UNION { { <<p, i>> : i \in { j \in DOMAIN At(f, p).args : At(f, p).args[j] # Forward(DefMap(f), At(f, p).args[j]) } } :
                        p \in Positions(f) })
EveryChangeIsProgress ==
  [][mod' # mod =>
       LET f == mod[fi]  g == mod'[fi]
       IN  /\ \/ Size(g) < Size(f)
              \/ Size(g) = Size(f) /\ Forwardable(g) < Forwardable(f)
           /\ ir_instr_count(g) <= ir_instr_count(f)]_pm_vars

(* Short of the cap, the pipeline leaves a function only at a fixpoint of  *)
(* all four passes.                                                        *)
LeavesOnlyAtFixpoint ==
  [][fi' # fi /\ iter < max_iters =>
       \A p \in {"constfold", "algebraic", "constprop", "dce"} :
         run_pass(p, mod[fi]).f = mod[fi]]_pm_vars

(* What the pipeline is done with is at a fixpoint, the cap or not (the    *)
(* pipeline is "run to a fixpoint", README.md).                            *)
OptimizedToAFixpoint ==
  \A i \in 1 .. fi - 1 : i \in DOMAIN mod =>
    \A p \in {"constfold", "algebraic", "constprop", "dce"} : run_pass(p, mod[i]).f = mod[i]

(* Every completed round is one that changed something: rounds are not     *)
(* spent on nothing (run's result, total, is at least their number).       *)
RoundsAreEarned == iter <= total

(* The pipeline ends.                                                      *)
PipelineEnds == <>~Optimizing
=============================================================================
