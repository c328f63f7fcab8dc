---------------------------- MODULE MCPassManager ----------------------------
(***************************************************************************)
(* Instances of the pass pipeline, with the dumps it can be watched by:    *)
(* the modules that the generator makes of the program families of         *)
(* MCPrograms.  Of programs that differ only in main's argument one is     *)
(* taken.                                                                  *)
(***************************************************************************)
EXTENDS Dumps, Lowering, IRGen

P == INSTANCE MCPrograms

Once(sources) == { P!Calling(src[1].body, P!I(0)) : src \in sources }
AllModules == { generate(src) : src \in Once(P!Arith) \cup Once(P!Branches) \cup Once(P!Loops) \cup P!Calls }

(* A sum of 52 ones: each round folds the one addition whose operands are  *)
(* constants by then, and there is one addition more than the cap of       *)
(* MCPassManager_long_sum.cfg has rounds.                                  *)
LongSum == { generate(P!Summing(17)) }

(* Weak fairness of DumpNext, written without ENABLED, which TLC evaluates *)
(* too slowly for a step that runs a pass: DumpNext can be taken as long   *)
(* as Optimizing holds.  That it can is what the deadlock check says, Done *)
(* being the only other step.                                              *)
Done == ~Optimizing /\ UNCHANGED dump_vars
MCNext == DumpNext \/ Done
MCSpec == DumpInit /\ [][MCNext]_dump_vars /\ ([]<>~Optimizing \/ []<><<MCNext>>_dump_vars)
=============================================================================
