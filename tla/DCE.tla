--------------------------------- MODULE DCE ---------------------------------
(***************************************************************************)
(* Dead-code elimination (passes/dce.cpp): unreachable blocks, then pure   *)
(* instructions whose result is never used, then stores never observed.    *)
(***************************************************************************)
EXTENDS IR

(* Survivors keep their order and are renumbered densely; every branch     *)
(* follows.                                                                *)
remove_unreachable(f) ==
  LET seen     == reachable_blocks(f)
      remap(b) == Rank(seen, b)
      keep     == InOrder(seen)
      Retarget(in) ==
        CASE in.op = "br"     -> [in EXCEPT !.bb_true = remap(@)]
          [] in.op = "condbr" -> [in EXCEPT !.bb_true = remap(@), !.bb_false = remap(@)]
          [] OTHER            -> in
      Kept(s)  == [s EXCEPT ![Len(s)] = Retarget(@)]
  IN  [f |-> IF seen = BlockIds(f) THEN f
             ELSE [f EXCEPT !.blocks = [j \in DOMAIN keep |-> Kept(Block(f, keep[j]))]],
       changed |-> seen # BlockIds(f)]

\* A faulty variant, on which a property must fail.
Useless_in_its_block(f, gone) ==
  { p \in Positions(f) :
      LET in == At(f, p)
      IN  /\ in.dst >= 0 /\ ~op_has_side_effect(in.op)
          /\ \A q \in Positions(f) \ gone : q[1] = p[1] => in.dst \notin TempsIn(At(f, q)) }

(* Pure instructions whose result no instruction outside `gone' uses.      *)
Useless(f, gone) ==
  LET used == UNION { TempsIn(At(f, p)) : p \in Positions(f) \ gone }
  IN  { p \in Positions(f) :
          LET in == At(f, p)
          IN  in.dst >= 0 /\ ~op_has_side_effect(in.op) /\ in.dst \notin used }

(* Deleting an instruction can leave its operands unused, hence rounds;    *)
(* every round but the last deletes the definition of at least one temp.   *)
Marked(f) == LET marked[n \in 0 .. f.next_temp] == IF n = 0 THEN {} ELSE Useless(f, marked[n - 1]) IN marked
eliminate_dead_temps(f) ==
  [f |-> sweep_dead(f, Marked(f)[f.next_temp]), changed |-> Useless(f, {}) # {}]

\* A faulty variant, on which a property must fail.
DeadStores_in_their_block(f) ==
  { p \in Positions(f) :
      /\ At(f, p).op = "store"
      /\ \A q \in Positions(f) :
           q[1] = p[1] => ~(At(f, q).op = "load" /\ At(f, q).slot = At(f, p).slot) }

(* A store is dead if its slot is loaded nowhere in the function, or if a  *)
(* later store of the block overwrites it with no load of the slot in      *)
(* between.  Calls in between do not matter: no callee sees this frame.    *)
DeadStores(f) ==
  LET stores == { p \in Positions(f) : At(f, p).op = "store" }
      loads  == { p \in Positions(f) : At(f, p).op = "load" }
      Same(p, q) == At(f, p).slot = At(f, q).slot
  IN  { p \in stores :
          \/ \A q \in loads : ~Same(p, q)
          \/ \E q \in stores :
               /\ q[1] = p[1] /\ p[2] < q[2] /\ Same(p, q)
               /\ ~\E r \in loads : r[1] = p[1] /\ r[2] \in p[2] .. q[2] /\ Same(p, r) }

\* A faulty variant, on which a property must fail.
dead_store_elim_frees_slots(f) ==
  LET g == sweep_dead(f, DeadStores(f))
  IN  [f |-> [g EXCEPT !.num_slots = Max({ in.slot + 1 : in \in InstrsOf(g) } \cup {0})],
       changed |-> DeadStores(f) # {}]

dead_store_elim(f) ==
  [f |-> sweep_dead(f, DeadStores(f)), changed |-> DeadStores(f) # {}]

\* A faulty variant, on which a property must fail.
dce_reports_last(f) ==
  dead_store_elim(eliminate_dead_temps(remove_unreachable(f).f).f)

dce(f) ==
  LET a == remove_unreachable(f)
      b == eliminate_dead_temps(a.f)
      c == dead_store_elim(b.f)
  IN  [f |-> c.f, changed |-> a.changed \/ b.changed \/ c.changed]
=============================================================================
