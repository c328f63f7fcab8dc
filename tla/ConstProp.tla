------------------------------ MODULE ConstProp ------------------------------
(***************************************************************************)
(* Constant and copy propagation (passes/constprop.cpp).  Temps defined by *)
(* const or copy are forwarded to every use in the function; what a slot   *)
(* holds is known only inside a block, from the last store or load of it.  *)
(***************************************************************************)
EXTENDS IR

(* Temps defined by const or copy, with the operand they stand for.        *)
CopyDefs(f) == { in \in InstrsOf(f) : in.dst >= 0 /\ in.op \in {"const", "copy"} }
DefMap(f) == [t \in { in.dst : in \in CopyDefs(f) } |->
                (CHOOSE in \in CopyDefs(f) : in.dst = t).args[1]]

Forward(map, v) == IF is_temp(v) /\ v.n \in DOMAIN map THEN map[v.n] ELSE v

With(map, k, v) == [x \in DOMAIN map \cup {k} |-> IF x = k THEN v ELSE map[x]]

(* `resolve': chains of copies end within as many steps as there are       *)
(* definitions (the code's guard of 100000 is only for a cyclic chain).    *)
Chase(def, t) ==
  LET chase[n \in 0 .. Cardinality(DOMAIN def)] ==
        IF n = 0 THEN Temp(t) ELSE Forward(def, chase[n - 1])
  IN  chase
Resolved(def) == [t \in DOMAIN def |-> Chase(def, t)[Cardinality(DOMAIN def)]]

(* One instruction of the walk.  st.tv: resolved value per temp; st.slots: *)
(* value each slot holds in this block; st.code: the block so far.         *)
PropInstr(st, in) ==
  LET fwd   == [in EXCEPT !.args = [i \in DOMAIN @ |-> Forward(st.tv, @[i])]]
      known == in.op = "load" /\ in.slot \in DOMAIN st.slots
      v     == st.slots[in.slot]
      new   == IF ~known THEN fwd
               ELSE IF is_const(v) THEN make_const(in, v.n) ELSE make_copy(in, v)
  IN  [tv      |-> IF known THEN With(st.tv, in.dst, v) ELSE st.tv,
       slots   |-> CASE in.op = "store" -> With(st.slots, in.slot, fwd.args[1])
                     [] in.op = "load" /\ ~known -> With(st.slots, in.slot, Temp(in.dst))
                     [] OTHER -> st.slots,
       changed |-> st.changed \/ known \/ fwd # in,
       code    |-> Append(st.code, new)]

\* A faulty variant, on which a property must fail.
PropBlock_keeps_slots(acc, block) ==
  LET st == FoldLeft(PropInstr,
                     [tv |-> acc.tv, slots |-> IF acc.blocks = <<>> THEN <<>> ELSE acc.slots,
                      changed |-> acc.changed, code |-> <<>>],
                     block)
  IN  [tv |-> st.tv, changed |-> st.changed, blocks |-> Append(acc.blocks, st.code),
       slots |-> st.slots]

(* One block, after each of its instructions: the slot knowledge starts    *)
(* empty, the temps' carries over.                                         *)
Walk(acc, block) ==
  LET st[i \in 0 .. Len(block)] ==
        IF i = 0 THEN [tv |-> acc.tv, slots |-> <<>>, changed |-> acc.changed, code |-> <<>>]
        ELSE PropInstr(st[i - 1], block[i])
  IN  st
PropBlock(acc, block) ==
  LET st == Walk(acc, block)[Len(block)]
  IN  [tv |-> st.tv, changed |-> st.changed, blocks |-> Append(acc.blocks, st.code)]

(* The function, after each of its blocks.                                 *)
WalkBlocks(f) ==
  LET acc[k \in 0 .. Len(f.blocks)] ==
        IF k = 0 THEN [tv |-> Resolved(DefMap(f)), changed |-> FALSE, blocks |-> <<>>]
        ELSE PropBlock(acc[k - 1], f.blocks[k])
  IN  acc

constprop(f) ==
  LET r == WalkBlocks(f)[Len(f.blocks)]
  IN  [f |-> [f EXCEPT !.blocks = r.blocks], changed |-> r.changed]
=============================================================================
