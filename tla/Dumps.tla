-------------------------------- MODULE Dumps --------------------------------
(***************************************************************************)
(* What --emit=ir and --emit=ir-opt print (ir.cpp) of a module on its way  *)
(* through the pipeline.  A block's label is made when the block is        *)
(* (IRGen::new_block), ends in the id the block has then, and is all the   *)
(* dump shows of where a block is; the passes do not touch it.  `labels'   *)
(* holds these ids.  A line is the sequence of what it says.               *)
(***************************************************************************)
EXTENDS PassManager, TLC

VARIABLE labels
dump_vars == <<pm_vars, labels>>

\* A faulty variant, on which a property must fail.
val_str_bare(v) == ToString(v.n)

val_str(v) == IF is_const(v) THEN ToString(v.n) ELSE "%" \o ToString(v.n)
Dst(in) == IF in.dst >= 0 THEN "%" \o ToString(in.dst) ELSE "none"
Args(in) == [i \in DOMAIN in.args |-> val_str(in.args[i])]
Target(b) == "." \o ToString(b)
Slot(in) == "@" \o ToString(in.slot)

InstrLine(in) ==
  <<Dst(in), in.op>> \o
  CASE in.op = "load"   -> <<Slot(in)>>
    [] in.op = "store"  -> <<Slot(in)>> \o Args(in)
    [] in.op = "call"   -> <<in.callee>> \o Args(in)
    [] in.op = "br"     -> <<Target(in.bb_true)>>
    [] in.op = "condbr" -> Args(in) \o <<Target(in.bb_true), Target(in.bb_false)>>
    [] OTHER            -> Args(in)

BlockLines(block, label) ==
  << <<"label", ToString(label)>> >> \o [i \in DOMAIN block |-> InstrLine(block[i])]

ir_to_string(f, ids) ==
  << <<"fn", ToString(f.num_params), ToString(f.num_slots)>> >>
  \o FlattenSeq([k \in DOMAIN f.blocks |-> BlockLines(f.blocks[k], ids[k])])

DumpInit ==
  /\ PMInit
  /\ labels = [i \in DOMAIN mod |-> [k \in DOMAIN mod[i].blocks |-> k - 1]]

(* Removing unreachable blocks drops their labels with them.               *)
Kept(f, ids) ==
  LET keep == InOrder(reachable_blocks(f)) IN [j \in DOMAIN keep |-> ids[keep[j] + 1]]

DumpNext ==
  /\ PMNext
  /\ labels' = IF pi' = pi + 1 /\ passes[pi + 1] = "dce"
               THEN [labels EXCEPT ![fi] = Kept(mod[fi], @)] ELSE labels

Dump == [i \in DOMAIN mod |-> ir_to_string(mod[i], labels[i])]
-----------------------------------------------------------------------------
(* A pass that changes a function changes what is printed of it, and one   *)
(* that does not does not: comparing --emit=ir with --emit=ir-opt shows    *)
(* "what the optimizer removed" (COMMANDS.md), all of it.                  *)
DumpShowsEveryChange == [][mod' # mod <=> Dump' # Dump]_dump_vars
=============================================================================
