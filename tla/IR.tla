--------------------------------- MODULE IR ---------------------------------
(***************************************************************************)
(* The linear three-address intermediate representation of ir.h and the    *)
(* helpers the passes share (ir_util.h).  A function is a sequence of      *)
(* basic blocks, a block a sequence of instructions ending in a            *)
(* terminator.  Block ids, temps and slots count from 0 as in the code;    *)
(* block id b is element b + 1 of `blocks'.  Block labels only name blocks *)
(* in dumps and are left out.  The `dead' mark of an instruction lives     *)
(* only inside one pass, between marking and sweep_dead: a pass is         *)
(* modelled by the set of instructions it marks and one sweep.             *)
(***************************************************************************)
EXTENDS Integers, Sequences, FiniteSets, SequencesExt

BinaryIROps == {"add", "sub", "mul", "div", "mod", "lt", "le", "gt", "ge", "eq", "ne",
                "and", "or"}
Terminators == {"br", "condbr", "ret"}

op_is_terminator(op) == op \in Terminators
\* A faulty variant, on which a property must fail.
op_has_side_effect_but_calls(op) == op \in {"store", "print"} \/ op_is_terminator(op)

op_has_side_effect(op) == op \in {"store", "print", "call"} \/ op_is_terminator(op)

(* Value: a temp or an inline constant.                                    *)
Temp(i) == [kind |-> "temp", n |-> i]
Const(c) == [kind |-> "const", n |-> c]
is_temp(v) == v.kind = "temp"
is_const(v) == v.kind = "const"

NoInstr == [op |-> "ret", dst |-> -1, args |-> <<>>, slot |-> -1, callee |-> "none",
            bb_true |-> -1, bb_false |-> -1]
Ins(op, dst, args) == [NoInstr EXCEPT !.op = op, !.dst = dst, !.args = args]

(* The rewrites of an instruction in place: slot and callee are cleared,   *)
(* the result temp stays.                                                  *)
make_const(in, c) == Ins("const", in.dst, <<Const(c)>>)
\* A faulty variant, on which a property must fail.
make_copy_keeps_op(in, v) == [in EXCEPT !.args = <<v>>]

make_copy(in, v) == Ins("copy", in.dst, <<v>>)

BlockIds(f) == 0 .. Len(f.blocks) - 1
Block(f, b) == f.blocks[b + 1]
Positions(f) == UNION { {<<b, i>> : i \in DOMAIN Block(f, b)} : b \in BlockIds(f) }
At(f, p) == Block(f, p[1])[p[2]]
InstrsOf(f) == { At(f, p) : p \in Positions(f) }

ir_instr_count(f) == Cardinality(Positions(f))

(* The temps some operand mentions: those whose count_temp_uses is not 0.  *)
TempsIn(in) == { in.args[i].n : i \in { j \in DOMAIN in.args : is_temp(in.args[j]) } }

(* The edges a block's terminator makes, ignoring ids that are no block.   *)
Succs(f, b) ==
  LET t == Last(Block(f, b))
  IN  BlockIds(f) \cap (CASE t.op = "br" -> {t.bb_true}
                          [] t.op = "condbr" -> {t.bb_true, t.bb_false}
                          [] OTHER -> {})

(* Blocks on a path from `start' that never enters a block of `avoid', by  *)
(* the length of the path.                                                 *)
Reach(f, start, avoid) ==
  LET reach[n \in 0 .. Len(f.blocks)] ==
        IF n = 0 THEN start
        ELSE LET r == reach[n - 1] IN r \cup ((UNION { Succs(f, b) : b \in r }) \ avoid)
  IN  reach
ReachAvoiding(f, start, avoid) == Reach(f, start, avoid)[Len(f.blocks)]

reachable_blocks(f) == IF f.blocks = <<>> THEN {} ELSE ReachAvoiding(f, {0}, {})

(* The numbers of a finite set in their order.                             *)
Rank(S, k) == Cardinality({ c \in S : c < k })
InOrder(S) == [i \in 1 .. Cardinality(S) |-> CHOOSE k \in S : Rank(S, k) = i - 1]

(* Removes the instructions at the positions marked dead, keeping the      *)
(* order of the others.                                                    *)
Survivors(f, dead, k) == { i \in DOMAIN f.blocks[k] : <<k - 1, i>> \notin dead }
sweep_dead(f, dead) ==
  [f EXCEPT !.blocks =
     [k \in DOMAIN f.blocks |->
        LET kept == InOrder(Survivors(f, dead, k)) IN [j \in DOMAIN kept |-> f.blocks[k][kept[j]]]]]

-----------------------------------------------------------------------------
(* Well-formedness: what ir.h says of a function and every stage relies    *)
(* on.                                                                     *)

(* Each block ends in its only terminator, and branches name blocks.       *)
CFGWellFormed(f) ==
  \A b \in BlockIds(f) :
    LET s == Block(f, b)
    IN  /\ s # <<>>
        /\ \A i \in DOMAIN s : op_is_terminator(s[i].op) <=> i = Len(s)
        /\ Last(s).op \in {"br", "condbr"} => Last(s).bb_true \in BlockIds(f)
        /\ Last(s).op = "condbr" => Last(s).bb_false \in BlockIds(f)

(* A temp has one definition.                                              *)
DefsOf(f, t) == { p \in Positions(f) : At(f, p).dst = t }
SingleAssignment(f) ==
  \A p \in Positions(f) :
    LET d == At(f, p).dst
    IN  d # -1 => d \in 0 .. f.next_temp - 1 /\ DefsOf(f, d) = {p}

(* On every path from the entry to a use of a temp, its definition comes   *)
(* first.                                                                  *)
Before(f, p, q) ==
  IF p[1] = q[1]
  THEN p[2] < q[2]
  ELSE p[1] = 0 \/ q[1] \notin ReachAvoiding(f, {0}, {p[1]})

DefinedBeforeUse(f) ==
  \A q \in Positions(f) : q[1] \in reachable_blocks(f) =>
    \A t \in TempsIn(At(f, q)) : \E p \in DefsOf(f, t) : Before(f, p, q)

SlotsInRange(f) ==
  \A in \in InstrsOf(f) : in.op \in {"load", "store"} => in.slot \in 0 .. f.num_slots - 1

WellFormed(f) ==
  CFGWellFormed(f) /\ SingleAssignment(f) /\ DefinedBeforeUse(f) /\ SlotsInRange(f)

-----------------------------------------------------------------------------
(* What the types of ir.h and the way the generator makes instructions say *)
(* beyond that: the fields a Value, an Instr and an IRFunction have, and   *)
(* which operations have a result and how many operands.                   *)
Ops == BinaryIROps \cup Terminators
       \cup {"neg", "not", "const", "copy", "load", "store", "call", "print"}
Values == [kind : {"temp", "const"}, n : Int]
IsSequence(s) == s \in Seq({ s[i] : i \in DOMAIN s })

TypedInstr(in) ==
  /\ in \in [op : Ops, dst : Int, args : Seq(Values), slot : Int, callee : {in.callee},
             bb_true : Int, bb_false : Int]
  /\ in.op \in {"const", "copy", "store"} => Len(in.args) = 1
  /\ in.op \in {"const", "copy", "load"} => in.dst # -1
  /\ in.op = "store" \/ op_is_terminator(in.op) => in.dst = -1
  /\ \A t \in TempsIn(in) : t >= 0

TypedFunction(f) ==
  /\ f \in [name : {f.name}, num_params : Int, num_slots : Int, next_temp : Nat, blocks : {f.blocks}]
  /\ IsSequence(f.blocks) /\ f.blocks # <<>>
  /\ \A k \in DOMAIN f.blocks :
       IsSequence(f.blocks[k]) /\ \A i \in DOMAIN f.blocks[k] : TypedInstr(f.blocks[k][i])

Sound(f) == TypedFunction(f) /\ WellFormed(f)

(* In a block results are numbered upwards, each above the temps that      *)
(* instructions before it and its own operands mention: the generator      *)
(* takes a new temp for each result when it emits the instruction.         *)
Numbered(f) ==
  \A k \in DOMAIN f.blocks : \A j \in DOMAIN f.blocks[k] :
    LET t == f.blocks[k][j].dst
    IN  t # -1 => \A i \in 1 .. j :
          /\ \A u \in TempsIn(f.blocks[k][i]) : u < t
          /\ i < j => f.blocks[k][i].dst < t
=============================================================================
