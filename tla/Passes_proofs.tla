----------------------------- MODULE Passes_proofs -----------------------------
(***************************************************************************)
(* What the four passes do to a function that is well formed: it stays so, *)
(* and a pass reports a change exactly if the function is another one.     *)
(***************************************************************************)
EXTENDS ConstFold, Algebraic, ConstProp, DCE, IR_proofs

-----------------------------------------------------------------------------
(* Rewriting instructions in place.                                        *)

(* The i-th instruction of the k-th block is there.                        *)
Place(f, k, i) == k \in 1 .. Len(f.blocks) /\ i \in 1 .. Len(f.blocks[k])

(* The instructions of a function, one by one.                             *)
LEMMA TypedInstructions ==
  ASSUME NEW f, Sound(f)
  PROVE  /\ Laid(f)
         /\ \A k, i : Place(f, k, i) => TypedInstr(f.blocks[k][i]) /\ f.blocks[k][i] \in InstrsOf(f)
         /\ \A in \in InstrsOf(f) : \E k, i : Place(f, k, i) /\ in = f.blocks[k][i]
  <1>1. Laid(f)
    BY TypedIsLaid DEF Sound
  <1>2. ASSUME NEW k, NEW i, Place(f, k, i)
        PROVE  TypedInstr(f.blocks[k][i]) /\ f.blocks[k][i] \in InstrsOf(f)
    <2>1. k \in 1 .. Len(f.blocks) /\ i \in 1 .. Len(f.blocks[k])
      BY <1>2 DEF Place
    <2>2. TypedInstr(f.blocks[k][i])
      BY <1>1, <2>1 DEF Sound, TypedFunction, Laid
    <2>3. <<k - 1, i>> \in Positions(f) /\ At(f, <<k - 1, i>>) = f.blocks[k][i]
      BY <1>1, <2>1, PositionProperties
    <2> QED
      BY <2>2, <2>3 DEF InstrsOf
  <1>3. ASSUME NEW in \in InstrsOf(f)
        PROVE  \E k, i : Place(f, k, i) /\ in = f.blocks[k][i]
    <2>1. PICK p \in Positions(f) : in = At(f, p)
      BY DEF InstrsOf
    <2>2. p[1] + 1 \in 1 .. Len(f.blocks) /\ p[2] \in 1 .. Len(f.blocks[p[1] + 1])
          /\ At(f, p) = f.blocks[p[1] + 1][p[2]]
      BY <1>1, PositionProperties
    <2> QED
      BY <2>1, <2>2 DEF Place
  <1> QED
    BY <1>1, <1>2, <1>3

(* A function whose instructions are rewritten is the same function only   *)
(* if every instruction is.                                                *)
Differ(f, blocks) == \E k, i : Place(f, k, i) /\ blocks[k][i] # f.blocks[k][i]

LEMMA SameBlocks ==
  ASSUME NEW f, Sound(f), NEW blocks, ReplacedIn(f, blocks)
  PROVE  [f EXCEPT !.blocks = blocks] # f <=> Differ(f, blocks)
  <1> DEFINE g == [f EXCEPT !.blocks = blocks]
  <1>1. /\ f \in [name : {f.name}, num_params : Int, num_slots : Int, next_temp : Nat, blocks : {f.blocks}]
        /\ IsSequence(f.blocks) /\ Laid(f)
        /\ \A k \in 1 .. Len(f.blocks) : IsSequence(f.blocks[k])
    BY TypedIsLaid DEF Sound, TypedFunction, Laid
  <1>2. g.blocks = blocks /\ (g = f <=> blocks = f.blocks)
    BY <1>1
  <1>3. ASSUME \A k, i : Place(f, k, i) => blocks[k][i] = f.blocks[k][i]
        PROVE  blocks = f.blocks
    <2>1. ASSUME NEW k \in 1 .. Len(f.blocks)
          PROVE  blocks[k] = f.blocks[k]
      <3>1. /\ blocks[k] = [i \in 1 .. Len(f.blocks[k]) |-> blocks[k][i]]
            /\ f.blocks[k] = [i \in 1 .. Len(f.blocks[k]) |-> f.blocks[k][i]]
        BY <1>1, SequenceProperties DEF ReplacedIn
      <3>2. \A i \in 1 .. Len(f.blocks[k]) : blocks[k][i] = f.blocks[k][i]
        BY <1>3 DEF Place
      <3> QED
        BY <3>1, <3>2
    <2>2. /\ blocks = [k \in 1 .. Len(f.blocks) |-> blocks[k]]
          /\ f.blocks = [k \in 1 .. Len(f.blocks) |-> f.blocks[k]]
      BY <1>1, SequenceProperties DEF ReplacedIn
    <2> QED
      BY <2>1, <2>2
  <1>4. blocks = f.blocks => ~Differ(f, blocks)
    BY DEF Differ
  <1>5. ~Differ(f, blocks) => blocks = f.blocks
    BY <1>3, Zenon DEF Differ
  <1> QED
    BY <1>2, <1>4, <1>5

(* What must be the case for the instructions that replace those of f.     *)
Rewritten(f, blocks) ==
  /\ blocks = [k \in DOMAIN f.blocks |-> [i \in DOMAIN f.blocks[k] |-> blocks[k][i]]]
  /\ \A k, i : Place(f, k, i) => TypedInstr(blocks[k][i]) /\ Replaces(blocks[k][i], f.blocks[k][i])

LEMMA RewrittenIn ==
  ASSUME NEW f, Sound(f), NEW blocks, Rewritten(f, blocks)
  PROVE  ReplacedIn(f, blocks)
  <1>1. Laid(f)
    BY TypedIsLaid DEF Sound
  <1>2. /\ DOMAIN f.blocks = 1 .. Len(f.blocks)
        /\ \A k \in 1 .. Len(f.blocks) : DOMAIN f.blocks[k] = 1 .. Len(f.blocks[k])
    BY <1>1 DEF Laid
  <1>0. blocks = [k \in DOMAIN f.blocks |-> [i \in DOMAIN f.blocks[k] |-> blocks[k][i]]]
    BY DEF Rewritten
  <1>3. blocks = [k \in 1 .. Len(f.blocks) |-> blocks[k]]
    BY <1>0, <1>2
  <1>4. \A k \in 1 .. Len(f.blocks) : blocks[k] = [i \in 1 .. Len(f.blocks[k]) |-> blocks[k][i]]
    BY <1>0, <1>2
  <1>5. ASSUME NEW k \in 1 .. Len(f.blocks), NEW i \in 1 .. Len(f.blocks[k])
        PROVE  TypedInstr(blocks[k][i]) /\ Replaces(blocks[k][i], f.blocks[k][i])
    BY DEF Rewritten, Place
  <1> QED
    BY <1>3, <1>4, <1>5, Zenon DEF ReplacedIn

(* A rewriting that gives no instruction an operand it did not have keeps  *)
(* the function well formed.                                               *)
NoNewUses(f, blocks) == \A k, i : Place(f, k, i) => TempsIn(blocks[k][i]) \subseteq TempsIn(f.blocks[k][i])

LEMMA RewritingKeeps ==
  ASSUME NEW f, Sound(f), NEW blocks, Rewritten(f, blocks), NoNewUses(f, blocks)
  PROVE  /\ Sound([f EXCEPT !.blocks = blocks])
         /\ [f EXCEPT !.blocks = blocks] # f <=> Differ(f, blocks)
  <1>1. ReplacedIn(f, blocks)
    BY RewrittenIn
  <1>2. UsesDefined(f, blocks)
    <2> SUFFICES ASSUME NEW k \in 1 .. Len(f.blocks), NEW i \in 1 .. Len(f.blocks[k]),
                        k - 1 \in ReachAvoiding(f, {0}, {}), NEW t \in TempsIn(blocks[k][i])
                 PROVE  \E p \in DefsOf(f, t) : Before(f, p, <<k - 1, i>>)
      BY DEF UsesDefined
    <2>1. Laid(f) /\ f.blocks # <<>> /\ DefinedBeforeUse(f)
      BY TypedIsLaid DEF Sound, TypedFunction, WellFormed
    <2>2. <<k - 1, i>> \in Positions(f) /\ At(f, <<k - 1, i>>) = f.blocks[k][i]
      BY <2>1, PositionProperties
    <2>3. t \in TempsIn(At(f, <<k - 1, i>>))
      BY <2>2 DEF Place, NoNewUses
    <2>4. <<k - 1, i>>[1] \in reachable_blocks(f)
      BY <2>1 DEF reachable_blocks
    <2> QED
      BY <2>1, <2>2, <2>3, <2>4 DEF DefinedBeforeUse
  <1>3. Sound([f EXCEPT !.blocks = blocks])
    BY <1>1, <1>2, ReplacedIsSound
  <1> QED
    BY <1>1, <1>3, SameBlocks

LEMMA InsIs ==
  ASSUME NEW op, NEW dst, NEW args
  PROVE  /\ Ins(op, dst, args) \in [op : {op}, dst : {dst}, args : {args}, slot : {-1}, callee : {"none"},
                                    bb_true : {-1}, bb_false : {-1}]
         /\ Ins(op, dst, args).op = op /\ Ins(op, dst, args).dst = dst /\ Ins(op, dst, args).args = args
         /\ Ins(op, dst, args).callee = "none"
  <1>1. NoInstr \in [op : {"ret"}, dst : {-1}, args : {<<>>}, slot : {-1}, callee : {"none"}, bb_true : {-1}, bb_false : {-1}]
    BY DEF NoInstr
  <1>2. Ins(op, dst, args) = [NoInstr EXCEPT !.op = op, !.dst = dst, !.args = args]
    BY DEF Ins
  <1> QED
    BY <1>1, <1>2

(* What make_const and make_copy leave.                                    *)
LEMMA MakeConst ==
  ASSUME NEW in, TypedInstr(in), in.dst >= 0, NEW c \in Int
  PROVE  /\ TypedInstr(make_const(in, c)) /\ Replaces(make_const(in, c), in)
         /\ TempsIn(make_const(in, c)) = {}
         /\ make_const(in, c).op = "const"
  <1> DEFINE new == make_const(in, c)
  <1>0. in.dst \in Int
    BY DEF TypedInstr
  <1>1. /\ new \in [op : {"const"}, dst : {in.dst}, args : {<<Const(c)>>}, slot : {-1}, callee : {"none"},
                     bb_true : {-1}, bb_false : {-1}]
        /\ new.op = "const" /\ new.dst = in.dst /\ new.args = <<Const(c)>> /\ new.callee = "none"
    BY InsIs DEF make_const
  <1> HIDE DEF new
  <1>2. TempsIn(new) = {}
    BY <1>1 DEF TempsIn, Const, is_temp
  <1>3. Const(c) \in Values
    BY DEF Const, Values
  <1>4. new.args \in Seq(Values) /\ Len(new.args) = 1
    BY <1>1, <1>3
  <1>5. /\ new \in [op : Ops, dst : Int, args : Seq(Values), slot : Int, callee : {new.callee},
                    bb_true : Int, bb_false : Int]
        /\ new.op = "const" /\ new.dst = in.dst
    <2>1. "const" \in Ops /\ -1 \in Int
      BY DEF Ops
    <2>2. new.args \in Seq(Values) /\ new.op \in Ops /\ new.dst \in Int
      BY <1>0, <1>1, <1>4, <2>1
    <2> HIDE DEF Values
    <2> QED
      BY <1>1, <2>1, <2>2
  <1>6. TypedInstr(new)
    BY <1>2, <1>4, <1>5 DEF TypedInstr, op_is_terminator, Terminators
  <1>7. Replaces(new, in)
    BY <1>5 DEF Replaces, TypedInstr, op_is_terminator, Terminators
  <1> QED
    BY <1>2, <1>5, <1>6, <1>7 DEF new

LEMMA MakeCopy ==
  ASSUME NEW in, TypedInstr(in), in.dst >= 0, NEW v \in Values, is_temp(v) => v.n >= 0
  PROVE  /\ TypedInstr(make_copy(in, v)) /\ Replaces(make_copy(in, v), in)
         /\ \A t \in TempsIn(make_copy(in, v)) : is_temp(v) /\ t = v.n
         /\ make_copy(in, v).op = "copy"
  <1> DEFINE new == make_copy(in, v)
  <1>0. in.dst \in Int
    BY DEF TypedInstr
  <1>1. /\ new \in [op : {"copy"}, dst : {in.dst}, args : {<<v>>}, slot : {-1}, callee : {"none"},
                     bb_true : {-1}, bb_false : {-1}]
        /\ new.op = "copy" /\ new.dst = in.dst /\ new.args = <<v>> /\ new.callee = "none"
    BY InsIs DEF make_copy
  <1> HIDE DEF new
  <1>2. \A t \in TempsIn(new) : is_temp(v) /\ t = v.n
    BY <1>1 DEF TempsIn
  <1>4. new.args \in Seq(Values) /\ Len(new.args) = 1
    BY <1>1
  <1>5. /\ new \in [op : Ops, dst : Int, args : Seq(Values), slot : Int, callee : {new.callee},
                    bb_true : Int, bb_false : Int]
        /\ new.op = "copy" /\ new.dst = in.dst
    <2>1. "copy" \in Ops /\ -1 \in Int
      BY DEF Ops
    <2>2. new.args \in Seq(Values) /\ new.op \in Ops /\ new.dst \in Int
      BY <1>0, <1>1, <1>4, <2>1
    <2> HIDE DEF Values
    <2> QED
      BY <1>1, <2>1, <2>2
  <1>6. TypedInstr(new)
    BY <1>2, <1>4, <1>5 DEF TypedInstr, op_is_terminator, Terminators
  <1>7. Replaces(new, in)
    BY <1>5 DEF Replaces, TypedInstr, op_is_terminator, Terminators
  <1> QED
    BY <1>2, <1>5, <1>6, <1>7 DEF new

LEMMA ReplacesItself ==
  ASSUME NEW in
  PROVE  Replaces(in, in)
  BY DEF Replaces

-----------------------------------------------------------------------------
(* Constant folding.                                                       *)

LEMMA FoldBinaryTyped ==
  ASSUME NEW op, NEW a \in Int, NEW b \in Int
  PROVE  /\ fold_binary(op, a, b).out \in Int
         /\ fold_binary(op, a, b).ok => op \in BinaryIROps
  <1>1. MaxInt \in Int /\ MaxInt > 0 /\ MinInt \in Int
    BY MaxIntAssumption DEF MinInt
  <1>2. \A x \in Int : Wrap(x) \in Int
    BY <1>1 DEF Wrap
  <1>3. \A p : Bit(p) \in Int
    BY DEF Bit
  <1>4. b # 0 => TruncDiv(a, b) \in Int /\ TruncMod(a, b) \in Int
    <2> SUFFICES ASSUME b # 0 PROVE TruncDiv(a, b) \in Int /\ TruncMod(a, b) \in Int
      OBVIOUS
    <2>1. Abs(a) \in Nat /\ Abs(b) \in Nat \ {0}
      BY DEF Abs
    <2>2. Abs(a) \div Abs(b) \in Int
      BY <2>1
    <2>3. TruncDiv(a, b) \in Int
      BY <2>2 DEF TruncDiv
    <2> QED
      BY <2>3 DEF TruncMod
  <1>5. b # 0 => FoldDiv(a, b) \in Int /\ FoldMod(a, b) \in Int
    BY <1>1, <1>4 DEF FoldDiv, FoldMod
  <1>6. Wrap(a + b) \in Int /\ Wrap(a - b) \in Int /\ Wrap(a * b) \in Int
    BY <1>2
  <1>7. CASE op \in {"div", "mod"} /\ b = 0
    BY <1>7 DEF fold_binary, NotFolded
  <1>8. CASE ~(op \in {"div", "mod"} /\ b = 0) /\ op \in BinaryIROps
    BY <1>3, <1>5, <1>6, <1>8 DEF fold_binary, Folded, BinaryIROps
  <1>9. CASE op \notin BinaryIROps
    <2>1. fold_binary(op, a, b) = NotFolded
      BY <1>9, Zenon DEF fold_binary, BinaryIROps
    <2> QED
      BY <2>1 DEF NotFolded
  <1> QED
    BY <1>7, <1>8, <1>9

(* What is folded has a result, is not a constant already, and becomes a   *)
(* word.                                                                   *)
LEMMA FoldTyped ==
  ASSUME NEW in, TypedInstr(in), FoldOf(in).ok
  PROVE  in.dst >= 0 /\ in.op # "const" /\ FoldOf(in).out \in Int
  <1>1. in.dst \in Int /\ in.args \in Seq(Values)
    BY DEF TypedInstr
  <1>2. \A i \in DOMAIN in.args : in.args[i].n \in Int
    <2>1. ASSUME NEW i \in DOMAIN in.args
          PROVE  in.args[i] \in Values
      <3>1. DOMAIN in.args = 1 .. Len(in.args)
        BY <1>1
      <3> QED
        BY <1>1, <3>1, ElementOfSeq
    <2> QED
      BY <2>1 DEF Values
  <1>3. ~(in.dst < 0 \/ in.op \in {"const", "copy"} \/ ~AllConst(in))
    BY DEF FoldOf, NotFolded
  <1>4. Len(in.args) = 1 => in.args[1].n \in Int
    BY <1>1, <1>2
  <1>5. Len(in.args) = 2 => in.args[1].n \in Int /\ in.args[2].n \in Int
    BY <1>1, <1>2
  <1>6. \A x \in Int : Wrap(0 - x) \in Int
    BY MaxIntAssumption DEF Wrap, MinInt
  <1>7. \A p : Bit(p) \in Int
    BY DEF Bit
  <1>8. CASE in.op = "neg" /\ Len(in.args) = 1
    <2>1. FoldOf(in) = Folded(Wrap(0 - in.args[1].n))
      BY <1>3, <1>8 DEF FoldOf, FoldNeg
    <2>2. Wrap(0 - in.args[1].n) \in Int
      BY <1>4, <1>6, <1>8
    <2> QED
      BY <1>1, <1>3, <2>1, <2>2 DEF Folded
  <1>9. CASE in.op = "not" /\ Len(in.args) = 1
    <2>1. FoldOf(in) = Folded(Bit(in.args[1].n = 0))
      BY <1>3, <1>9 DEF FoldOf
    <2> QED
      BY <1>1, <1>3, <1>7, <1>9, <2>1 DEF Folded
  <1>10. CASE in.op \notin {"neg", "not"} /\ Len(in.args) = 2
    <2>1. FoldOf(in) = fold_binary(in.op, in.args[1].n, in.args[2].n)
      BY <1>3, <1>10 DEF FoldOf
    <2> QED
      BY <1>1, <1>3, <1>5, <1>10, <2>1, FoldBinaryTyped DEF BinaryIROps
  <1>11. CASE ~(in.op = "neg" /\ Len(in.args) = 1) /\ ~(in.op = "not" /\ Len(in.args) = 1)
              /\ ~(in.op \notin {"neg", "not"} /\ Len(in.args) = 2)
    <2>1. FoldOf(in) = NotFolded
      BY <1>3, <1>11 DEF FoldOf
    <2> QED
      BY <2>1 DEF NotFolded
  <1> QED
    BY <1>8, <1>9, <1>10, <1>11

LEMMA ConstfoldKeeps ==
  ASSUME NEW f, Sound(f)
  PROVE  Sound(constfold(f).f) /\ (constfold(f).changed <=> constfold(f).f # f)
  <1> DEFINE New(in) == IF FoldOf(in).ok THEN make_const(in, FoldOf(in).out) ELSE in
             blocks == [k \in DOMAIN f.blocks |-> [i \in DOMAIN f.blocks[k] |-> New(f.blocks[k][i])]]
  <1>1. ASSUME NEW in, TypedInstr(in)
        PROVE  /\ TypedInstr(New(in)) /\ Replaces(New(in), in) /\ TempsIn(New(in)) \subseteq TempsIn(in)
               /\ FoldOf(in).ok <=> New(in) # in
    <2>1. CASE FoldOf(in).ok
      <3>1. in.dst >= 0 /\ in.op # "const" /\ FoldOf(in).out \in Int
        BY <1>1, <2>1, FoldTyped
      <3>2. New(in) = make_const(in, FoldOf(in).out)
        BY <2>1
      <3> QED
        BY <1>1, <2>1, <3>1, <3>2, MakeConst
    <2>2. CASE ~FoldOf(in).ok
      BY <1>1, <2>2, ReplacesItself
    <2> QED
      BY <2>1, <2>2
  <1>2. constfold(f).f = [f EXCEPT !.blocks = blocks]
    BY DEF constfold
  <1>3. constfold(f).changed <=> \E in \in InstrsOf(f) : FoldOf(in).ok
    BY DEF constfold
  <1>4. /\ \A k, i : Place(f, k, i) => TypedInstr(f.blocks[k][i]) /\ f.blocks[k][i] \in InstrsOf(f)
        /\ \A in \in InstrsOf(f) : \E k, i : Place(f, k, i) /\ in = f.blocks[k][i]
    BY TypedInstructions, Zenon
  <1> HIDE DEF New
  <1>5. /\ blocks = [k \in DOMAIN f.blocks |-> [i \in DOMAIN f.blocks[k] |-> blocks[k][i]]]
        /\ \A k, i : Place(f, k, i) => blocks[k][i] = New(f.blocks[k][i])
    BY TypedInstructions DEF Laid, Place
  <1> HIDE DEF blocks
  <1>6. ASSUME NEW k, NEW i, Place(f, k, i)
        PROVE  /\ TypedInstr(blocks[k][i]) /\ Replaces(blocks[k][i], f.blocks[k][i])
               /\ TempsIn(blocks[k][i]) \subseteq TempsIn(f.blocks[k][i])
               /\ FoldOf(f.blocks[k][i]).ok <=> blocks[k][i] # f.blocks[k][i]
    <2>1. TypedInstr(f.blocks[k][i]) /\ blocks[k][i] = New(f.blocks[k][i])
      BY <1>4, <1>5, <1>6, Zenon
    <2>2. /\ TypedInstr(New(f.blocks[k][i])) /\ Replaces(New(f.blocks[k][i]), f.blocks[k][i])
          /\ TempsIn(New(f.blocks[k][i])) \subseteq TempsIn(f.blocks[k][i])
          /\ FoldOf(f.blocks[k][i]).ok <=> New(f.blocks[k][i]) # f.blocks[k][i]
      BY <1>1, <2>1, Zenon
    <2> QED
      BY <2>1, <2>2, Zenon
  <1>7. Rewritten(f, blocks)
    BY <1>5, <1>6, Zenon DEF Rewritten
  <1>8. /\ Sound([f EXCEPT !.blocks = blocks])
        /\ [f EXCEPT !.blocks = blocks] # f <=> Differ(f, blocks)
    <2>1. NoNewUses(f, blocks)
      BY <1>6, Zenon DEF NoNewUses
    <2> QED
      BY <1>7, <2>1, RewritingKeeps, Zenon
  <1>9. (\E in \in InstrsOf(f) : FoldOf(in).ok) <=> Differ(f, blocks)
    <2>1. ASSUME NEW in \in InstrsOf(f), FoldOf(in).ok
          PROVE  Differ(f, blocks)
      <3>1. PICK k, i : Place(f, k, i) /\ in = f.blocks[k][i]
        BY <1>4, Zenon
      <3>2. FoldOf(f.blocks[k][i]).ok
        BY <2>1, <3>1
      <3>3. blocks[k][i] # f.blocks[k][i]
        BY <1>6, <3>1, <3>2
      <3> QED
        BY <3>1, <3>3 DEF Differ
    <2>2. ASSUME Differ(f, blocks)
          PROVE  \E in \in InstrsOf(f) : FoldOf(in).ok
      <3>1. PICK k, i : Place(f, k, i) /\ blocks[k][i] # f.blocks[k][i]
        BY <2>2 DEF Differ
      <3>2. f.blocks[k][i] \in InstrsOf(f)
        BY <1>4, <3>1, Zenon
      <3> WITNESS f.blocks[k][i] \in InstrsOf(f)
      <3> QED
        BY <1>6, <3>1, Zenon
    <2> QED
      BY <2>1, <2>2
  <1> QED
    BY <1>2, <1>3, <1>8, <1>9

-----------------------------------------------------------------------------
(* Algebraic simplification.                                               *)

LEMMA SimplifiedTyped ==
  ASSUME NEW in, TypedInstr(in)
  PROVE  /\ TypedInstr(Simplified(in)) /\ Replaces(Simplified(in), in)
         /\ TempsIn(Simplified(in)) \subseteq TempsIn(in)
  <1> DEFINE a == in.args[1]
             b == in.args[2]
  <1>1. CASE in.dst < 0 \/ Len(in.args) # 2
    BY <1>1, ReplacesItself DEF Simplified
  <1>2. CASE ~(in.dst < 0) /\ Len(in.args) = 2
    <2>1. in.dst \in Int /\ in.args \in Seq(Values)
      BY DEF TypedInstr
    <2>2. DOMAIN in.args = 1 .. 2 /\ a \in Values /\ b \in Values
      BY <1>2, <2>1, ElementOfSeq, LenProperties
    <2>3. /\ is_temp(a) => a.n \in TempsIn(in) /\ a.n >= 0
          /\ is_temp(b) => b.n \in TempsIn(in) /\ b.n >= 0
      <3>1. (is_temp(a) => a.n \in TempsIn(in)) /\ (is_temp(b) => b.n \in TempsIn(in))
        BY <2>2 DEF TempsIn
      <3> QED
        BY <3>1 DEF TypedInstr
    <2>4. in.dst >= 0
      BY <1>2, <2>1
    <2>5. /\ TypedInstr(make_copy(in, a)) /\ Replaces(make_copy(in, a), in)
          /\ TempsIn(make_copy(in, a)) \subseteq TempsIn(in)
      BY <2>2, <2>3, <2>4, MakeCopy
    <2>6. /\ TypedInstr(make_copy(in, b)) /\ Replaces(make_copy(in, b), in)
          /\ TempsIn(make_copy(in, b)) \subseteq TempsIn(in)
      BY <2>2, <2>3, <2>4, MakeCopy
    <2>7. \A c \in {0, 1} : /\ TypedInstr(make_const(in, c)) /\ Replaces(make_const(in, c), in)
                            /\ TempsIn(make_const(in, c)) \subseteq TempsIn(in)
      BY <2>4, MakeConst
    <2>8. Simplified(in) \in {in, make_copy(in, a), make_copy(in, b), make_const(in, 0), make_const(in, 1)}
      BY <1>2, Zenon DEF Simplified
    <2> HIDE DEF a, b
    <2> QED
      BY <2>5, <2>6, <2>7, <2>8, ReplacesItself
  <1> QED
    BY <1>1, <1>2

LEMMA AlgebraicKeeps ==
  ASSUME NEW f, Sound(f)
  PROVE  Sound(algebraic(f).f) /\ (algebraic(f).changed <=> algebraic(f).f # f)
  <1> DEFINE blocks == [k \in DOMAIN f.blocks |-> [i \in DOMAIN f.blocks[k] |-> Simplified(f.blocks[k][i])]]
  <1>1. algebraic(f).f = [f EXCEPT !.blocks = blocks]
    BY DEF algebraic
  <1>2. algebraic(f).changed <=> \E in \in InstrsOf(f) : Simplified(in) # in
    BY DEF algebraic
  <1>3. /\ \A k, i : Place(f, k, i) => TypedInstr(f.blocks[k][i]) /\ f.blocks[k][i] \in InstrsOf(f)
        /\ \A in \in InstrsOf(f) : \E k, i : Place(f, k, i) /\ in = f.blocks[k][i]
    BY TypedInstructions, Zenon
  <1>4. /\ blocks = [k \in DOMAIN f.blocks |-> [i \in DOMAIN f.blocks[k] |-> blocks[k][i]]]
        /\ \A k, i : Place(f, k, i) => blocks[k][i] = Simplified(f.blocks[k][i])
    BY TypedInstructions DEF Laid, Place
  <1> HIDE DEF blocks
  <1>5. ASSUME NEW k, NEW i, Place(f, k, i)
        PROVE  /\ TypedInstr(blocks[k][i]) /\ Replaces(blocks[k][i], f.blocks[k][i])
               /\ TempsIn(blocks[k][i]) \subseteq TempsIn(f.blocks[k][i])
    <2>1. TypedInstr(f.blocks[k][i]) /\ blocks[k][i] = Simplified(f.blocks[k][i])
      BY <1>3, <1>4, <1>5, Zenon
    <2> QED
      BY <2>1, SimplifiedTyped
  <1>6. Rewritten(f, blocks)
    BY <1>4, <1>5, Zenon DEF Rewritten
  <1>7. /\ Sound([f EXCEPT !.blocks = blocks])
        /\ [f EXCEPT !.blocks = blocks] # f <=> Differ(f, blocks)
    <2>1. NoNewUses(f, blocks)
      BY <1>5, Zenon DEF NoNewUses
    <2> QED
      BY <1>6, <2>1, RewritingKeeps, Zenon
  <1>8. (\E in \in InstrsOf(f) : Simplified(in) # in) <=> Differ(f, blocks)
    <2>1. ASSUME NEW in \in InstrsOf(f), Simplified(in) # in
          PROVE  Differ(f, blocks)
      <3>1. PICK k, i : Place(f, k, i) /\ in = f.blocks[k][i]
        BY <1>3, Zenon
      <3> QED
        BY <1>4, <2>1, <3>1, Zenon DEF Differ
    <2>2. ASSUME Differ(f, blocks)
          PROVE  \E in \in InstrsOf(f) : Simplified(in) # in
      <3>1. PICK k, i : Place(f, k, i) /\ blocks[k][i] # f.blocks[k][i]
        BY <2>2 DEF Differ
      <3>2. f.blocks[k][i] \in InstrsOf(f)
        BY <1>3, <3>1, Zenon
      <3> WITNESS f.blocks[k][i] \in InstrsOf(f)
      <3> QED
        BY <1>4, <3>1, Zenon
    <2> QED
      BY <2>1, <2>2
  <1> QED
    BY <1>1, <1>2, <1>7, <1>8

-----------------------------------------------------------------------------
(* Constant and copy propagation: the values temps stand for.              *)

(* v can be used wherever t can: it is a constant, or a temp defined       *)
(* before every place that t is defined before.                            *)
StandsFor(f, v, t) ==
  /\ v \in Values
  /\ is_temp(v) =>
       /\ v.n >= 0
       /\ \A q : /\ q[1] \in ReachAvoiding(f, {0}, {}) /\ q[2] \in Int
                 /\ \E p \in DefsOf(f, t) : Before(f, p, q)
                 => \E p \in DefsOf(f, v.n) : Before(f, p, q)

LEMMA StandsForItself ==
  ASSUME NEW f, NEW t \in Int, t >= 0
  PROVE  StandsFor(f, Temp(t), t)
  <1>1. Temp(t) \in Values /\ Temp(t).n = t
    BY DEF Temp, Values
  <1> QED
    BY <1>1 DEF StandsFor

LEMMA StandsForTransitive ==
  ASSUME NEW f, NEW t, NEW v, NEW w, StandsFor(f, v, t), is_temp(v), StandsFor(f, w, v.n)
  PROVE  StandsFor(f, w, t)
  BY Zenon DEF StandsFor

(* The operand of a copy, and whatever is known to be defined before the   *)
(* place where a temp is, stands for the temp.                             *)
LEMMA DefinedThere ==
  ASSUME NEW f, Sound(f), NEW p0 \in Positions(f), NEW v \in Values, At(f, p0).dst # -1,
         is_temp(v) => v.n >= 0,
         is_temp(v) /\ p0[1] \in ReachAvoiding(f, {0}, {}) => \E p \in DefsOf(f, v.n) : Before(f, p, p0)
  PROVE  StandsFor(f, v, At(f, p0).dst)
  <1> DEFINE t == At(f, p0).dst
  <1> SUFFICES ASSUME is_temp(v), NEW q, q[1] \in ReachAvoiding(f, {0}, {}), q[2] \in Int,
                      \E p \in DefsOf(f, t) : Before(f, p, q)
               PROVE  \E p \in DefsOf(f, v.n) : Before(f, p, q)
    BY Zenon DEF StandsFor
  <1>1. Laid(f) /\ Len(f.blocks) \in Nat \ {0} /\ SingleAssignment(f)
    BY TypedIsLaid DEF Sound, Laid, WellFormed
  <1>2. DefsOf(f, t) = {p0}
    BY <1>1 DEF SingleAssignment
  <1>3. Before(f, p0, q)
    BY <1>2
  <1>4. p0[1] \in ReachAvoiding(f, {0}, {})
    BY <1>1, <1>3, BeforeReachable
  <1>5. PICK p \in DefsOf(f, v.n) : Before(f, p, p0)
    BY <1>4
  <1>6. p \in Positions(f)
    BY DEF DefsOf
  <1>7. p[2] \in Int /\ p0[2] \in Int
    BY <1>1, <1>6, PositionProperties
  <1>8. Before(f, p, q)
    BY <1>1, <1>3, <1>5, <1>7, BeforeTransitive
  <1> QED
    BY <1>5, <1>8

(* Uses are covered by definitions.                                        *)
LEMMA UsedIsDefined ==
  ASSUME NEW f, Sound(f), NEW q \in Positions(f), q[1] \in ReachAvoiding(f, {0}, {}), NEW t \in TempsIn(At(f, q))
  PROVE  \E p \in DefsOf(f, t) : Before(f, p, q)
  <1>1. f.blocks # <<>> /\ DefinedBeforeUse(f)
    BY DEF Sound, TypedFunction, WellFormed
  <1>2. q[1] \in reachable_blocks(f)
    BY <1>1 DEF reachable_blocks
  <1> QED
    BY <1>1, <1>2 DEF DefinedBeforeUse

(* What const and copy define.                                             *)
LEMMA DefMapProperties ==
  ASSUME NEW f, Sound(f)
  PROVE  /\ DOMAIN DefMap(f) \subseteq 0 .. f.next_temp - 1
         /\ \A t \in DOMAIN DefMap(f) : StandsFor(f, DefMap(f)[t], t)
  <1> SUFFICES ASSUME NEW t \in DOMAIN DefMap(f)
               PROVE  t \in 0 .. f.next_temp - 1 /\ StandsFor(f, DefMap(f)[t], t)
    BY Zenon
  <1>1. \E in \in CopyDefs(f) : in.dst = t
    BY DEF DefMap
  <1>2. PICK in \in CopyDefs(f) : in.dst = t /\ DefMap(f)[t] = in.args[1]
    <2> DEFINE in == CHOOSE in \in CopyDefs(f) : in.dst = t
    <2>1. in \in CopyDefs(f) /\ in.dst = t
      BY <1>1
    <2>2. DefMap(f)[t] = in.args[1]
      BY DEF DefMap
    <2> QED
      BY <2>1, <2>2
  <1>3. in \in InstrsOf(f) /\ in.dst >= 0 /\ in.op \in {"const", "copy"}
    BY DEF CopyDefs
  <1>4. PICK p0 \in Positions(f) : in = At(f, p0)
    BY <1>3 DEF InstrsOf
  <1>5. TypedInstr(in)
    BY <1>3, TypedInstructions
  <1>6. in.dst # -1 /\ Len(in.args) = 1 /\ in.args \in Seq(Values)
    BY <1>3, <1>5 DEF TypedInstr
  <1>7. t \in 0 .. f.next_temp - 1
    BY <1>2, <1>4, <1>6 DEF Sound, WellFormed, SingleAssignment
  <1>8. in.args[1] \in Values /\ (is_temp(in.args[1]) => in.args[1].n \in TempsIn(in))
    <2>1. 1 \in 1 .. Len(in.args) /\ DOMAIN in.args = 1 .. Len(in.args)
      BY <1>6
    <2> QED
      BY <1>6, <2>1, ElementOfSeq DEF TempsIn
  <1>9. is_temp(in.args[1]) => in.args[1].n >= 0
    BY <1>5, <1>8 DEF TypedInstr
  <1>10. StandsFor(f, in.args[1], t)
    <2>1. is_temp(in.args[1]) /\ p0[1] \in ReachAvoiding(f, {0}, {}) =>
            \E p \in DefsOf(f, in.args[1].n) : Before(f, p, p0)
      BY <1>4, <1>8, UsedIsDefined
    <2>2. At(f, p0).dst = t /\ At(f, p0).dst # -1
      BY <1>2, <1>4, <1>6
    <2> HIDE DEF Values
    <2>3. StandsFor(f, in.args[1], At(f, p0).dst)
      BY <1>8, <1>9, <2>1, <2>2, DefinedThere
    <2> QED
      BY <2>2, <2>3
  <1> QED
    BY <1>2, <1>7, <1>10

(* A recursive function is what its definition says.                       *)
LEMMA ChaseDef ==
  ASSUME NEW def, NEW t, Cardinality(DOMAIN def) \in Nat
  PROVE  Chase(def, t) =
           [n \in 0 .. Cardinality(DOMAIN def) |->
              IF n = 0 THEN Temp(t) ELSE Forward(def, Chase(def, t)[n - 1])]
  <1> DEFINE Unfolds(g, m) == g = [n \in 0 .. m |-> IF n = 0 THEN Temp(t) ELSE Forward(def, g[n - 1])]
             N == Cardinality(DOMAIN def)
             T == { m \in Nat : \E g : Unfolds(g, m) }
  <1>1. 0 \in T
    <2>1. Unfolds([n \in 0 .. 0 |-> Temp(t)], 0)
      OBVIOUS
    <2> QED
      BY <2>1
  <1>2. ASSUME NEW m \in T
        PROVE  m + 1 \in T
    <2>1. PICK g : Unfolds(g, m)
      OBVIOUS
    <2> DEFINE h == [n \in 0 .. m + 1 |-> IF n <= m THEN g[n] ELSE Forward(def, g[m])]
    <2>2. \A n \in 0 .. m : h[n] = g[n]
      OBVIOUS
    <2>3. h[m + 1] = Forward(def, h[m])
      OBVIOUS
    <2>4. \A n \in 0 .. m : g[n] = IF n = 0 THEN Temp(t) ELSE Forward(def, g[n - 1])
      BY <2>1
    <2>5. \A n \in 0 .. m + 1 : h[n] = IF n = 0 THEN Temp(t) ELSE Forward(def, h[n - 1])
      <3> HIDE DEF h
      <3> TAKE n \in 0 .. m + 1
      <3>1. CASE n = m + 1
        BY <3>1, <2>3
      <3>2. CASE n \in 1 .. m
        <4>1. n - 1 \in 0 .. m
          BY <3>2
        <4> QED
          BY <3>2, <4>1, <2>2, <2>4
      <3>3. CASE n = 0
        BY <3>3, <2>2, <2>4
      <3> QED
        BY <3>1, <3>2, <3>3
    <2>6. Unfolds(h, m + 1)
      BY <2>5
    <2> HIDE DEF h, Unfolds
    <2> QED
      BY <2>6
  <1>3. \E g : Unfolds(g, N)
    <2> HIDE DEF Unfolds
    <2>1. T = Nat
      <3> HIDE DEF T
      <3> QED
        BY <1>1, <1>2, Induction DEF T
    <2> QED
      BY <2>1
  <1>4. Chase(def, t) = CHOOSE g : Unfolds(g, N)
    BY DEF Chase
  <1>5. Unfolds(Chase(def, t), N)
    <2> HIDE DEF Unfolds
    <2> QED
      BY <1>3, <1>4
  <1> QED
    BY <1>5

LEMMA ResolvedStandsFor ==
  ASSUME NEW f, Sound(f)
  PROVE  \A t \in DOMAIN Resolved(DefMap(f)) : StandsFor(f, Resolved(DefMap(f))[t], t)
  <1> DEFINE def == DefMap(f)
             N == Cardinality(DOMAIN def)
  <1>1. DOMAIN def \subseteq 0 .. f.next_temp - 1 /\ \A t \in DOMAIN def : StandsFor(f, def[t], t)
    BY DefMapProperties
  <1> HIDE DEF def
  <1>2. f.next_temp \in Nat
    BY DEF Sound, TypedFunction
  <1>3. N \in Nat
    <2>1. IsFiniteSet(0 .. f.next_temp - 1)
      BY <1>2, FS_Interval
    <2> QED
      BY <1>1, <2>1, FS_Subset, FS_CardinalityType
  <1> SUFFICES ASSUME NEW t \in DOMAIN def PROVE StandsFor(f, Chase(def, t)[N], t)
    BY DEF Resolved, def
  <1> DEFINE c == Chase(def, t)
             T == { n \in 0 .. N : StandsFor(f, c[n], t) }
  <1>4. c = [n \in 0 .. N |-> IF n = 0 THEN Temp(t) ELSE Forward(def, c[n - 1])]
    BY <1>3, ChaseDef
  <1> HIDE DEF c, N
  <1>5. 0 \in T
    <2>1. t \in Int /\ t >= 0
      BY <1>1, <1>2
    <2>2. c[0] = Temp(t)
      BY <1>3, <1>4
    <2> QED
      BY <1>3, <2>1, <2>2, StandsForItself
  <1>6. ASSUME NEW n \in 0 .. N - 1, n \in T
        PROVE  n + 1 \in T
    <2>1. n + 1 \in 0 .. N
      BY <1>3
    <2>2. c[n + 1] = Forward(def, c[n])
      <3>1. n + 1 # 0 /\ (n + 1) - 1 = n
        BY <1>3
      <3> QED
        BY <1>4, <2>1, <3>1
    <2>3. StandsFor(f, c[n], t)
      BY <1>6
    <2>4. CASE is_temp(c[n]) /\ c[n].n \in DOMAIN def
      <3>1. c[n + 1] = def[c[n].n] /\ StandsFor(f, def[c[n].n], c[n].n)
        BY <1>1, <2>2, <2>4 DEF Forward
      <3>2. StandsFor(f, c[n + 1], t)
        BY <2>3, <2>4, <3>1, StandsForTransitive
      <3> QED
        BY <2>1, <3>2
    <2>5. CASE ~(is_temp(c[n]) /\ c[n].n \in DOMAIN def)
      <3>1. c[n + 1] = c[n]
        BY <2>2, <2>5 DEF Forward
      <3> QED
        BY <2>1, <2>3, <3>1
    <2> QED
      BY <2>4, <2>5
  <1>7. \A n \in 0 .. N : n \in T
    <2> HIDE DEF T
    <2> QED
      BY <1>3, <1>5, <1>6, BoundedInduction
  <1> QED
    BY <1>3, <1>7 DEF c

-----------------------------------------------------------------------------
(* Constant and copy propagation: the walk over the code.                  *)

(* What the walk knows of the temps is right.                              *)
TempsKnown(f, tv) == \A t \in DOMAIN tv : StandsFor(f, tv[t], t)

(* An instruction with its operands forwarded.                             *)
Forwarded(tv, in) == [in EXCEPT !.args = [i \in DOMAIN @ |-> Forward(tv, @[i])]]

LEMMA ForwardedTyped ==
  ASSUME NEW f, NEW tv, TempsKnown(f, tv), NEW in, TypedInstr(in)
  PROVE  /\ TypedInstr(Forwarded(tv, in)) /\ Replaces(Forwarded(tv, in), in)
         /\ \A t \in TempsIn(Forwarded(tv, in)) :
              \/ t \in TempsIn(in)
              \/ \E u \in TempsIn(in) : u \in DOMAIN tv /\ is_temp(tv[u]) /\ tv[u].n = t
         /\ Forwarded(tv, in).op = in.op /\ Len(Forwarded(tv, in).args) = Len(in.args)
  <1> DEFINE fwd == Forwarded(tv, in)
             n == Len(in.args)
  <1>1. /\ in \in [op : Ops, dst : Int, args : Seq(Values), slot : Int, callee : {in.callee},
                   bb_true : Int, bb_false : Int]
        /\ \A t \in TempsIn(in) : t >= 0
    BY DEF TypedInstr
  <1>2. n \in Nat /\ DOMAIN in.args = 1 .. n /\ in.args \in Seq(Values)
    BY <1>1
  <1>3. \A i \in 1 .. n : in.args[i] \in Values
    BY <1>2, ElementOfSeq
  <1>4. fwd = [in EXCEPT !.args = [i \in 1 .. n |-> Forward(tv, in.args[i])]]
    BY <1>2 DEF Forwarded
  <1>5. fwd.args = [i \in 1 .. n |-> Forward(tv, in.args[i])]
    BY <1>1, <1>4
  <1>6. ASSUME NEW i \in 1 .. n
        PROVE  /\ Forward(tv, in.args[i]) \in Values
               /\ is_temp(Forward(tv, in.args[i])) =>
                    \/ is_temp(in.args[i]) /\ Forward(tv, in.args[i]).n \in TempsIn(in)
                    \/ \E u \in TempsIn(in) : u \in DOMAIN tv /\ is_temp(tv[u]) /\ tv[u].n = Forward(tv, in.args[i]).n
    <2>1. is_temp(in.args[i]) => in.args[i].n \in TempsIn(in)
      BY <1>2 DEF TempsIn
    <2>2. CASE is_temp(in.args[i]) /\ in.args[i].n \in DOMAIN tv
      <3>1. Forward(tv, in.args[i]) = tv[in.args[i].n]
        BY <2>2 DEF Forward
      <3> QED
        BY <2>1, <2>2, <3>1 DEF StandsFor, TempsKnown
    <2>3. CASE ~(is_temp(in.args[i]) /\ in.args[i].n \in DOMAIN tv)
      <3>1. Forward(tv, in.args[i]) = in.args[i]
        BY <2>3 DEF Forward
      <3> QED
        BY <1>3, <2>1, <3>1
    <2> QED
      BY <2>2, <2>3
  <1>7. fwd.args \in Seq(Values) /\ Len(fwd.args) = n /\ DOMAIN fwd.args = 1 .. n
    <2> HIDE DEF Values, fwd
    <2>1. fwd.args \in [1 .. n -> Values]
      BY <1>5, <1>6
    <2> HIDE DEF n
    <2>2. fwd.args \in Seq(Values)
      BY <1>2, <2>1, SeqDef
    <2>3. DOMAIN fwd.args = 1 .. n
      BY <2>1
    <2> QED
      BY <1>2, <2>2, <2>3, LenProperties
  <1>8. /\ fwd \in [op : Ops, dst : Int, args : Seq(Values), slot : Int, callee : {fwd.callee},
                    bb_true : Int, bb_false : Int]
        /\ fwd.op = in.op /\ fwd.dst = in.dst /\ fwd.slot = in.slot
        /\ fwd.bb_true = in.bb_true /\ fwd.bb_false = in.bb_false
    <2> DEFINE args == [i \in 1 .. n |-> Forward(tv, in.args[i])]
    <2>1. args \in Seq(Values)
      BY <1>5, <1>7
    <2> HIDE DEF args, Values, n
    <2>2. fwd = [in EXCEPT !.args = args]
      BY <1>4 DEF args
    <2> HIDE DEF fwd
    <2> QED
      BY <1>1, <2>1, <2>2
  <1> HIDE DEF fwd, n
  <1>9. ASSUME NEW t \in TempsIn(fwd)
        PROVE  \/ t \in TempsIn(in)
               \/ \E u \in TempsIn(in) : u \in DOMAIN tv /\ is_temp(tv[u]) /\ tv[u].n = t
    <2>1. PICK i \in 1 .. n : is_temp(fwd.args[i]) /\ fwd.args[i].n = t
      BY <1>7 DEF TempsIn
    <2>2. fwd.args[i] = Forward(tv, in.args[i])
      BY <1>5
    <2> QED
      BY <1>6, <2>1, <2>2
  <1>10. \A t \in TempsIn(fwd) : t >= 0
    BY <1>1, <1>9 DEF StandsFor, TempsKnown
  <1>11. TypedInstr(fwd)
    <2>1. /\ in.op \in {"const", "copy", "store"} => Len(in.args) = 1
          /\ in.op \in {"const", "copy", "load"} => in.dst # -1
          /\ in.op = "store" \/ op_is_terminator(in.op) => in.dst = -1
      BY DEF TypedInstr
    <2> HIDE DEF Values
    <2>2. /\ fwd.op \in {"const", "copy", "store"} => Len(fwd.args) = 1
          /\ fwd.op \in {"const", "copy", "load"} => fwd.dst # -1
          /\ fwd.op = "store" \/ op_is_terminator(fwd.op) => fwd.dst = -1
      BY <1>7, <1>8, <2>1 DEF n
    <2> QED
      BY <1>8, <1>10, <2>2, Zenon DEF TypedInstr
  <1>12. Replaces(fwd, in)
    BY <1>8 DEF Replaces
  <1> QED
    BY <1>7, <1>8, <1>9, <1>11, <1>12 DEF fwd, n

(* The value v can be used at instruction i of block k.                    *)
KnownAt(f, v, k, i) ==
  /\ v \in Values
  /\ is_temp(v) => v.n >= 0 /\ (k - 1 \in ReachAvoiding(f, {0}, {}) =>
                                  \E p \in DefsOf(f, v.n) : Before(f, p, <<k - 1, i>>))

(* The instruction that took the place of instruction i of block k.        *)
Done(f, k, i, new) ==
  /\ TypedInstr(new) /\ Replaces(new, f.blocks[k][i])
  /\ k - 1 \in ReachAvoiding(f, {0}, {}) =>
       \A t \in TempsIn(new) : \E p \in DefsOf(f, t) : Before(f, p, <<k - 1, i>>)

LEMMA KnownLater ==
  ASSUME NEW f, Laid(f), NEW v, NEW k, NEW i \in Nat, KnownAt(f, v, k, i)
  PROVE  KnownAt(f, v, k, i + 1)
  <1> SUFFICES ASSUME is_temp(v), k - 1 \in ReachAvoiding(f, {0}, {})
               PROVE  \E p \in DefsOf(f, v.n) : Before(f, p, <<k - 1, i + 1>>)
    BY DEF KnownAt
  <1>1. PICK p \in DefsOf(f, v.n) : Before(f, p, <<k - 1, i>>)
    BY DEF KnownAt
  <1>2. p[2] \in Nat
    BY PositionProperties DEF DefsOf
  <1>3. Before(f, p, <<k - 1, i + 1>>)
    BY <1>1, <1>2 DEF Before
  <1> QED
    BY <1>3

LEMMA ForwardedDone ==
  ASSUME NEW f, Sound(f), NEW tv, TempsKnown(f, tv), NEW k, NEW i, Place(f, k, i)
  PROVE  Done(f, k, i, Forwarded(tv, f.blocks[k][i]))
  <1> DEFINE in == f.blocks[k][i]
             fwd == Forwarded(tv, in)
             q == <<k - 1, i>>
  <1>1. Laid(f) /\ TypedInstr(in)
    BY TypedInstructions
  <1>2. q \in Positions(f) /\ At(f, q) = in /\ q[2] \in Int
    BY <1>1, PositionProperties DEF Place
  <1>3. /\ TypedInstr(fwd) /\ Replaces(fwd, in)
        /\ \A t \in TempsIn(fwd) :
             \/ t \in TempsIn(in)
             \/ \E u \in TempsIn(in) : u \in DOMAIN tv /\ is_temp(tv[u]) /\ tv[u].n = t
    <2> HIDE DEF in
    <2> QED
      BY <1>1, ForwardedTyped
  <1> HIDE DEF fwd
  <1>4. ASSUME k - 1 \in ReachAvoiding(f, {0}, {}), NEW t \in TempsIn(fwd)
        PROVE  \E p \in DefsOf(f, t) : Before(f, p, q)
    <2>1. CASE t \in TempsIn(in)
      BY <1>2, <1>4, <2>1, UsedIsDefined
    <2>2. CASE t \notin TempsIn(in)
      <3>1. PICK u \in TempsIn(in) : u \in DOMAIN tv /\ is_temp(tv[u]) /\ tv[u].n = t
        BY <1>3, <2>2
      <3>2. \E p \in DefsOf(f, u) : Before(f, p, q)
        BY <1>2, <1>4, UsedIsDefined
      <3>3. q[1] \in ReachAvoiding(f, {0}, {}) /\ q[2] \in Int
        BY <1>2, <1>4
      <3>4. StandsFor(f, tv[u], u)
        BY <3>1 DEF TempsKnown
      <3> HIDE DEF q, in
      <3> QED
        BY <3>1, <3>2, <3>3, <3>4 DEF StandsFor
    <2> QED
      BY <2>1, <2>2
  <1> QED
    BY <1>3, <1>4 DEF Done, fwd

LEMMA Appended ==
  ASSUME NEW n \in Nat, NEW s, s = [j \in 1 .. n |-> s[j]], NEW x
  PROVE  /\ Append(s, x) = [j \in 1 .. n + 1 |-> Append(s, x)[j]]
         /\ \A j \in 1 .. n : Append(s, x)[j] = s[j]
         /\ Append(s, x)[n + 1] = x
  <1> DEFINE S == { s[j] : j \in DOMAIN s } \cup {x}
  <1>1. IsSequence(s) /\ Len(s) = n
    BY SequenceMade
  <1>2. s \in Seq(S)
    BY <1>1 DEF IsSequence
  <1>3. x \in S
    OBVIOUS
  <1> HIDE DEF S
  <1> QED
    BY <1>1, <1>2, <1>3, AppendProperties, LenProperties

(* After i instructions of block k: what is known of the temps and slots   *)
(* is right, and the instructions so far may replace those of the block.   *)
WalkedTo(f, k, changed, i, st) ==
  /\ TempsKnown(f, st.tv)
  /\ \A s \in DOMAIN st.slots : KnownAt(f, st.slots[s], k, i + 1)
  /\ st.code = [j \in 1 .. i |-> st.code[j]]
  /\ \A j \in 1 .. i : Done(f, k, j, st.code[j])
  /\ st.changed <=> changed \/ \E j \in 1 .. i : st.code[j] # f.blocks[k][j]

(* One instruction of the walk, case by case.                              *)
Known(st, in) == in.op = "load" /\ in.slot \in DOMAIN st.slots
Slotted(v, in) == IF is_const(v) THEN make_const(in, v.n) ELSE make_copy(in, v)

LEMMA PropInstrIs ==
  ASSUME NEW st, NEW in
  PROVE  /\ PropInstr(st, in).tv = IF Known(st, in) THEN With(st.tv, in.dst, st.slots[in.slot]) ELSE st.tv
         /\ in.op = "store" => PropInstr(st, in).slots = With(st.slots, in.slot, Forwarded(st.tv, in).args[1])
         /\ in.op = "load" /\ ~Known(st, in) => PropInstr(st, in).slots = With(st.slots, in.slot, Temp(in.dst))
         /\ in.op # "store" /\ (in.op # "load" \/ Known(st, in)) => PropInstr(st, in).slots = st.slots
         /\ PropInstr(st, in).changed <=> st.changed \/ Known(st, in) \/ Forwarded(st.tv, in) # in
         /\ PropInstr(st, in).code =
              Append(st.code, IF Known(st, in) THEN Slotted(st.slots[in.slot], in) ELSE Forwarded(st.tv, in))
  <1>1. PropInstr(st, in).tv = IF Known(st, in) THEN With(st.tv, in.dst, st.slots[in.slot]) ELSE st.tv
    BY DEF PropInstr, Known
  <1>2. PropInstr(st, in).slots =
          CASE in.op = "store" -> With(st.slots, in.slot, Forwarded(st.tv, in).args[1])
            [] in.op = "load" /\ ~Known(st, in) -> With(st.slots, in.slot, Temp(in.dst))
            [] OTHER -> st.slots
    BY DEF PropInstr, Known, Forwarded
  <1>3. PropInstr(st, in).changed <=> st.changed \/ Known(st, in) \/ Forwarded(st.tv, in) # in
    BY DEF PropInstr, Known, Forwarded
  <1>4. PropInstr(st, in).code =
          Append(st.code, IF Known(st, in) THEN Slotted(st.slots[in.slot], in) ELSE Forwarded(st.tv, in))
    BY DEF PropInstr, Known, Forwarded, Slotted
  <1> QED
    BY <1>1, <1>2, <1>3, <1>4

LEMMA WithProperties ==
  ASSUME NEW map, NEW x, NEW v
  PROVE  \A y \in DOMAIN With(map, x, v) : \/ y = x /\ With(map, x, v)[y] = v
                                           \/ y \in DOMAIN map /\ With(map, x, v)[y] = map[y]
  BY DEF With

LEMMA SlottedDone ==
  ASSUME NEW f, Sound(f), NEW v, NEW k, NEW i, Place(f, k, i), KnownAt(f, v, k, i), f.blocks[k][i].op = "load"
  PROVE  /\ Done(f, k, i, Slotted(v, f.blocks[k][i])) /\ Slotted(v, f.blocks[k][i]) # f.blocks[k][i]
         /\ StandsFor(f, v, f.blocks[k][i].dst)
  <1> DEFINE in == f.blocks[k][i]
             q == <<k - 1, i>>
  <1>1. Laid(f) /\ TypedInstr(in)
    BY TypedInstructions
  <1>2. q \in Positions(f) /\ At(f, q) = in /\ q[1] = k - 1
    BY <1>1, PositionProperties DEF Place
  <1>3. in.dst # -1 /\ in.dst \in Int
    BY <1>1 DEF TypedInstr
  <1>4. in.dst >= 0
    <2>1. SingleAssignment(f)
      BY DEF Sound, WellFormed
    <2>2. in.dst \in 0 .. f.next_temp - 1
      BY <1>2, <1>3, <2>1 DEF SingleAssignment
    <2> QED
      BY <2>2
  <1>5. v \in Values /\ (is_temp(v) => v.n >= 0) /\ v.n \in Int /\ (is_const(v) \/ is_temp(v))
    BY DEF KnownAt, Values, is_const, is_temp
  <1>6. is_temp(v) /\ k - 1 \in ReachAvoiding(f, {0}, {}) => \E p \in DefsOf(f, v.n) : Before(f, p, q)
    BY DEF KnownAt
  <1> HIDE DEF in, q, Values
  <1>7. StandsFor(f, v, in.dst)
    <2>1. At(f, q).dst # -1 /\ (is_temp(v) /\ q[1] \in ReachAvoiding(f, {0}, {}) => \E p \in DefsOf(f, v.n) : Before(f, p, q))
      BY <1>2, <1>3, <1>6
    <2>2. StandsFor(f, v, At(f, q).dst)
      BY <1>2, <1>5, <2>1, DefinedThere
    <2> QED
      BY <1>2, <2>2
  <1>8. CASE is_const(v)
    <2>1. Slotted(v, in) = make_const(in, v.n)
      BY <1>8 DEF Slotted
    <2>2. /\ TypedInstr(make_const(in, v.n)) /\ Replaces(make_const(in, v.n), in)
          /\ TempsIn(make_const(in, v.n)) = {} /\ make_const(in, v.n).op = "const"
      BY <1>1, <1>4, <1>5, MakeConst
    <2> QED
      BY <1>7, <2>1, <2>2 DEF in, Done
  <1>9. CASE ~is_const(v)
    <2>1. Slotted(v, in) = make_copy(in, v)
      BY <1>9 DEF Slotted
    <2>2. /\ TypedInstr(make_copy(in, v)) /\ Replaces(make_copy(in, v), in)
          /\ \A t \in TempsIn(make_copy(in, v)) : is_temp(v) /\ t = v.n
          /\ make_copy(in, v).op = "copy"
      BY <1>1, <1>4, <1>5, MakeCopy
    <2> QED
      BY <1>6, <1>7, <2>1, <2>2 DEF in, q, Done
  <1> QED
    BY <1>8, <1>9

(* Recursive functions are what their definitions say.                     *)
LEMMA WalkDef ==
  ASSUME NEW acc, NEW block, Len(block) \in Nat
  PROVE  Walk(acc, block) = 
           [n \in 0 .. Len(block) |->
              IF n = 0 THEN [tv |-> acc.tv, slots |-> <<>>, changed |-> acc.changed, code |-> <<>>]
              ELSE PropInstr(Walk(acc, block)[n - 1], block[n])]
  <1> DEFINE Start == [tv |-> acc.tv, slots |-> <<>>, changed |-> acc.changed, code |-> <<>>]
             Step(s, n) == PropInstr(s, block[n])
             Unfolds(g, m) == g = [n \in 0 .. m |-> IF n = 0 THEN Start ELSE Step(g[n - 1], n)]
             N == Len(block)
             T == { m \in Nat : \E g : Unfolds(g, m) }
  <1> HIDE DEF Start, Step
  <1>1. 0 \in T
    <2>1. Unfolds([n \in 0 .. 0 |-> Start], 0)
      OBVIOUS
    <2> QED
      BY <2>1
  <1>2. ASSUME NEW m \in T
        PROVE  m + 1 \in T
    <2>1. PICK g : Unfolds(g, m)
      OBVIOUS
    <2> DEFINE h == [n \in 0 .. m + 1 |-> IF n <= m THEN g[n] ELSE Step(g[m], n)]
    <2>2. \A n \in 0 .. m : h[n] = g[n]
      OBVIOUS
    <2>3. h[m + 1] = Step(h[m], m + 1)
      OBVIOUS
    <2>4. \A n \in 0 .. m : g[n] = IF n = 0 THEN Start ELSE Step(g[n - 1], n)
      BY <2>1
    <2>5. \A n \in 0 .. m + 1 : h[n] = IF n = 0 THEN Start ELSE Step(h[n - 1], n)
      <3> HIDE DEF h
      <3> TAKE n \in 0 .. m + 1
      <3>1. CASE n = m + 1
        BY <3>1, <2>3
      <3>2. CASE n \in 1 .. m
        <4>1. n - 1 \in 0 .. m
          BY <3>2
        <4> QED
          BY <3>2, <4>1, <2>2, <2>4
      <3>3. CASE n = 0
        BY <3>3, <2>2, <2>4
      <3> QED
        BY <3>1, <3>2, <3>3
    <2>6. Unfolds(h, m + 1)
      BY <2>5
    <2> HIDE DEF h, Unfolds
    <2> QED
      BY <2>6
  <1>3. \E g : Unfolds(g, N)
    <2> HIDE DEF Unfolds
    <2>1. T = Nat
      <3> HIDE DEF T
      <3> QED
        BY <1>1, <1>2, Induction DEF T
    <2> QED
      BY <2>1
  <1>4. Walk(acc, block) = CHOOSE g : Unfolds(g, N)
    BY DEF Walk, Start, Step
  <1>5. Unfolds(Walk(acc, block), N)
    <2> HIDE DEF Unfolds
    <2> QED
      BY <1>3, <1>4
  <1> QED
    BY <1>5 DEF Start, Step

LEMMA WalkBlocksDef ==
  ASSUME NEW f, Len(f.blocks) \in Nat
  PROVE  WalkBlocks(f) = 
           [n \in 0 .. Len(f.blocks) |->
              IF n = 0 THEN [tv |-> Resolved(DefMap(f)), changed |-> FALSE, blocks |-> <<>>]
              ELSE PropBlock(WalkBlocks(f)[n - 1], f.blocks[n])]
  <1> DEFINE Start == [tv |-> Resolved(DefMap(f)), changed |-> FALSE, blocks |-> <<>>]
             Step(s, n) == PropBlock(s, f.blocks[n])
             Unfolds(g, m) == g = [n \in 0 .. m |-> IF n = 0 THEN Start ELSE Step(g[n - 1], n)]
             N == Len(f.blocks)
             T == { m \in Nat : \E g : Unfolds(g, m) }
  <1> HIDE DEF Start, Step
  <1>1. 0 \in T
    <2>1. Unfolds([n \in 0 .. 0 |-> Start], 0)
      OBVIOUS
    <2> QED
      BY <2>1
  <1>2. ASSUME NEW m \in T
        PROVE  m + 1 \in T
    <2>1. PICK g : Unfolds(g, m)
      OBVIOUS
    <2> DEFINE h == [n \in 0 .. m + 1 |-> IF n <= m THEN g[n] ELSE Step(g[m], n)]
    <2>2. \A n \in 0 .. m : h[n] = g[n]
      OBVIOUS
    <2>3. h[m + 1] = Step(h[m], m + 1)
      OBVIOUS
    <2>4. \A n \in 0 .. m : g[n] = IF n = 0 THEN Start ELSE Step(g[n - 1], n)
      BY <2>1
    <2>5. \A n \in 0 .. m + 1 : h[n] = IF n = 0 THEN Start ELSE Step(h[n - 1], n)
      <3> HIDE DEF h
      <3> TAKE n \in 0 .. m + 1
      <3>1. CASE n = m + 1
        BY <3>1, <2>3
      <3>2. CASE n \in 1 .. m
        <4>1. n - 1 \in 0 .. m
          BY <3>2
        <4> QED
          BY <3>2, <4>1, <2>2, <2>4
      <3>3. CASE n = 0
        BY <3>3, <2>2, <2>4
      <3> QED
        BY <3>1, <3>2, <3>3
    <2>6. Unfolds(h, m + 1)
      BY <2>5
    <2> HIDE DEF h, Unfolds
    <2> QED
      BY <2>6
  <1>3. \E g : Unfolds(g, N)
    <2> HIDE DEF Unfolds
    <2>1. T = Nat
      <3> HIDE DEF T
      <3> QED
        BY <1>1, <1>2, Induction DEF T
    <2> QED
      BY <2>1
  <1>4. WalkBlocks(f) = CHOOSE g : Unfolds(g, N)
    BY DEF WalkBlocks, Start, Step
  <1>5. Unfolds(WalkBlocks(f), N)
    <2> HIDE DEF Unfolds
    <2> QED
      BY <1>3, <1>4
  <1> QED
    BY <1>5 DEF Start, Step

(* What a store or a first load leaves known of its slot.                  *)
LEMMA StoredKnown ==
  ASSUME NEW f, Sound(f), NEW tv, TempsKnown(f, tv), NEW k, NEW i \in Nat, Place(f, k, i),
         f.blocks[k][i].op = "store"
  PROVE  KnownAt(f, Forwarded(tv, f.blocks[k][i]).args[1], k, i + 1)
  <1> DEFINE in == f.blocks[k][i]
             fwd == Forwarded(tv, in)
             v == fwd.args[1]
  <1>1. Laid(f) /\ TypedInstr(in)
    BY TypedInstructions
  <1>2. Done(f, k, i, fwd) /\ fwd.op = in.op
    <2>1. Done(f, k, i, fwd)
      BY ForwardedDone
    <2> HIDE DEF in
    <2>2. fwd.op = in.op
      BY <1>1, ForwardedTyped
    <2> QED
      BY <2>1, <2>2
  <1> HIDE DEF fwd
  <1>3. fwd.args \in Seq(Values) /\ Len(fwd.args) = 1 /\ \A t \in TempsIn(fwd) : t >= 0
    BY <1>2 DEF Done, TypedInstr
  <1>4. v \in Values /\ (is_temp(v) => v.n \in TempsIn(fwd))
    <2>1. 1 \in 1 .. Len(fwd.args) /\ DOMAIN fwd.args = 1 .. Len(fwd.args)
      BY <1>3
    <2> QED
      BY <1>3, <2>1, ElementOfSeq DEF TempsIn
  <1>5. KnownAt(f, v, k, i)
    BY <1>2, <1>3, <1>4 DEF Done, KnownAt
  <1> QED
    BY <1>1, <1>5, KnownLater DEF fwd

LEMMA LoadedKnown ==
  ASSUME NEW f, Sound(f), NEW k, NEW i \in Nat, Place(f, k, i), f.blocks[k][i].op = "load"
  PROVE  KnownAt(f, Temp(f.blocks[k][i].dst), k, i + 1)
  <1> DEFINE in == f.blocks[k][i]
             q == <<k - 1, i>>
  <1>1. Laid(f) /\ TypedInstr(in) /\ SingleAssignment(f)
    BY TypedInstructions DEF Sound, WellFormed
  <1>2. q \in Positions(f) /\ At(f, q) = in
    BY <1>1, PositionProperties DEF Place
  <1>3. in.dst # -1 /\ in.dst \in Int
    BY <1>1 DEF TypedInstr
  <1>4. in.dst >= 0
    <2>1. in.dst \in 0 .. f.next_temp - 1
      BY <1>1, <1>2, <1>3 DEF SingleAssignment
    <2> QED
      BY <2>1
  <1>5. q \in DefsOf(f, in.dst)
    BY <1>2 DEF DefsOf
  <1>6. Before(f, q, <<k - 1, i + 1>>)
    BY DEF Before
  <1>7. Temp(in.dst) \in Values /\ Temp(in.dst).n = in.dst
    BY <1>3 DEF Temp, Values
  <1> HIDE DEF in, q, Values
  <1> QED
    BY <1>4, <1>5, <1>6, <1>7 DEF KnownAt, in

LEMMA WalkStep ==
  ASSUME NEW f, Sound(f), NEW k \in 1 .. Len(f.blocks), NEW changed, NEW i \in 0 .. Len(f.blocks[k]) - 1,
         NEW st, WalkedTo(f, k, changed, i, st)
  PROVE  WalkedTo(f, k, changed, i + 1, PropInstr(st, f.blocks[k][i + 1]))
  <1> DEFINE in == f.blocks[k][i + 1]
             next == PropInstr(st, in)
             fwd == Forwarded(st.tv, in)
             new == IF Known(st, in) THEN Slotted(st.slots[in.slot], in) ELSE fwd
  <1>0. Laid(f) /\ Len(f.blocks[k]) \in Nat
    BY TypedIsLaid DEF Sound, Laid
  <1>1. Place(f, k, i + 1) /\ i \in Nat /\ i + 1 \in Nat
    BY <1>0 DEF Place
  <1>2. /\ TempsKnown(f, st.tv)
        /\ \A s \in DOMAIN st.slots : KnownAt(f, st.slots[s], k, i + 1)
        /\ st.code = [j \in 1 .. i |-> st.code[j]]
        /\ \A j \in 1 .. i : Done(f, k, j, st.code[j])
        /\ st.changed <=> changed \/ \E j \in 1 .. i : st.code[j] # f.blocks[k][j]
    BY DEF WalkedTo
  <1>3. Known(st, in) => /\ in.op = "load"
                         /\ Done(f, k, i + 1, Slotted(st.slots[in.slot], in)) /\ Slotted(st.slots[in.slot], in) # in
                         /\ StandsFor(f, st.slots[in.slot], in.dst)
    BY <1>1, <1>2, SlottedDone DEF Known
  <1>4. Done(f, k, i + 1, fwd)
    BY <1>1, <1>2, ForwardedDone
  <1>5. in.op = "store" => KnownAt(f, fwd.args[1], k, (i + 1) + 1)
    BY <1>1, <1>2, StoredKnown
  <1>6. in.op = "load" => KnownAt(f, Temp(in.dst), k, (i + 1) + 1)
    BY <1>1, LoadedKnown
  <1>7. /\ next.tv = IF Known(st, in) THEN With(st.tv, in.dst, st.slots[in.slot]) ELSE st.tv
        /\ in.op = "store" => next.slots = With(st.slots, in.slot, fwd.args[1])
        /\ in.op = "load" /\ ~Known(st, in) => next.slots = With(st.slots, in.slot, Temp(in.dst))
        /\ in.op # "store" /\ (in.op # "load" \/ Known(st, in)) => next.slots = st.slots
        /\ next.changed <=> st.changed \/ Known(st, in) \/ fwd # in
        /\ next.code = Append(st.code, new)
    BY PropInstrIs
  <1> HIDE DEF next, fwd, in
  <1>8. TempsKnown(f, next.tv)
    <2>1. CASE Known(st, in)
      <3> SUFFICES ASSUME NEW t \in DOMAIN next.tv PROVE StandsFor(f, next.tv[t], t)
        BY DEF TempsKnown
      <3>1. next.tv = With(st.tv, in.dst, st.slots[in.slot])
        BY <1>7, <2>1
      <3>2. \/ t = in.dst /\ next.tv[t] = st.slots[in.slot]
            \/ t \in DOMAIN st.tv /\ next.tv[t] = st.tv[t]
        BY <3>1, WithProperties
      <3> QED
        BY <1>2, <1>3, <2>1, <3>2 DEF TempsKnown
    <2>2. CASE ~Known(st, in)
      BY <1>2, <1>7, <2>2
    <2> QED
      BY <2>1, <2>2
  <1>9. ASSUME NEW s \in DOMAIN next.slots
        PROVE  KnownAt(f, next.slots[s], k, (i + 1) + 1)
    <2>1. ASSUME s \in DOMAIN st.slots, next.slots[s] = st.slots[s]
          PROVE  KnownAt(f, next.slots[s], k, (i + 1) + 1)
      BY <1>0, <1>1, <1>2, <2>1, KnownLater
    <2>2. CASE in.op = "store"
      <3>1. next.slots = With(st.slots, in.slot, fwd.args[1])
        BY <1>7, <2>2
      <3>2. \/ s = in.slot /\ next.slots[s] = fwd.args[1]
            \/ s \in DOMAIN st.slots /\ next.slots[s] = st.slots[s]
        BY <3>1, WithProperties
      <3> QED
        BY <1>5, <2>1, <2>2, <3>2
    <2>3. CASE in.op = "load" /\ ~Known(st, in)
      <3>1. next.slots = With(st.slots, in.slot, Temp(in.dst))
        BY <1>7, <2>3
      <3>2. \/ s = in.slot /\ next.slots[s] = Temp(in.dst)
            \/ s \in DOMAIN st.slots /\ next.slots[s] = st.slots[s]
        BY <3>1, WithProperties
      <3> QED
        BY <1>6, <2>1, <2>3, <3>2
    <2>4. CASE in.op # "store" /\ (in.op # "load" \/ Known(st, in))
      BY <1>7, <2>1, <2>4
    <2> QED
      BY <2>2, <2>3, <2>4
  <1>10. /\ next.code = [j \in 1 .. i + 1 |-> next.code[j]]
         /\ \A j \in 1 .. i : next.code[j] = st.code[j]
         /\ next.code[i + 1] = new
    <2> HIDE DEF new
    <2> QED
      BY <1>1, <1>2, <1>7, Appended
  <1>11. Done(f, k, i + 1, new) /\ (new # in <=> Known(st, in) \/ fwd # in)
    BY <1>3, <1>4
  <1> HIDE DEF new
  <1>12. \A j \in 1 .. i + 1 : Done(f, k, j, next.code[j])
    <2> TAKE j \in 1 .. i + 1
    <2>1. CASE j \in 1 .. i
      BY <1>2, <1>10, <2>1
    <2>2. CASE j = i + 1
      BY <1>10, <1>11, <2>2
    <2> QED
      BY <1>1, <2>1, <2>2
  <1>13. next.changed <=> changed \/ \E j \in 1 .. i + 1 : next.code[j] # f.blocks[k][j]
    <2>1. (\E j \in 1 .. i + 1 : next.code[j] # f.blocks[k][j]) <=>
            (\E j \in 1 .. i : st.code[j] # f.blocks[k][j]) \/ new # in
      <3>1. ASSUME NEW j \in 1 .. i + 1
            PROVE  \/ j \in 1 .. i /\ next.code[j] = st.code[j]
                   \/ j = i + 1 /\ next.code[j] = new
        <4>1. j \in 1 .. i \/ j = i + 1
          BY <1>1
        <4> QED
          BY <1>10, <4>1, Zenon
      <3>2. \A j \in 1 .. i : j \in 1 .. i + 1 /\ next.code[j] = st.code[j]
        <4>1. \A j \in 1 .. i : j \in 1 .. i + 1
          BY <1>1
        <4> QED
          BY <1>10, <4>1, Zenon
      <3>3. i + 1 \in 1 .. i + 1 /\ next.code[i + 1] = new
        BY <1>1, <1>10
      <3> QED
        BY <3>1, <3>2, <3>3, Zenon DEF in
    <2> QED
      BY <1>2, <1>7, <1>11, <2>1, Zenon
  <1> QED
    BY <1>8, <1>9, <1>10, <1>12, <1>13 DEF WalkedTo, TempsKnown, next, in

LEMMA WalkKeeps ==
  ASSUME NEW f, Sound(f), NEW k \in 1 .. Len(f.blocks), NEW acc, TempsKnown(f, acc.tv)
  PROVE  WalkedTo(f, k, acc.changed, Len(f.blocks[k]), Walk(acc, f.blocks[k])[Len(f.blocks[k])])
  <1> DEFINE N == Len(f.blocks[k])
             w == Walk(acc, f.blocks[k])
             T == { i \in 0 .. N : WalkedTo(f, k, acc.changed, i, w[i]) }
  <1>1. N \in Nat
    BY TypedIsLaid DEF Sound, Laid
  <1>2. w = [n \in 0 .. N |->
               IF n = 0 THEN [tv |-> acc.tv, slots |-> <<>>, changed |-> acc.changed, code |-> <<>>]
               ELSE PropInstr(w[n - 1], f.blocks[k][n])]
    BY <1>1, WalkDef
  <1> HIDE DEF w
  <1>3. 0 \in T
    <2>1. w[0] = [tv |-> acc.tv, slots |-> <<>>, changed |-> acc.changed, code |-> <<>>]
      BY <1>1, <1>2
    <2>2. w[0].tv = acc.tv /\ w[0].slots = <<>> /\ w[0].changed = acc.changed /\ w[0].code = <<>>
      BY <2>1
    <2>3. DOMAIN w[0].slots = {} /\ w[0].code = [j \in 1 .. 0 |-> w[0].code[j]]
      BY <2>2
    <2>4. WalkedTo(f, k, acc.changed, 0, w[0])
      BY <2>2, <2>3 DEF WalkedTo
    <2> QED
      BY <1>1, <2>4
  <1>4. ASSUME NEW i \in 0 .. N - 1, i \in T
        PROVE  i + 1 \in T
    <2>1. i + 1 \in 0 .. N /\ i + 1 # 0 /\ (i + 1) - 1 = i
      BY <1>1
    <2>2. w[i + 1] = PropInstr(w[i], f.blocks[k][i + 1])
      BY <1>2, <2>1
    <2>3. WalkedTo(f, k, acc.changed, i + 1, w[i + 1])
      BY <1>4, <2>2, WalkStep
    <2> QED
      BY <2>1, <2>3
  <1>5. \A i \in 0 .. N : i \in T
    <2> HIDE DEF T, N
    <2> QED
      BY <1>1, <1>3, <1>4, BoundedInduction
  <1> QED
    BY <1>1, <1>5 DEF w

(* After k blocks.                                                         *)
PropagatedTo(f, k, acc) ==
  /\ TempsKnown(f, acc.tv)
  /\ acc.blocks = [j \in 1 .. k |-> acc.blocks[j]]
  /\ \A j \in 1 .. k : /\ acc.blocks[j] = [i \in 1 .. Len(f.blocks[j]) |-> acc.blocks[j][i]]
                       /\ \A i \in 1 .. Len(f.blocks[j]) : Done(f, j, i, acc.blocks[j][i])
  /\ acc.changed <=> \E j \in 1 .. k : \E i \in 1 .. Len(f.blocks[j]) : acc.blocks[j][i] # f.blocks[j][i]

LEMMA PropBlockKeeps ==
  ASSUME NEW f, Sound(f), NEW k \in 0 .. Len(f.blocks) - 1, NEW acc, PropagatedTo(f, k, acc)
  PROVE  PropagatedTo(f, k + 1, PropBlock(acc, f.blocks[k + 1]))
  <1> DEFINE next == PropBlock(acc, f.blocks[k + 1])
             N == Len(f.blocks[k + 1])
             st == Walk(acc, f.blocks[k + 1])[N]
  <1>1. Len(f.blocks) \in Nat /\ k \in Nat /\ k + 1 \in 1 .. Len(f.blocks)
    BY TypedIsLaid DEF Sound, Laid
  <1>2. WalkedTo(f, k + 1, acc.changed, N, st)
    BY <1>1, WalkKeeps DEF PropagatedTo
  <1>3. next.tv = st.tv /\ next.changed = st.changed /\ next.blocks = Append(acc.blocks, st.code)
    BY DEF PropBlock
  <1> HIDE DEF next, st, N
  <1>4. /\ TempsKnown(f, st.tv)
        /\ st.code = [j \in 1 .. N |-> st.code[j]]
        /\ \A j \in 1 .. N : Done(f, k + 1, j, st.code[j])
        /\ st.changed <=> acc.changed \/ \E j \in 1 .. N : st.code[j] # f.blocks[k + 1][j]
    BY <1>2 DEF WalkedTo
  <1>5. /\ acc.blocks = [j \in 1 .. k |-> acc.blocks[j]]
        /\ \A j \in 1 .. k : /\ acc.blocks[j] = [i \in 1 .. Len(f.blocks[j]) |-> acc.blocks[j][i]]
                             /\ \A i \in 1 .. Len(f.blocks[j]) : Done(f, j, i, acc.blocks[j][i])
        /\ acc.changed <=> \E j \in 1 .. k : \E i \in 1 .. Len(f.blocks[j]) : acc.blocks[j][i] # f.blocks[j][i]
    BY DEF PropagatedTo
  <1>6. /\ next.blocks = [j \in 1 .. k + 1 |-> next.blocks[j]]
        /\ \A j \in 1 .. k : next.blocks[j] = acc.blocks[j]
        /\ next.blocks[k + 1] = st.code
    BY <1>1, <1>3, <1>5, Appended
  <1>7. \A j \in 1 .. k + 1 : j \in 1 .. k \/ j = k + 1
    BY <1>1
  <1>8. \A j \in 1 .. k : j \in 1 .. k + 1
    BY <1>1
  <1>9. k + 1 \in 1 .. k + 1
    BY <1>1
  <1>10. ASSUME NEW j \in 1 .. k + 1
         PROVE  /\ next.blocks[j] = [i \in 1 .. Len(f.blocks[j]) |-> next.blocks[j][i]]
                /\ \A i \in 1 .. Len(f.blocks[j]) : Done(f, j, i, next.blocks[j][i])
    <2>1. CASE j \in 1 .. k
      <3>1. next.blocks[j] = acc.blocks[j]
        BY <1>6, <2>1
      <3> QED
        BY <1>5, <2>1, <3>1
    <2>2. CASE j = k + 1
      BY <1>4, <1>6, <2>2 DEF N
    <2> QED
      BY <1>7, <2>1, <2>2
  <1>11. next.changed <=> \E j \in 1 .. k + 1 : \E i \in 1 .. Len(f.blocks[j]) : next.blocks[j][i] # f.blocks[j][i]
    <2>1. ASSUME NEW j \in 1 .. k + 1, NEW i \in 1 .. Len(f.blocks[j]), next.blocks[j][i] # f.blocks[j][i]
          PROVE  next.changed
      <3>1. CASE j \in 1 .. k
        <4>1. acc.blocks[j][i] # f.blocks[j][i]
          BY <1>6, <2>1, <3>1
        <4>2. acc.changed
          BY <1>5, <3>1, <4>1
        <4> QED
          BY <1>3, <1>4, <4>2
      <3>2. CASE j = k + 1
        <4>1. i \in 1 .. N /\ st.code[i] # f.blocks[k + 1][i]
          BY <1>6, <2>1, <3>2 DEF N
        <4> QED
          BY <1>3, <1>4, <4>1
      <3> QED
        BY <1>7, <3>1, <3>2
    <2>2. ASSUME next.changed
          PROVE  \E j \in 1 .. k + 1 : \E i \in 1 .. Len(f.blocks[j]) : next.blocks[j][i] # f.blocks[j][i]
      <3>1. CASE acc.changed
        <4>1. PICK j \in 1 .. k : \E i \in 1 .. Len(f.blocks[j]) : acc.blocks[j][i] # f.blocks[j][i]
          BY <1>5, <3>1
        <4>2. next.blocks[j] = acc.blocks[j] /\ j \in 1 .. k + 1
          BY <1>6, <1>8
        <4> QED
          BY <4>1, <4>2
      <3>2. CASE ~acc.changed
        <4>1. PICK i \in 1 .. N : st.code[i] # f.blocks[k + 1][i]
          BY <1>3, <1>4, <2>2, <3>2
        <4> QED
          BY <1>6, <1>9, <4>1 DEF N
      <3> QED
        BY <3>1, <3>2
    <2> QED
      BY <2>1, <2>2
  <1> QED
    BY <1>3, <1>4, <1>6, <1>10, <1>11 DEF PropagatedTo, next

LEMMA PropagatedAll ==
  ASSUME NEW f, Sound(f)
  PROVE  PropagatedTo(f, Len(f.blocks), WalkBlocks(f)[Len(f.blocks)])
  <1> DEFINE N == Len(f.blocks)
             w == WalkBlocks(f)
             T == { k \in 0 .. N : PropagatedTo(f, k, w[k]) }
  <1>1. Laid(f) /\ N \in Nat
    BY TypedIsLaid DEF Sound, Laid
  <1>2. w = [n \in 0 .. N |->
               IF n = 0 THEN [tv |-> Resolved(DefMap(f)), changed |-> FALSE, blocks |-> <<>>]
               ELSE PropBlock(w[n - 1], f.blocks[n])]
    BY <1>1, WalkBlocksDef
  <1> HIDE DEF w
  <1>3. 0 \in T
    <2>1. w[0] = [tv |-> Resolved(DefMap(f)), changed |-> FALSE, blocks |-> <<>>]
      BY <1>1, <1>2
    <2>2. w[0].tv = Resolved(DefMap(f)) /\ w[0].changed = FALSE /\ w[0].blocks = <<>>
      BY <2>1
    <2>3. w[0].blocks = [j \in 1 .. 0 |-> w[0].blocks[j]]
      BY <2>2
    <2>4. TempsKnown(f, w[0].tv)
      BY <2>2, ResolvedStandsFor DEF TempsKnown
    <2>5. PropagatedTo(f, 0, w[0])
      BY <2>2, <2>3, <2>4 DEF PropagatedTo
    <2> QED
      BY <1>1, <2>5
  <1>4. ASSUME NEW k \in 0 .. N - 1, k \in T
        PROVE  k + 1 \in T
    <2>1. k + 1 \in 0 .. N /\ k + 1 # 0 /\ (k + 1) - 1 = k
      BY <1>1
    <2>2. w[k + 1] = PropBlock(w[k], f.blocks[k + 1])
      BY <1>2, <2>1
    <2>3. PropagatedTo(f, k + 1, w[k + 1])
      BY <1>4, <2>2, PropBlockKeeps
    <2> QED
      BY <2>1, <2>3
  <1>5. PropagatedTo(f, N, w[N])
    <2> HIDE DEF T, N
    <2>1. \A k \in 0 .. N : k \in T
      BY <1>1, <1>3, <1>4, BoundedInduction
    <2> QED
      BY <1>1, <2>1 DEF T
  <1> QED
    BY <1>5 DEF w

(* What becomes of the blocks.                                             *)
LEMMA ConstpropIs ==
  ASSUME NEW f, Sound(f)
  PROVE  LET blocks == WalkBlocks(f)[Len(f.blocks)].blocks
         IN  /\ constprop(f).f = [f EXCEPT !.blocks = blocks]
             /\ ReplacedIn(f, blocks) /\ UsesDefined(f, blocks)
             /\ constprop(f).changed <=>
                  \E j \in 1 .. Len(f.blocks) : \E i \in 1 .. Len(f.blocks[j]) : blocks[j][i] # f.blocks[j][i]
  <1> DEFINE N == Len(f.blocks)
             w == WalkBlocks(f)
             blocks == w[N].blocks
  <1>1. PropagatedTo(f, N, w[N])
    BY PropagatedAll
  <1>2. constprop(f).f = [f EXCEPT !.blocks = blocks] /\ constprop(f).changed = w[N].changed
    BY DEF constprop
  <1> HIDE DEF w, blocks
  <1>3. /\ blocks = [j \in 1 .. N |-> blocks[j]]
        /\ \A j \in 1 .. N : /\ blocks[j] = [i \in 1 .. Len(f.blocks[j]) |-> blocks[j][i]]
                             /\ \A i \in 1 .. Len(f.blocks[j]) : Done(f, j, i, blocks[j][i])
        /\ w[N].changed <=> \E j \in 1 .. N : \E i \in 1 .. Len(f.blocks[j]) : blocks[j][i] # f.blocks[j][i]
    BY <1>1 DEF PropagatedTo, blocks
  <1>4. ReplacedIn(f, blocks) /\ UsesDefined(f, blocks)
    BY <1>3, Zenon DEF ReplacedIn, UsesDefined, Done
  <1> QED
    BY <1>2, <1>3, <1>4 DEF w, blocks

LEMMA ConstpropKeeps ==
  ASSUME NEW f, Sound(f)
  PROVE  Sound(constprop(f).f) /\ (constprop(f).changed <=> constprop(f).f # f)
  <1> DEFINE N == Len(f.blocks)
  <1>1. PICK blocks : blocks = WalkBlocks(f)[N].blocks
    OBVIOUS
  <1>2. /\ constprop(f).f = [f EXCEPT !.blocks = blocks]
        /\ ReplacedIn(f, blocks) /\ UsesDefined(f, blocks)
        /\ constprop(f).changed <=> \E j \in 1 .. N : \E i \in 1 .. Len(f.blocks[j]) : blocks[j][i] # f.blocks[j][i]
    BY <1>1, ConstpropIs
  <1>3. Sound([f EXCEPT !.blocks = blocks])
    BY <1>2, ReplacedIsSound
  <1>4. Differ(f, blocks) <=> \E j \in 1 .. N : \E i \in 1 .. Len(f.blocks[j]) : blocks[j][i] # f.blocks[j][i]
    BY Zenon DEF Differ, Place
  <1>5. [f EXCEPT !.blocks = blocks] # f <=> Differ(f, blocks)
    BY <1>2, SameBlocks
  <1> QED
    BY <1>2, <1>3, <1>4, <1>5

-----------------------------------------------------------------------------
(* Dead-code elimination: unreachable blocks.                              *)

(* A branch follows the block it names.                                    *)
Retargeted(seen, in) ==
  CASE in.op = "br"     -> [in EXCEPT !.bb_true = Rank(seen, @)]
    [] in.op = "condbr" -> [in EXCEPT !.bb_true = Rank(seen, @), !.bb_false = Rank(seen, @)]
    [] OTHER            -> in

LEMMA RetargetedTyped ==
  ASSUME NEW seen, \A b : Rank(seen, b) \in Int, NEW in, TypedInstr(in)
  PROVE  /\ TypedInstr(Retargeted(seen, in)) /\ TempsIn(Retargeted(seen, in)) = TempsIn(in)
         /\ Retargeted(seen, in).op = in.op /\ Retargeted(seen, in).dst = in.dst
         /\ Retargeted(seen, in).slot = in.slot
         /\ in.op \in {"br", "condbr"} => Retargeted(seen, in).bb_true = Rank(seen, in.bb_true)
         /\ in.op = "condbr" => Retargeted(seen, in).bb_false = Rank(seen, in.bb_false)
  <1> DEFINE new == Retargeted(seen, in)
  <1>1. /\ in \in [op : Ops, dst : Int, args : Seq(Values), slot : Int, callee : {in.callee},
                   bb_true : Int, bb_false : Int]
        /\ in.op \in {"const", "copy", "store"} => Len(in.args) = 1
        /\ in.op \in {"const", "copy", "load"} => in.dst # -1
        /\ in.op = "store" \/ op_is_terminator(in.op) => in.dst = -1
        /\ \A t \in TempsIn(in) : t >= 0
    BY DEF TypedInstr
  <1>2. /\ new \in [op : Ops, dst : Int, args : Seq(Values), slot : Int, callee : {new.callee},
                    bb_true : Int, bb_false : Int]
        /\ new.op = in.op /\ new.dst = in.dst /\ new.args = in.args /\ new.slot = in.slot
        /\ in.op \in {"br", "condbr"} => new.bb_true = Rank(seen, in.bb_true)
        /\ in.op = "condbr" => new.bb_false = Rank(seen, in.bb_false)
    <2> DEFINE r == Rank(seen, in.bb_true)
               s == Rank(seen, in.bb_false)
    <2>1. r \in Int /\ s \in Int
      OBVIOUS
    <2>2. CASE in.op = "br"
      <3>1. new = [in EXCEPT !.bb_true = r]
        BY <2>2 DEF Retargeted
      <3> HIDE DEF r, Values, Ops, new
      <3> QED
        BY <1>1, <2>1, <2>2, <3>1 DEF r
    <2>3. CASE in.op = "condbr"
      <3>1. new = [in EXCEPT !.bb_true = r, !.bb_false = s]
        BY <2>3 DEF Retargeted
      <3> HIDE DEF r, s, Values, Ops, new
      <3> QED
        BY <1>1, <2>1, <2>3, <3>1 DEF r, s
    <2>4. CASE in.op # "br" /\ in.op # "condbr"
      <3>1. new = in
        BY <2>4 DEF Retargeted
      <3> HIDE DEF Values, Ops, new
      <3> QED
        BY <1>1, <2>4, <3>1
    <2> QED
      BY <2>2, <2>3, <2>4
  <1> HIDE DEF new
  <1>3. TempsIn(new) = TempsIn(in)
    BY <1>2 DEF TempsIn
  <1>4. TypedInstr(new)
    <2>1. /\ new.op \in {"const", "copy", "store"} => Len(new.args) = 1
          /\ new.op \in {"const", "copy", "load"} => new.dst # -1
          /\ new.op = "store" \/ op_is_terminator(new.op) => new.dst = -1
          /\ \A t \in TempsIn(new) : t >= 0
      BY <1>1, <1>2, <1>3
    <2> QED
      BY <1>2, <2>1, Zenon DEF TypedInstr
  <1> QED
    BY <1>2, <1>3, <1>4 DEF new

(* The blocks that can be reached, in their order.                         *)
LEMMA SeenProperties ==
  ASSUME NEW f, Sound(f)
  PROVE  LET seen == reachable_blocks(f)
             keep == InOrder(seen)
             m == Cardinality(seen)
         IN  /\ seen = ReachAvoiding(f, {0}, {}) /\ seen \subseteq BlockIds(f)
             /\ m \in Nat \ {0} /\ m <= Len(f.blocks) /\ (m = Len(f.blocks) => seen = BlockIds(f))
             /\ keep \in [1 .. m -> seen] /\ keep[1] = 0
             /\ \A i, j \in 1 .. m : keep[i] = keep[j] => i = j
             /\ \A b \in seen : Rank(seen, b) + 1 \in 1 .. m /\ keep[Rank(seen, b) + 1] = b
             /\ \A b : Rank(seen, b) \in Nat
             /\ \A b \in seen : \A c \in Succs(f, b) : c \in seen
  <1> DEFINE seen == reachable_blocks(f)
             keep == InOrder(seen)
             m == Cardinality(seen)
             N == Len(f.blocks)
  <1>1. N \in Nat \ {0} /\ f.blocks # <<>>
    BY TypedIsLaid DEF Sound, Laid, TypedFunction
  <1>2. seen = ReachAvoiding(f, {0}, {})
    BY <1>1 DEF reachable_blocks
  <1>3. /\ 0 \in seen /\ seen \subseteq BlockIds(f)
        /\ \A b \in seen : \A c \in Succs(f, b) : c \in seen
    BY <1>1, <1>2, EntryPaths
  <1> HIDE DEF seen, N
  <1>4. IsFiniteSet(BlockIds(f)) /\ Cardinality(BlockIds(f)) = N
    <2>1. BlockIds(f) = 0 .. N - 1
      BY DEF BlockIds, N
    <2> QED
      BY <1>1, <2>1, FS_Interval
  <1>5. IsFiniteSet(seen) /\ m <= N /\ (m = N => seen = BlockIds(f))
    BY <1>3, <1>4, FS_Subset
  <1>6. seen \in SUBSET Int /\ \A b \in seen : b >= 0
    BY <1>3 DEF BlockIds
  <1>7. /\ m \in Nat /\ keep \in [1 .. m -> seen]
        /\ \A i, j \in 1 .. m : i < j <=> keep[i] < keep[j]
        /\ \A b \in seen : Rank(seen, b) + 1 \in 1 .. m /\ keep[Rank(seen, b) + 1] = b
    BY <1>5, <1>6, InOrderProperties
  <1>8. \A b : Rank(seen, b) \in Nat
    <2> TAKE b
    <2>1. { c \in seen : c < b } \in SUBSET seen
      OBVIOUS
    <2>2. IsFiniteSet({ c \in seen : c < b })
      BY <1>5, <2>1, FS_Subset
    <2> QED
      BY <2>2, FS_CardinalityType DEF Rank
  <1>9. Rank(seen, 0) = 0
    <2>0. ASSUME NEW c \in seen PROVE ~(c < 0)
      BY <1>6
    <2>1. { c \in seen : c < 0 } = {}
      BY <2>0, Zenon
    <2> QED
      BY <2>1, FS_EmptySet DEF Rank
  <1>10. keep[1] = 0 /\ m # 0
    BY <1>3, <1>7, <1>9
  <1>11. \A i, j \in 1 .. m : keep[i] = keep[j] => i = j
    <2> HIDE DEF keep, m
    <2> TAKE i, j \in 1 .. m
    <2> HAVE keep[i] = keep[j]
    <2>1. keep[i] \in Int
      BY <1>6, <1>7
    <2>2. ~(i < j) /\ ~(j < i)
      BY <1>7, <2>1
    <2> QED
      BY <1>7, <2>2
  <1> QED
    BY <1>2, <1>3, <1>5, <1>7, <1>8, <1>10, <1>11 DEF seen, N

(* The blocks that stay, each branch following the block it names.         *)
Packed(f) ==
  LET seen == reachable_blocks(f)
      keep == InOrder(seen)
      Kept(s) == [s EXCEPT ![Len(s)] = Retargeted(seen, @)]
  IN  [j \in DOMAIN keep |-> Kept(Block(f, keep[j]))]

LEMMA RemoveUnreachableIs ==
  ASSUME NEW f
  PROVE  /\ reachable_blocks(f) = BlockIds(f) => remove_unreachable(f).f = f
         /\ reachable_blocks(f) # BlockIds(f) => remove_unreachable(f).f = [f EXCEPT !.blocks = Packed(f)]
         /\ remove_unreachable(f).changed <=> reachable_blocks(f) # BlockIds(f)
         /\ remove_unreachable(f).changed \in BOOLEAN
  BY Zenon DEF remove_unreachable, Packed, Retargeted

(* The block of f that block j of the packed ones was.                     *)
Origin(f, j) == InOrder(reachable_blocks(f))[j]

LEMMA PackedBlock ==
  ASSUME NEW f, Sound(f), NEW j \in 1 .. Cardinality(reachable_blocks(f))
  PROVE  LET s == f.blocks[Origin(f, j) + 1]
             t == Packed(f)[j]
         IN  /\ Origin(f, j) \in BlockIds(f) /\ Origin(f, j) + 1 \in 1 .. Len(f.blocks)
             /\ Block(f, Origin(f, j)) = s
             /\ Len(s) \in Nat \ {0} /\ IsSequence(t) /\ Len(t) = Len(s) /\ DOMAIN t = 1 .. Len(s)
             /\ \A i \in 1 .. Len(s) :
                  /\ TypedInstr(t[i]) /\ TempsIn(t[i]) = TempsIn(s[i])
                  /\ t[i].op = s[i].op /\ t[i].dst = s[i].dst /\ t[i].slot = s[i].slot
             /\ t[Len(s)] = Retargeted(reachable_blocks(f), s[Len(s)])
  <1> DEFINE seen == reachable_blocks(f)
             b == Origin(f, j)
             s == f.blocks[b + 1]
             t == Packed(f)[j]
             L == Len(s)
  <1>1. /\ seen \subseteq BlockIds(f) /\ InOrder(seen) \in [1 .. Cardinality(seen) -> seen]
        /\ \A c : Rank(seen, c) \in Int
    <2>1. \A c : Rank(seen, c) \in Nat
      BY SeenProperties
    <2> QED
      BY <2>1, SeenProperties
  <1>2. Laid(f) /\ TypedFunction(f) /\ CFGWellFormed(f)
    BY TypedIsLaid DEF Sound, WellFormed
  <1>3. b \in BlockIds(f) /\ b + 1 \in 1 .. Len(f.blocks) /\ Block(f, b) = s
    <2>1. b \in BlockIds(f)
      BY <1>1 DEF Origin
    <2> QED
      BY <1>2, <2>1, PositionProperties
  <1>4. IsSequence(s) /\ L \in Nat /\ DOMAIN s = 1 .. L /\ \A i \in 1 .. L : TypedInstr(s[i])
    BY <1>2, <1>3, SequenceProperties DEF TypedFunction, Laid
  <1>5. L \in Nat \ {0}
    <2>1. s # <<>>
      BY <1>2, <1>3 DEF CFGWellFormed
    <2> QED
      BY <1>4, <2>1, EmptySeq DEF IsSequence
  <1>6. t = [s EXCEPT ![L] = Retargeted(seen, s[L])]
    <2>1. j \in DOMAIN InOrder(seen)
      BY <1>1
    <2> QED
      BY <1>3, <2>1 DEF Packed, Origin
  <1> HIDE DEF t, L, s, seen, b
  <1>7. t = [i \in 1 .. L |-> t[i]] /\ \A i \in 1 .. L : t[i] = IF i = L THEN Retargeted(seen, s[L]) ELSE s[i]
    BY <1>4, <1>6
  <1>8. IsSequence(t) /\ Len(t) = L /\ DOMAIN t = 1 .. L
    BY <1>5, <1>7, SequenceMade
  <1>9. ASSUME NEW i \in 1 .. L
        PROVE  /\ TypedInstr(t[i]) /\ TempsIn(t[i]) = TempsIn(s[i])
               /\ t[i].op = s[i].op /\ t[i].dst = s[i].dst /\ t[i].slot = s[i].slot
    <2>1. CASE i = L
      BY <1>1, <1>4, <1>7, <2>1, RetargetedTyped
    <2>2. CASE i # L
      BY <1>4, <1>7, <2>2
    <2> QED
      BY <2>1, <2>2
  <1>10. t[L] = Retargeted(seen, s[L])
    BY <1>5, <1>7
  <1> QED
    BY <1>3, <1>5, <1>8, <1>9, <1>10 DEF t, L, s, seen, b

(* The function that is left, as a part of the one before.                 *)
LEMMA PackedSound ==
  ASSUME NEW f, Sound(f)
  PROVE  /\ Sound([f EXCEPT !.blocks = Packed(f)])
         /\ Len(Packed(f)) = Cardinality(reachable_blocks(f))
  <1> DEFINE seen == reachable_blocks(f)
             keep == InOrder(seen)
             m == Cardinality(seen)
             n == Len(f.blocks)
             R == ReachAvoiding(f, {0}, {})
             blocks == Packed(f)
             g == [f EXCEPT !.blocks = blocks]
             phi == [b \in BlockIds(g) |-> keep[b + 1]]
             e == [p \in Positions(g) |-> <<keep[p[1] + 1], p[2]>>]
  <1>1. /\ Laid(f) /\ TypedFunction(f) /\ WellFormed(f) /\ n \in Nat \ {0}
    BY TypedIsLaid DEF Sound, Laid
  <1>2. /\ seen = R /\ m \in Nat \ {0} /\ m <= n
        /\ keep \in [1 .. m -> seen] /\ keep[1] = 0
        /\ \A i, j \in 1 .. m : keep[i] = keep[j] => i = j
        /\ \A b \in seen : Rank(seen, b) + 1 \in 1 .. m /\ keep[Rank(seen, b) + 1] = b
        /\ \A b : Rank(seen, b) \in Nat
        /\ \A b \in seen : \A c \in Succs(f, b) : c \in seen
    BY SeenProperties
  <1>3. blocks = [j \in 1 .. m |-> blocks[j]]
    <2>1. DOMAIN keep = 1 .. m
      BY <1>2
    <2> QED
      BY <2>1 DEF Packed
  <1>4. ASSUME NEW j \in 1 .. m
        PROVE  LET s == f.blocks[keep[j] + 1]
                   t == blocks[j]
               IN  /\ keep[j] \in BlockIds(f) /\ keep[j] + 1 \in 1 .. n /\ Block(f, keep[j]) = s
                   /\ Len(s) \in Nat \ {0} /\ IsSequence(t) /\ Len(t) = Len(s) /\ DOMAIN t = 1 .. Len(s)
                   /\ \A i \in 1 .. Len(s) :
                        /\ TypedInstr(t[i]) /\ TempsIn(t[i]) = TempsIn(s[i])
                        /\ t[i].op = s[i].op /\ t[i].dst = s[i].dst /\ t[i].slot = s[i].slot
                   /\ t[Len(s)] = Retargeted(seen, s[Len(s)])
    BY PackedBlock, ZenonT(40) DEF Origin
  <1> HIDE DEF m, blocks
  <1>5. /\ TypedFunction(g) /\ Laid(g) /\ g.blocks = blocks /\ Len(g.blocks) = m
        /\ g.next_temp = f.next_temp /\ g.num_slots = f.num_slots
    <2>1. \A j \in 1 .. m : IsSequence(blocks[j]) /\ \A i \in 1 .. Len(blocks[j]) : TypedInstr(blocks[j][i])
      BY <1>4
    <2>2. TypedFunction(f) /\ m \in Nat \ {0}
      BY <1>1, <1>2
    <2> HIDE DEF g
    <2>3. /\ TypedFunction(g) /\ Laid(g) /\ g.blocks = blocks /\ Len(blocks) = m
          /\ g.next_temp = f.next_temp /\ g.num_slots = f.num_slots
      BY <1>3, <2>1, <2>2, OtherBlocks, ZenonT(40) DEF g
    <2> QED
      BY <2>3
  <1> HIDE DEF g, keep, seen, n, R
  <1>6. /\ \A b \in BlockIds(g) : /\ b \in Nat /\ b + 1 \in 1 .. m /\ (b + 1) - 1 = b
                                  /\ Block(g, b) = blocks[b + 1]
        /\ \A j \in 1 .. m : j - 1 \in BlockIds(g)
        /\ 0 \in BlockIds(g)
    BY <1>2, <1>5 DEF BlockIds, Block
  <1>7. \A x \in seen : Rank(seen, x) \in BlockIds(g) /\ keep[Rank(seen, x) + 1] = x
    <2>1. ASSUME NEW x \in seen PROVE Rank(seen, x) \in BlockIds(g)
      <3>1. Rank(seen, x) + 1 \in 1 .. m /\ (Rank(seen, x) + 1) - 1 = Rank(seen, x)
        BY <1>2
      <3> QED
        BY <1>6, <3>1
    <2> QED
      BY <1>2, <2>1
  <1>8. ASSUME NEW b \in BlockIds(g)
        PROVE  LET s == Block(f, keep[b + 1])
                   t == Block(g, b)
               IN  /\ keep[b + 1] \in BlockIds(f) /\ keep[b + 1] \in seen
                   /\ s # <<>> /\ t # <<>> /\ Len(t) = Len(s) /\ DOMAIN t = 1 .. Len(s)
                   /\ \A i \in 1 .. Len(s) : t[i].op = s[i].op
                   /\ Last(t) = Retargeted(seen, Last(s)) /\ TypedInstr(Last(s))
    <2>1. b + 1 \in 1 .. m /\ Block(g, b) = blocks[b + 1]
      BY <1>6
    <2> DEFINE k == keep[b + 1] + 1
               s == f.blocks[k]
    <2>2. /\ keep[b + 1] \in BlockIds(f) /\ k \in 1 .. n /\ Block(f, keep[b + 1]) = s
          /\ Len(s) \in Nat \ {0} /\ Len(blocks[b + 1]) = Len(s) /\ DOMAIN blocks[b + 1] = 1 .. Len(s)
          /\ \A i \in 1 .. Len(s) : blocks[b + 1][i].op = s[i].op
          /\ blocks[b + 1][Len(s)] = Retargeted(seen, s[Len(s)])
      BY <1>4, <2>1
    <2>3. TypedInstr(s[Len(s)])
      BY <1>1, <2>2 DEF TypedFunction, Laid, n
    <2>4. s # <<>> /\ blocks[b + 1] # <<>>
      <3>1. Len(<<>>) = 0
        OBVIOUS
      <3> QED
        BY <2>2, <3>1
    <2>5. keep[b + 1] \in seen
      BY <1>2, <2>1
    <2> HIDE DEF k
    <2> QED
      BY <2>1, <2>2, <2>3, <2>4, <2>5 DEF Last

  <1>9. ASSUME NEW b \in BlockIds(g)
        PROVE  LET l == Last(Block(f, keep[b + 1]))
                   k == Last(Block(g, b))
               IN  /\ k.op = l.op
                   /\ l.op \in {"br", "condbr"} =>
                        k.bb_true = Rank(seen, l.bb_true) /\ l.bb_true \in Succs(f, keep[b + 1]) /\ l.bb_true \in seen
                   /\ l.op = "condbr" =>
                        k.bb_false = Rank(seen, l.bb_false) /\ l.bb_false \in Succs(f, keep[b + 1]) /\ l.bb_false \in seen
    <2> DEFINE l == Last(Block(f, keep[b + 1]))
               k == Last(Block(g, b))
    <2>1. /\ k.op = l.op
          /\ l.op \in {"br", "condbr"} => k.bb_true = Rank(seen, l.bb_true)
          /\ l.op = "condbr" => k.bb_false = Rank(seen, l.bb_false)
      <3>1. k = Retargeted(seen, l) /\ TypedInstr(l) /\ \A x : Rank(seen, x) \in Int
        <4>1. \A x : Rank(seen, x) \in Int
          BY <1>2
        <4> QED
          BY <1>8, <4>1
      <3> QED
        BY <3>1, RetargetedTyped
    <2>2. keep[b + 1] \in BlockIds(f) /\ keep[b + 1] \in seen
      BY <1>8
    <2>3. /\ l.op \in {"br", "condbr"} => l.bb_true \in BlockIds(f)
          /\ l.op = "condbr" => l.bb_false \in BlockIds(f)
      BY <1>1, <2>2, Zenon DEF WellFormed, CFGWellFormed
    <2>4. /\ l.op \in {"br", "condbr"} => l.bb_true \in Succs(f, keep[b + 1])
          /\ l.op = "condbr" => l.bb_false \in Succs(f, keep[b + 1])
      BY <2>3 DEF Succs
    <2> QED
      BY <1>2, <2>1, <2>2, <2>4
  <1>10. CFGWellFormed(g)
    <2> SUFFICES ASSUME NEW b \in BlockIds(g)
                 PROVE  /\ Block(g, b) # <<>>
                        /\ \A i \in DOMAIN Block(g, b) : op_is_terminator(Block(g, b)[i].op) <=> i = Len(Block(g, b))
                        /\ Last(Block(g, b)).op \in {"br", "condbr"} => Last(Block(g, b)).bb_true \in BlockIds(g)
                        /\ Last(Block(g, b)).op = "condbr" => Last(Block(g, b)).bb_false \in BlockIds(g)
      BY DEF CFGWellFormed
    <2>1. /\ Last(Block(g, b)).op \in {"br", "condbr"} => Last(Block(g, b)).bb_true \in BlockIds(g)
          /\ Last(Block(g, b)).op = "condbr" => Last(Block(g, b)).bb_false \in BlockIds(g)
      BY <1>7, <1>9
    <2>2. ASSUME NEW i \in DOMAIN Block(g, b)
          PROVE  op_is_terminator(Block(g, b)[i].op) <=> i = Len(Block(g, b))
      <3> DEFINE s == Block(f, keep[b + 1])
      <3>1. /\ keep[b + 1] \in BlockIds(f) /\ i \in 1 .. Len(s) /\ Len(Block(g, b)) = Len(s)
            /\ Block(g, b)[i].op = s[i].op
        BY <1>8
      <3>2. DOMAIN s = 1 .. Len(s)
        BY <1>1, <3>1, PositionProperties DEF Laid
      <3>3. op_is_terminator(s[i].op) <=> i = Len(s)
        BY <1>1, <3>1, <3>2 DEF WellFormed, CFGWellFormed
      <3> QED
        BY <3>1, <3>3
    <2> QED
      BY <1>8, <2>1, <2>2
  <1>11. /\ phi \in [BlockIds(g) -> BlockIds(f)] /\ phi[0] = 0
         /\ \A b \in BlockIds(g) : phi[b] = keep[b + 1] /\ b + 1 \in 1 .. m /\ b \in Nat
    <2>1. keep[0 + 1] = 0
      BY <1>2
    <2>2. \A b \in BlockIds(g) : keep[b + 1] \in BlockIds(f) /\ b + 1 \in 1 .. m /\ b \in Nat
      BY <1>6, <1>8
    <2> HIDE DEF keep, m
    <2> QED
      BY <1>6, <2>1, <2>2
  <1>12. \A b, c \in BlockIds(g) : phi[b] = phi[c] => b = c
    <2> SUFFICES ASSUME NEW b \in BlockIds(g), NEW c \in BlockIds(g), phi[b] = phi[c]
                 PROVE  b = c
      OBVIOUS
    <2>1. keep[b + 1] = keep[c + 1] /\ b + 1 \in 1 .. m /\ c + 1 \in 1 .. m /\ b \in Nat /\ c \in Nat
      BY <1>11
    <2>2. b + 1 = c + 1
      BY <1>2, <2>1, Zenon
    <2> QED
      BY <2>1, <2>2
  <1>13. ASSUME NEW p \in Positions(g)
         PROVE  /\ p = <<p[1], p[2]>> /\ p[1] \in BlockIds(g) /\ p[1] + 1 \in 1 .. m /\ p[2] \in Nat
                /\ e[p] = <<keep[p[1] + 1], p[2]>> /\ e[p][1] = keep[p[1] + 1] /\ e[p][2] = p[2]
                /\ e[p] \in Positions(f) /\ keep[p[1] + 1] \in seen
                /\ TempsIn(At(g, p)) = TempsIn(At(f, e[p]))
                /\ At(g, p).op = At(f, e[p]).op /\ At(g, p).dst = At(f, e[p]).dst /\ At(g, p).slot = At(f, e[p]).slot
    <2>1. /\ p = <<p[1], p[2]>> /\ p[1] \in BlockIds(g) /\ p[1] + 1 \in 1 .. m /\ p[2] \in Nat
          /\ p[2] \in 1 .. Len(blocks[p[1] + 1]) /\ At(g, p) = blocks[p[1] + 1][p[2]]
      BY <1>5, PositionProperties
    <2> DEFINE j == p[1] + 1
               i == p[2]
               k == keep[j] + 1
    <2>2. j \in 1 .. m /\ i \in 1 .. Len(blocks[j]) /\ At(g, p) = blocks[j][i]
      BY <2>1
    <2>3. e[p] = <<keep[j], i>>
      OBVIOUS
    <2> HIDE DEF e, j, i
    <2>4. /\ keep[j] \in BlockIds(f) /\ k \in 1 .. n /\ Len(blocks[j]) = Len(f.blocks[k])
          /\ TempsIn(At(g, p)) = TempsIn(f.blocks[k][i])
          /\ At(g, p).op = f.blocks[k][i].op /\ At(g, p).dst = f.blocks[k][i].dst /\ At(g, p).slot = f.blocks[k][i].slot
      BY <1>4, <2>2
    <2>5. keep[j] \in Nat /\ k - 1 = keep[j]
      BY <1>1, <2>4, PositionProperties
    <2> HIDE DEF k
    <2>6. <<k - 1, i>> \in Positions(f) /\ At(f, <<k - 1, i>>) = f.blocks[k][i]
      <3>1. k \in 1 .. Len(f.blocks) /\ i \in 1 .. Len(f.blocks[k])
        BY <2>2, <2>4 DEF n
      <3> QED
        BY <1>1, <3>1, PositionProperties
    <2>7. e[p] \in Positions(f) /\ At(f, e[p]) = f.blocks[k][i]
      BY <2>3, <2>5, <2>6
    <2>8. keep[j] \in seen
      BY <1>2, <2>2
    <2> QED
      BY <2>1, <2>3, <2>4, <2>7, <2>8 DEF i, j
  <1>14. Embeds(f, g, phi, e)
    <2>1. e \in [Positions(g) -> Positions(f)]
      BY <1>13
    <2> HIDE DEF phi, e
    <2>2. \A b \in BlockIds(g) : \A c \in Succs(g, b) : phi[c] \in Succs(f, phi[b])
      <3> SUFFICES ASSUME NEW b \in BlockIds(g), NEW c \in Succs(g, b)
                   PROVE  phi[c] \in Succs(f, phi[b])
        OBVIOUS
      <3> DEFINE l == Last(Block(f, keep[b + 1]))
                 k == Last(Block(g, b))
      <3>1. c \in BlockIds(g) /\ ((k.op \in {"br", "condbr"} /\ c = k.bb_true) \/ (k.op = "condbr" /\ c = k.bb_false))
        BY DEF Succs
      <3>2. PICK x \in seen : c = Rank(seen, x) /\ x \in Succs(f, keep[b + 1])
        BY <1>9, <3>1
      <3>3. keep[c + 1] = x
        BY <1>7, <3>2
      <3> QED
        BY <1>11, <3>1, <3>2, <3>3
    <2>3. \A p \in Positions(g) :
            /\ e[p][1] = phi[p[1]]
            /\ At(g, p).dst = At(f, e[p]).dst
            /\ At(g, p).op \in {"load", "store"} =>
                 At(f, e[p]).op = At(g, p).op /\ At(f, e[p]).slot = At(g, p).slot
      BY <1>11, <1>13
    <2>4. \A p, q \in Positions(g) : p[1] = q[1] => (p[2] < q[2] <=> e[p][2] < e[q][2])
      BY <1>13
    <2>5. Len(g.blocks) <= Len(f.blocks)
      BY <1>2, <1>5 DEF n
    <2> QED
      BY <1>1, <1>5, <1>11, <1>12, <2>1, <2>2, <2>3, <2>4, <2>5 DEF Embeds
  <1>15. UsesCovered(f, g, e)
    <2> SUFFICES ASSUME NEW q \in Positions(g), e[q][1] \in ReachAvoiding(f, {0}, {}), NEW t \in TempsIn(At(g, q))
                 PROVE  \E p \in DefsOf(g, t) : Before(f, e[p], e[q])
      BY DEF UsesCovered
    <2>1. e[q] \in Positions(f) /\ t \in TempsIn(At(f, e[q]))
      BY <1>13
    <2>2. PICK r \in DefsOf(f, t) : Before(f, r, e[q])
      <3> HIDE DEF e
      <3> QED
        BY <2>1, UsedIsDefined
    <2>3. r \in Positions(f) /\ At(f, r).dst = t
      BY <2>2 DEF DefsOf
    <2>4. r[1] \in seen
      <3> HIDE DEF e
      <3> QED
        BY <1>1, <1>2, <2>2, BeforeReachable DEF R, n
    <2> DEFINE b == Rank(seen, r[1])
               p == <<b, r[2]>>
    <2>5. b \in BlockIds(g) /\ keep[b + 1] = r[1]
      BY <1>7, <2>4
    <2> HIDE DEF b
    <2>6. b \in Nat /\ b + 1 \in 1 .. m /\ (b + 1) - 1 = b
      BY <1>6, <2>5
    <2>7. r = <<r[1], r[2]>> /\ r[2] \in 1 .. Len(f.blocks[r[1] + 1])
      BY <1>1, <2>3, PositionProperties
    <2>8. p \in Positions(g)
      <3>1. Len(blocks[b + 1]) = Len(f.blocks[r[1] + 1])
        BY <1>4, <2>5, <2>6
      <3>2. b + 1 \in 1 .. Len(g.blocks) /\ r[2] \in 1 .. Len(g.blocks[b + 1])
        BY <1>5, <2>6, <2>7, <3>1
      <3>3. <<(b + 1) - 1, r[2]>> \in Positions(g)
        BY <1>5, <3>2, PositionProperties
      <3> QED
        BY <2>6, <3>3
    <2>9. e[p] = r
      <3>1. e[p] = <<keep[b + 1], r[2]>>
        BY <2>8
      <3> QED
        BY <2>5, <2>7, <3>1
    <2>10. p \in DefsOf(g, t)
      <3> HIDE DEF p, e
      <3> QED
        BY <1>13, <2>3, <2>8, <2>9 DEF DefsOf
    <2> QED
      BY <2>2, <2>9, <2>10
  <1>16. Sound(g)
    <2> HIDE DEF phi, e
    <2>1. SingleAssignment(g) /\ DefinedBeforeUse(g) /\ SlotsInRange(g)
      BY <1>1, <1>14, <1>15, EmbeddedInherits DEF WellFormed
    <2> QED
      BY <1>5, <1>10, <2>1 DEF Sound, WellFormed
  <1> QED
    BY <1>5, <1>16 DEF g, m, blocks, seen

LEMMA RemoveUnreachableKeeps ==
  ASSUME NEW f, Sound(f)
  PROVE  LET r == remove_unreachable(f)
         IN  /\ Sound(r.f) /\ r.changed \in BOOLEAN
             /\ Len(f.blocks) \in Nat /\ Len(r.f.blocks) \in Nat
             /\ r.changed => Len(r.f.blocks) < Len(f.blocks)
             /\ ~r.changed => r.f = f
  <1> DEFINE r == remove_unreachable(f)
             seen == reachable_blocks(f)
             g == [f EXCEPT !.blocks = Packed(f)]
  <1>1. /\ seen = BlockIds(f) => r.f = f
        /\ seen # BlockIds(f) => r.f = g
        /\ r.changed <=> seen # BlockIds(f)
        /\ r.changed \in BOOLEAN
    BY RemoveUnreachableIs
  <1>2. Len(f.blocks) \in Nat
    BY TypedIsLaid DEF Sound, Laid
  <1>3. CASE seen = BlockIds(f)
    BY <1>1, <1>2, <1>3
  <1>4. CASE seen # BlockIds(f)
    <2>1. g.blocks = Packed(f)
      BY DEF Sound, TypedFunction
    <2>2. Sound(g) /\ Len(g.blocks) = Cardinality(seen)
      BY <2>1, PackedSound
    <2>3. Cardinality(seen) \in Nat \ {0} /\ Cardinality(seen) <= Len(f.blocks) /\ Cardinality(seen) # Len(f.blocks)
      BY <1>4, SeenProperties
    <2> HIDE DEF r, seen, g
    <2>4. /\ Sound(r.f) /\ r.changed \in BOOLEAN /\ r.changed
          /\ Len(f.blocks) \in Nat /\ Len(r.f.blocks) \in Nat /\ Len(r.f.blocks) < Len(f.blocks)
      BY <1>1, <1>2, <1>4, <2>2, <2>3
    <2> QED
      BY <2>4 DEF r
  <1> QED
    BY <1>3, <1>4

-----------------------------------------------------------------------------
(* Dead-code elimination: unused results and dead stores.                  *)

(* The more instructions are gone, the more are useless.                   *)
LEMMA UselessGrows ==
  ASSUME NEW f, NEW G, NEW H, G \subseteq H
  PROVE  Useless(f, G) \subseteq Useless(f, H)
  BY Zenon DEF Useless

LEMMA MarkedDef ==
  ASSUME NEW f, f.next_temp \in Nat
  PROVE  Marked(f) = [n \in 0 .. f.next_temp |-> IF n = 0 THEN {} ELSE Useless(f, Marked(f)[n - 1])]
  <1> DEFINE Start == {}
             Step(s, n) == Useless(f, s)
             Unfolds(g, m) == g = [n \in 0 .. m |-> IF n = 0 THEN Start ELSE Step(g[n - 1], n)]
             N == f.next_temp
             T == { m \in Nat : \E g : Unfolds(g, m) }
  <1> HIDE DEF Start, Step
  <1>1. 0 \in T
    <2>1. Unfolds([n \in 0 .. 0 |-> Start], 0)
      OBVIOUS
    <2> QED
      BY <2>1
  <1>2. ASSUME NEW m \in T
        PROVE  m + 1 \in T
    <2>1. PICK g : Unfolds(g, m)
      OBVIOUS
    <2> DEFINE h == [n \in 0 .. m + 1 |-> IF n <= m THEN g[n] ELSE Step(g[m], n)]
    <2>2. \A n \in 0 .. m : h[n] = g[n]
      OBVIOUS
    <2>3. h[m + 1] = Step(h[m], m + 1)
      OBVIOUS
    <2>4. \A n \in 0 .. m : g[n] = IF n = 0 THEN Start ELSE Step(g[n - 1], n)
      BY <2>1
    <2>5. \A n \in 0 .. m + 1 : h[n] = IF n = 0 THEN Start ELSE Step(h[n - 1], n)
      <3> HIDE DEF h
      <3> TAKE n \in 0 .. m + 1
      <3>1. CASE n = m + 1
        BY <3>1, <2>3
      <3>2. CASE n \in 1 .. m
        <4>1. n - 1 \in 0 .. m
          BY <3>2
        <4> QED
          BY <3>2, <4>1, <2>2, <2>4
      <3>3. CASE n = 0
        BY <3>3, <2>2, <2>4
      <3> QED
        BY <3>1, <3>2, <3>3
    <2>6. Unfolds(h, m + 1)
      BY <2>5
    <2> HIDE DEF h, Unfolds
    <2> QED
      BY <2>6
  <1>3. \E g : Unfolds(g, N)
    <2> HIDE DEF Unfolds
    <2>1. T = Nat
      <3> HIDE DEF T
      <3> QED
        BY <1>1, <1>2, Induction DEF T
    <2> QED
      BY <2>1
  <1>4. Marked(f) = CHOOSE g : Unfolds(g, N)
    BY DEF Marked, Start, Step
  <1>5. Unfolds(Marked(f), N)
    <2> HIDE DEF Unfolds
    <2> QED
      BY <1>3, <1>4
  <1> QED
    BY <1>5 DEF Start, Step

(* The instructions marked may be deleted, and some are if one is useless. *)
LEMMA MarkedDeletable ==
  ASSUME NEW f, Sound(f)
  PROVE  LET dead == Marked(f)[f.next_temp]
         IN  Deletable(f, dead) /\ dead \subseteq Positions(f) /\ (Useless(f, {}) # {} <=> dead # {})
  <1> DEFINE N == f.next_temp
             M == Marked(f)
             dead == M[N]
  <1>1. N \in Nat
    BY DEF Sound, TypedFunction
  <1>2. M[0] = {} /\ \A n \in 0 .. N - 1 : M[n + 1] = Useless(f, M[n])
    <2>1. M = [n \in 0 .. N |-> IF n = 0 THEN {} ELSE Useless(f, M[n - 1])]
      BY <1>1, MarkedDef
    <2> HIDE DEF M, N
    <2>2. \A n \in 0 .. N : M[n] = IF n = 0 THEN {} ELSE Useless(f, M[n - 1])
      BY <2>1, Zenon
    <2>3. 0 \in 0 .. N /\ \A n \in 0 .. N - 1 : n + 1 \in 0 .. N /\ n + 1 # 0 /\ (n + 1) - 1 = n
      BY <1>1
    <2>4. ASSUME NEW n \in 0 .. N - 1
          PROVE  M[n + 1] = Useless(f, M[n])
      <3>1. M[n + 1] = Useless(f, M[(n + 1) - 1])
        BY <2>2, <2>3
      <3> QED
        BY <2>3, <3>1
    <2> QED
      BY <2>2, <2>3, <2>4
  <1> HIDE DEF M, N
  <1> DEFINE T == { n \in 0 .. N : n < N => M[n] \subseteq M[n + 1] }
  <1>3. \A n \in 0 .. N : n \in T
    <2>1. 0 \in T
      BY <1>1, <1>2
    <2>2. ASSUME NEW n \in 0 .. N - 1, n \in T
          PROVE  n + 1 \in T
      <3>1. SUFFICES ASSUME n + 1 < N PROVE M[n + 1] \subseteq M[(n + 1) + 1]
        BY <1>1
      <3>2. n \in 0 .. N - 1 /\ n + 1 \in 0 .. N - 1 /\ n < N
        BY <1>1, <3>1
      <3>3. M[n] \subseteq M[n + 1] /\ M[n + 1] = Useless(f, M[n]) /\ M[(n + 1) + 1] = Useless(f, M[n + 1])
        BY <1>2, <2>2, <3>2
      <3> QED
        BY <3>3, UselessGrows
    <2> HIDE DEF T
    <2> QED
      BY <1>1, <2>1, <2>2, BoundedInduction
  <1>4. ASSUME N # 0
        PROVE  /\ dead = Useless(f, M[N - 1]) /\ M[N - 1] \subseteq dead
               /\ Useless(f, {}) \subseteq dead
    <2>1. N - 1 \in 0 .. N /\ N - 1 \in 0 .. N - 1 /\ (N - 1) + 1 = N /\ N - 1 < N
      BY <1>1, <1>4
    <2>2. M[N] = Useless(f, M[N - 1]) /\ M[N - 1] \subseteq M[N]
      BY <1>2, <1>3, <2>1
    <2>3. Useless(f, {}) \subseteq Useless(f, M[N - 1])
      BY UselessGrows
    <2> QED
      BY <2>2, <2>3
  <1>5. dead \subseteq Positions(f) /\ \A p \in dead : ~op_is_terminator(At(f, p).op)
    <2>1. CASE N = 0
      BY <1>2, <2>1
    <2>2. CASE N # 0
      BY <1>4, <2>2, Zenon DEF Useless, op_has_side_effect
    <2> QED
      BY <2>1, <2>2
  <1>6. ASSUME NEW q \in Positions(f) \ dead, NEW t \in TempsIn(At(f, q)), NEW p \in DefsOf(f, t), p \in dead
        PROVE  FALSE
    <2>1. N # 0
      BY <1>2, <1>6
    <2>2. At(f, p).dst = t
      BY DEF DefsOf
    <2>3. q \in Positions(f) \ M[N - 1] /\ p \in Useless(f, M[N - 1])
      BY <1>4, <1>6, <2>1
    <2>4. At(f, p).dst \notin UNION { TempsIn(At(f, x)) : x \in Positions(f) \ M[N - 1] }
      BY <2>3, Zenon DEF Useless
    <2> QED
      BY <2>2, <2>3, <2>4
  <1>7. ASSUME Useless(f, {}) = {}
        PROVE  dead = {}
    <2> DEFINE U == { n \in 0 .. N : M[n] = {} }
    <2>1. 0 \in U
      BY <1>1, <1>2
    <2>2. \A n \in 0 .. N - 1 : n \in U => n + 1 \in U
      BY <1>1, <1>2, <1>7
    <2>3. \A n \in 0 .. N : n \in U
      <3> HIDE DEF U
      <3> QED
        BY <1>1, <2>1, <2>2, BoundedInduction
    <2> QED
      BY <1>1, <2>3
  <1>8. ASSUME Useless(f, {}) # {}
        PROVE  dead # {}
    <2>1. PICK p \in Positions(f) : p \in Useless(f, {}) /\ At(f, p).dst >= 0
      BY <1>8, Zenon DEF Useless
    <2>2. At(f, p).dst \in 0 .. N - 1
      <3>1. At(f, p).dst # -1
        BY <2>1
      <3> QED
        BY <3>1 DEF Sound, WellFormed, SingleAssignment, N
    <2>3. N # 0
      BY <2>2
    <2> QED
      BY <1>4, <2>1, <2>3
  <1> QED
    BY <1>5, <1>6, <1>7, <1>8 DEF Deletable, M, N

(* A store defines nothing.                                                *)
LEMMA DeadStoresDeletable ==
  ASSUME NEW f, Sound(f)
  PROVE  Deletable(f, DeadStores(f)) /\ DeadStores(f) \subseteq Positions(f)
  <1>1. \A p \in DeadStores(f) : p \in Positions(f) /\ At(f, p).op = "store"
    BY Zenon DEF DeadStores
  <1>2. \A p \in Positions(f) : TypedInstr(At(f, p))
    <2>1. Laid(f)
      BY TypedIsLaid DEF Sound
    <2>2. ASSUME NEW p \in Positions(f)
          PROVE  TypedInstr(At(f, p))
      <3>1. \E k, i : Place(f, k, i) /\ At(f, p) = f.blocks[k][i]
        BY <2>1, PositionProperties DEF Place
      <3> QED
        BY <3>1, TypedInstructions
    <2> QED
      BY <2>2
  <1>3. ASSUME NEW p \in DeadStores(f)
        PROVE  ~op_is_terminator(At(f, p).op)
    BY <1>1 DEF op_is_terminator, Terminators
  <1>4. ASSUME NEW q \in Positions(f), NEW t \in TempsIn(At(f, q)), NEW p \in DefsOf(f, t), p \in DeadStores(f)
        PROVE  FALSE
    <2>1. t >= 0
      BY <1>2 DEF TypedInstr
    <2>2. At(f, p).dst = t
      BY DEF DefsOf
    <2>3. At(f, p).dst = -1
      BY <1>1, <1>2, <1>4 DEF TypedInstr
    <2> QED
      BY <2>1, <2>2, <2>3
  <1> QED
    BY <1>1, <1>3, <1>4 DEF Deletable

(* A sweep in terms of the lengths of blocks.                              *)
Shrinks(f, g) ==
  /\ Len(f.blocks) \in Nat /\ Len(g.blocks) = Len(f.blocks)
  /\ \A k \in 1 .. Len(f.blocks) : /\ Len(f.blocks[k]) \in Nat /\ Len(g.blocks[k]) \in Nat
                                   /\ Len(g.blocks[k]) <= Len(f.blocks[k])
Shorter(f, g) == \E k \in 1 .. Len(f.blocks) : Len(g.blocks[k]) < Len(f.blocks[k])

LEMMA SweepShrinks ==
  ASSUME NEW f, Sound(f), NEW dead, Deletable(f, dead), dead \subseteq Positions(f)
  PROVE  LET g == sweep_dead(f, dead)
         IN  Sound(g) /\ Shrinks(f, g) /\ (dead = {} => g = f) /\ (dead # {} => Shorter(f, g))
  <1>1. Len(f.blocks) \in Nat
    BY TypedIsLaid DEF Sound, Laid
  <1>2. dead \cap Positions(f) = dead
    OBVIOUS
  <1> QED
    BY <1>1, <1>2, SweepKeeps, Zenon DEF Shrinks, Shorter

LEMMA ShrinksTwice ==
  ASSUME NEW f, NEW g, NEW h, Shrinks(f, g), Shrinks(g, h)
  PROVE  /\ Shrinks(f, h)
         /\ Shorter(f, g) \/ Shorter(g, h) => Shorter(f, h)
  <1>1. /\ Len(f.blocks) \in Nat /\ Len(g.blocks) = Len(f.blocks) /\ Len(h.blocks) = Len(f.blocks)
        /\ \A k \in 1 .. Len(f.blocks) : /\ Len(f.blocks[k]) \in Nat /\ Len(g.blocks[k]) \in Nat /\ Len(h.blocks[k]) \in Nat
                                         /\ Len(g.blocks[k]) <= Len(f.blocks[k]) /\ Len(h.blocks[k]) <= Len(g.blocks[k])
    BY DEF Shrinks
  <1>2. Shrinks(f, h)
    <2>1. \A k \in 1 .. Len(f.blocks) : Len(h.blocks[k]) <= Len(f.blocks[k])
      BY <1>1
    <2> QED
      BY <1>1, <2>1, Zenon DEF Shrinks
  <1>3. ASSUME NEW k \in 1 .. Len(f.blocks)
        PROVE  Len(g.blocks[k]) < Len(f.blocks[k]) \/ Len(h.blocks[k]) < Len(g.blocks[k])
               => Len(h.blocks[k]) < Len(f.blocks[k])
    BY <1>1
  <1>4. Shorter(f, g) \/ Shorter(g, h) => Shorter(f, h)
    BY <1>1, <1>3, Zenon DEF Shorter
  <1> QED
    BY <1>2, <1>4

(* Dead-code elimination keeps a function well formed and says whether it  *)
(* changed it.                                                             *)
LEMMA DceKeeps ==
  ASSUME NEW f, Sound(f)
  PROVE  Sound(dce(f).f) /\ dce(f).changed \in BOOLEAN /\ (dce(f).changed <=> dce(f).f # f)
  <1> DEFINE a == remove_unreachable(f)
             b == eliminate_dead_temps(a.f)
             c == dead_store_elim(b.f)
  <1>1. /\ Sound(a.f) /\ a.changed \in BOOLEAN
        /\ Len(f.blocks) \in Nat /\ Len(a.f.blocks) \in Nat
        /\ a.changed => Len(a.f.blocks) < Len(f.blocks)
        /\ ~a.changed => a.f = f
    BY RemoveUnreachableKeeps
  <1>2. /\ Sound(b.f) /\ Shrinks(a.f, b.f) /\ b.changed \in BOOLEAN
        /\ ~b.changed => b.f = a.f
        /\ b.changed => Shorter(a.f, b.f)
    <2> DEFINE h == a.f
               dead == Marked(h)[h.next_temp]
    <2>1. b.f = sweep_dead(h, dead) /\ (b.changed <=> Useless(h, {}) # {}) /\ b.changed \in BOOLEAN
      BY DEF eliminate_dead_temps
    <2> HIDE DEF h, b
    <2>2. Sound(h)
      BY <1>1 DEF h
    <2>3. Deletable(h, dead) /\ dead \subseteq Positions(h) /\ (Useless(h, {}) # {} <=> dead # {})
      BY <2>2, MarkedDeletable
    <2>4. /\ Sound(b.f) /\ Shrinks(h, b.f) /\ b.changed \in BOOLEAN
          /\ (dead = {} => b.f = h) /\ (dead # {} => Shorter(h, b.f))
      BY <2>1, <2>2, <2>3, SweepShrinks
    <2> QED
      BY <2>1, <2>3, <2>4 DEF h
  <1>3. /\ Sound(c.f) /\ Shrinks(b.f, c.f) /\ c.changed \in BOOLEAN
        /\ ~c.changed => c.f = b.f
        /\ c.changed => Shorter(b.f, c.f)
    <2> DEFINE h == b.f
               dead == DeadStores(h)
    <2>1. c.f = sweep_dead(h, dead) /\ (c.changed <=> dead # {}) /\ c.changed \in BOOLEAN
      BY DEF dead_store_elim
    <2> HIDE DEF h, c
    <2>2. Sound(h)
      BY <1>2 DEF h
    <2>3. Deletable(h, dead) /\ dead \subseteq Positions(h)
      BY <2>2, DeadStoresDeletable
    <2>4. /\ Sound(c.f) /\ Shrinks(h, c.f) /\ (dead = {} => c.f = h) /\ (dead # {} => Shorter(h, c.f))
      BY <2>1, <2>2, <2>3, SweepShrinks
    <2> QED
      BY <2>1, <2>4 DEF h
  <1>4. dce(f).f = c.f /\ (dce(f).changed <=> a.changed \/ b.changed \/ c.changed) /\ dce(f).changed \in BOOLEAN
    BY DEF dce
  <1> HIDE DEF a, b, c
  <1>5. /\ Shrinks(a.f, c.f) /\ Len(c.f.blocks) = Len(a.f.blocks)
        /\ b.changed \/ c.changed => Shorter(a.f, c.f)
    <2>1. Shrinks(a.f, c.f) /\ (b.changed \/ c.changed => Shorter(a.f, c.f))
      BY <1>2, <1>3, ShrinksTwice
    <2> QED
      BY <2>1 DEF Shrinks
  <1>6. ASSUME a.changed \/ b.changed \/ c.changed
        PROVE  c.f # f
    <2>1. CASE a.changed
      BY <1>1, <1>5, <2>1
    <2>2. CASE ~a.changed /\ (b.changed \/ c.changed)
      <3>1. a.f = f /\ Shorter(f, c.f) /\ \A k \in 1 .. Len(f.blocks) : Len(f.blocks[k]) \in Nat
        BY <1>1, <1>5, <2>2 DEF Shrinks
      <3> QED
        BY <3>1 DEF Shorter
    <2> QED
      BY <1>6, <2>1, <2>2
  <1>7. ASSUME ~(a.changed \/ b.changed \/ c.changed)
        PROVE  c.f = f
    BY <1>1, <1>2, <1>3, <1>7
  <1> QED
    BY <1>3, <1>4, <1>6, <1>7
=============================================================================
