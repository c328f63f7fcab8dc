------------------------- MODULE Evaluators_proofs -------------------------
(***************************************************************************)
(* The agreement of the evaluators, for every width of the word.           *)
(***************************************************************************)
EXTENDS Evaluators, Arith_proofs

LEMMA OpcodeOf ==
  /\ bin_bop["add"] = "Add" /\ bin_bop["sub"] = "Sub" /\ bin_bop["mul"] = "Mul"
  /\ bin_bop["div"] = "Div" /\ bin_bop["mod"] = "Mod"
  /\ bin_bop["lt"] = "Lt" /\ bin_bop["le"] = "Le" /\ bin_bop["gt"] = "Gt" /\ bin_bop["ge"] = "Ge"
  /\ bin_bop["eq"] = "Eq" /\ bin_bop["ne"] = "Ne" /\ bin_bop["and"] = "And" /\ bin_bop["or"] = "Or"
  BY DEF bin_bop

LEMMA OperandsAreWords == \A o \in IROps : Operands(o) \subseteq Word
  BY MaxIntAssumption DEF Operands, Word, MinInt

LEMMA UnaryOrBinary == UnaryIROps \cap BinaryIROps = {} /\ IROps = UnaryIROps \cup BinaryIROps
  BY DEF UnaryIROps, BinaryIROps, IROps

(* The VM's arithmetic, wherever it does not trap, yields the wrapped      *)
(* mathematical result.                                                    *)
LEMMA AluIsMeaning ==
  ASSUME NEW o \in BinaryIROps, NEW a \in Operands(o), NEW b \in Operands(o),
         ~DividesByZero(bin_bop[o], b)
  PROVE  /\ Alu(bin_bop[o], a, b) \in Word
         /\ Alu(bin_bop[o], a, b) = Meaning(o, a, b)
  <1>1. a \in Word /\ b \in Word
    BY OperandsAreWords, UnaryOrBinary
  <1>2. a \in Int /\ b \in Int /\ {0, 1} \subseteq Word
    BY <1>1, MaxIntAssumption DEF Word, MinInt
  <1>3. CASE o \in {"add", "sub", "mul"}
    BY <1>2, <1>3, OpcodeOf, WrapWord DEF Alu, Meaning
  <1>4. CASE o = "div"
    <2>1. b # 0
      BY <1>4, OpcodeOf DEF DividesByZero
    <2>2. CASE a = MinInt /\ b = -1
      <3>1. TruncDiv(a, b) = MaxInt + 1
        BY <2>2, MaxIntAssumption DEF TruncDiv, Abs, MinInt
      <3>2. Wrap(MaxInt + 1) = MinInt
        BY MaxIntAssumption DEF Wrap, MinInt
      <3> QED
        BY <1>1, <1>4, <2>2, <3>1, <3>2, OpcodeOf DEF Alu, Meaning, Quotient
    <2>3. CASE ~(a = MinInt /\ b = -1)
      <3>1. TruncDiv(a, b) \in Word
        BY <1>1, <2>1, <2>3, TruncDivWord
      <3> QED
        BY <1>4, <2>3, <3>1, WrapId, OpcodeOf DEF Alu, Meaning, Quotient
    <2> QED
      BY <2>2, <2>3
  <1>5. CASE o = "mod"
    <2>1. b # 0
      BY <1>5, OpcodeOf DEF DividesByZero
    <2>2. TruncMod(a, b) \in Word /\ Wrap(TruncMod(a, b)) = TruncMod(a, b)
      BY <1>1, <2>1, TruncModWord, WrapId
    <2>3. a = MinInt /\ b = -1 => TruncMod(a, b) = 0
      BY MaxIntAssumption DEF TruncMod, TruncDiv, Abs, MinInt
    <2> QED
      BY <1>5, <2>2, <2>3, OpcodeOf DEF Alu, Meaning, Remainder
  <1>6. CASE o \in {"lt", "le", "gt", "ge", "eq", "ne"}
    BY <1>2, <1>6, OpcodeOf DEF Alu, Meaning, Bit
  <1>7. CASE o \in {"and", "or"}
    <2>1. a \in {0, 1} /\ b \in {0, 1}
      BY <1>7 DEF Operands
    <2> QED
      BY <1>2, <1>7, <2>1, OpcodeOf DEF Alu, Meaning, Bit
  <1> QED
    BY <1>3, <1>4, <1>5, <1>6, <1>7 DEF BinaryIROps

(* The folder computes the same word, or refuses where the VM traps.       *)
LEMMA FoldIsRun ==
  ASSUME NEW o \in BinaryIROps, NEW a \in Word, NEW b \in Word
  PROVE  fold_binary(o, a, b) = RunBinary(o, a, b)
  <1>1. CASE o \in {"div", "mod"} /\ b = 0
    BY <1>1, OpcodeOf DEF fold_binary, RunBinary, DividesByZero
  <1>2. CASE o \in {"add", "sub", "mul", "and", "or"}
    BY <1>2, OpcodeOf DEF fold_binary, RunBinary, DividesByZero, Alu
  <1>3. CASE o \in {"lt", "le", "gt", "ge", "eq", "ne"}
    BY <1>3, OpcodeOf DEF fold_binary, RunBinary, DividesByZero, Alu
  <1>4. CASE o \in {"div", "mod"} /\ b # 0
    BY <1>4, OpcodeOf DEF fold_binary, RunBinary, DividesByZero, Alu, FoldDiv, FoldMod, Quotient, Remainder
  <1> QED
    BY <1>1, <1>2, <1>3, <1>4 DEF BinaryIROps

(* The same of the two unary operations.                                   *)
LEMMA UnaryIsMeaning ==
  ASSUME NEW o \in UnaryIROps, NEW a \in Operands(o)
  PROVE  /\ RunUnary(o, a).ok /\ RunUnary(o, a).out \in Word
         /\ RunUnary(o, a).out = UnaryMeaning(o, a)
  <1>1. a \in Int /\ {0, 1} \subseteq Word
    BY OperandsAreWords, UnaryOrBinary, MaxIntAssumption DEF Word, MinInt
  <1>2. CASE o = "neg"
    <2>1. RunUnary(o, a) = Folded(Wrap(0 - a))
      BY <1>2 DEF RunUnary, Alu1
    <2>2. 0 - a = -a /\ -a \in Int
      BY <1>1
    <2> QED
      BY <1>2, <2>1, <2>2, WrapWord DEF Folded, UnaryMeaning
  <1>3. CASE o = "not"
    <2>1. RunUnary(o, a) = Folded(Bit(a = 0))
      BY <1>3 DEF RunUnary, Alu1
    <2>2. a \in {0, 1}
      BY <1>3 DEF Operands
    <2> QED
      BY <1>1, <1>3, <2>1, <2>2 DEF Folded, UnaryMeaning, Bit
  <1> QED
    BY <1>2, <1>3 DEF UnaryIROps

LEMMA UnaryFoldIsRun ==
  ASSUME NEW o \in UnaryIROps, NEW a
  PROVE  FoldUnary(o, a) = RunUnary(o, a)
  <1> DEFINE in == Ins(o, 2, <<Const(a)>>)
  <1>1. in.op = o /\ in.dst = 2 /\ in.args = <<Const(a)>> /\ Const(a).n = a /\ is_const(Const(a))
    BY DEF Ins, NoInstr, Const, is_const
  <1>2. AllConst(in) /\ in.args[1].n = a /\ Len(in.args) = 1
    BY <1>1 DEF AllConst
  <1>3. FoldUnary(o, a) = FoldOf(in)
    BY DEF FoldUnary
  <1> HIDE DEF in
  <1>4. CASE o = "neg"
    BY <1>1, <1>2, <1>3, <1>4 DEF FoldOf, FoldNeg, RunUnary, Alu1
  <1>5. CASE o = "not"
    BY <1>1, <1>2, <1>3, <1>5 DEF FoldOf, RunUnary, Alu1
  <1> QED
    BY <1>4, <1>5 DEF UnaryIROps

-----------------------------------------------------------------------------
(* The inductive invariant: both results are those of the last operation.  *)
Inv ==
  /\ op \in IROps /\ x \in Operands(op)
  /\ op \in UnaryIROps => /\ y = 0
                          /\ folded = FoldUnary(op, x) /\ ran = RunUnary(op, x)
  /\ op \in BinaryIROps => /\ y \in Operands(op)
                           /\ folded = fold_binary(op, x, y) /\ ran = RunBinary(op, x, y)

LEMMA InvFacts ==
  ASSUME Inv
  PROVE  /\ x \in Word /\ y \in Word
         /\ folded = ran
         /\ op \in UnaryIROps => ran.ok
         /\ op \in BinaryIROps => /\ ran.ok = ~DividesByZero(bin_bop[op], y)
                                  /\ ran.ok => ran.out = Alu(bin_bop[op], x, y)
  <1>1. x \in Word /\ y \in Word
    BY OperandsAreWords, UnaryOrBinary, MaxIntAssumption DEF Inv, Word, MinInt
  <1>2. folded = ran
    BY <1>1, FoldIsRun, UnaryFoldIsRun, UnaryOrBinary DEF Inv
  <1>3. op \in UnaryIROps => ran.ok
    BY DEF Inv, RunUnary, Folded
  <1>4. ASSUME op \in BinaryIROps
        PROVE  /\ ran.ok = ~DividesByZero(bin_bop[op], y)
               /\ ran.ok => ran.out = Alu(bin_bop[op], x, y)
    <2>1. ran = RunBinary(op, x, y)
      BY <1>4 DEF Inv
    <2> QED
      BY <2>1 DEF RunBinary, Folded, NotFolded, DividesByZero
  <1> QED
    BY <1>1, <1>2, <1>3, <1>4

LEMMA InvHolds == Spec => []Inv
  <1>1. Init => Inv
    BY MaxIntAssumption DEF Init, Inv, Operands, IROps, UnaryIROps, BinaryIROps, Word, MinInt
  <1>2. Inv /\ [Next]_vars => Inv'
    <2> SUFFICES ASSUME Inv, [Next]_vars PROVE Inv'
      OBVIOUS
    <2>1. CASE UNCHANGED vars
      BY <2>1 DEF Inv, vars
    <2>2. ASSUME NEW o \in UnaryIROps, StepUnary(o)
          PROVE  Inv'
      BY <2>2, InvFacts, UnaryOrBinary DEF Inv, StepUnary
    <2>3. ASSUME NEW o \in BinaryIROps, NEW b \in Word, StepBinary(o, b)
          PROVE  Inv'
      BY <2>3, InvFacts, UnaryOrBinary DEF Inv, StepBinary
    <2> QED
      BY <2>1, <2>2, <2>3 DEF Next
  <1> QED
    BY <1>1, <1>2, PTL DEF Spec

(* What a rewrite of the simplifier knows and leaves: an operand equal to  *)
(* a constant has that value, equal operands have equal values, and the    *)
(* value of an operand does not depend on how it is seen.                  *)
LEMMA SeenOperands ==
  ASSUME Inv, NEW v \in BinaryViews
  PROVE  LET a == v[1]
             b == v[2]
         IN  /\ v = <<a, b>>
             /\ \A c \in Int : (Is(a, c) => x = c) /\ (Is(b, c) => y = c)
             /\ \A c \in Int : ValueOf(Const(c), a) = c
             /\ a = b => x = y
             /\ ValueOf(a, a) = x /\ ValueOf(b, a) = y
  <1>1. PICK a \in {Const(x), Temp(0)}, b \in {Const(y), Temp(0), Temp(1)} :
          v = <<a, b>> /\ (v = <<Temp(0), Temp(0)>> => x = y)
    BY DEF BinaryViews
  <1>2. v[1] = a /\ v[2] = b
    BY <1>1
  <1>3. (a = Temp(0) /\ b = Temp(0)) => x = y
    BY <1>1
  <1>4. \A m, n : (Const(m) = Const(n) => m = n) /\ Const(m) # Temp(n) /\ is_const(Const(m))
                   /\ ~is_const(Temp(n)) /\ Const(m).n = m
    BY DEF Const, Temp, is_const
  <1>5. Temp(0) # Temp(1)
    BY DEF Temp
  <1>6. a = b => x = y
    BY <1>3, <1>4, <1>5
  <1>7. \A c \in Int : (Is(a, c) => x = c) /\ (Is(b, c) => y = c)
    BY <1>4 DEF Is
  <1>8. ValueOf(a, a) = x /\ ValueOf(b, a) = y /\ \A c \in Int : ValueOf(Const(c), a) = c
    BY <1>4, <1>6 DEF ValueOf
  <1> QED
    BY <1>1, <1>2, <1>6, <1>7, <1>8

(* The rewrites of the simplifier and when it makes them.                  *)
LEMMA Rewrites ==
  ASSUME NEW in, NEW o \in BinaryIROps, NEW a, NEW b,
         in.op = o, in.dst = 2, in.args = <<a, b>>
  PROVE  LET new == Simplified(in)
         IN  \/ new = in
             \/ /\ new = make_copy(in, a)
                /\ \/ o \in {"add", "sub", "or"} /\ Is(b, 0)
                   \/ o \in {"mul", "and", "div"} /\ Is(b, 1)
             \/ /\ new = make_copy(in, b)
                /\ \/ o \in {"add", "or"} /\ Is(a, 0)
                   \/ o \in {"mul", "and"} /\ Is(a, 1)
             \/ /\ new = make_const(in, 0)
                /\ \/ o = "sub" /\ a = b
                   \/ o \in {"mul", "and"} /\ (Is(a, 0) \/ Is(b, 0))
                   \/ o = "mod" /\ Is(b, 1)
             \/ /\ new = make_const(in, 1)
                /\ o = "or" /\ (Is(a, 1) \/ Is(b, 1))
  <1>1. Len(in.args) = 2 /\ in.args[1] = a /\ in.args[2] = b /\ ~(in.dst < 0)
    OBVIOUS
  <1>2. CASE o = "add"
    BY <1>1, <1>2 DEF Simplified
  <1>3. CASE o = "sub"
    BY <1>1, <1>3 DEF Simplified
  <1>4. CASE o \in {"mul", "and"}
    BY <1>1, <1>4 DEF Simplified, Either
  <1>5. CASE o = "div"
    BY <1>1, <1>5 DEF Simplified
  <1>6. CASE o = "mod"
    BY <1>1, <1>6 DEF Simplified
  <1>7. CASE o = "or"
    BY <1>1, <1>7 DEF Simplified, Either
  <1>8. CASE o \in {"lt", "le", "gt", "ge", "eq", "ne"}
    BY <1>1, <1>8 DEF Simplified
  <1> QED
    BY <1>2, <1>3, <1>4, <1>5, <1>6, <1>7, <1>8 DEF BinaryIROps

LEMMA UnaryIsKept ==
  ASSUME op \in UnaryIROps, NEW v \in Views
  PROVE  Simplified(Ins(op, 2, v)) = Ins(op, 2, v)
  <1>1. PICK c : v = <<c>>
    BY DEF Views
  <1>2. Len(Ins(op, 2, v).args) = 1
    BY <1>1 DEF Ins, NoInstr
  <1> QED
    BY <1>2 DEF Simplified

LEMMA RewriteShape ==
  ASSUME NEW in, in.dst = 2, NEW v
  PROVE  /\ make_copy(in, v).dst = 2 /\ make_copy(in, v).op = "copy"
         /\ make_copy(in, v).args[1] = v
  BY DEF make_copy, Ins, NoInstr

LEMMA ConstShape ==
  ASSUME NEW in, in.dst = 2, NEW c
  PROVE  /\ make_const(in, c).dst = 2 /\ make_const(in, c).op = "const"
         /\ make_const(in, c).args[1] = Const(c)
  BY DEF make_const, Ins, NoInstr

(* The arithmetic the rewrites rest on.                                    *)
LEMMA NeutralAndAbsorbing ==
  ASSUME Inv, op \in BinaryIROps
  PROVE  /\ op = "add" => ran.ok /\ (y = 0 => ran.out = x) /\ (x = 0 => ran.out = y)
         /\ op = "sub" => ran.ok /\ (y = 0 => ran.out = x) /\ (x = y => ran.out = 0)
         /\ op = "mul" => /\ ran.ok /\ (x = 0 \/ y = 0 => ran.out = 0)
                          /\ (y = 1 => ran.out = x) /\ (x = 1 => ran.out = y)
         /\ op = "and" => /\ ran.ok /\ (x = 0 \/ y = 0 => ran.out = 0)
                          /\ (y = 1 => ran.out = x) /\ (x = 1 => ran.out = y)
         /\ op = "or"  => /\ ran.ok /\ (x = 1 \/ y = 1 => ran.out = 1)
                          /\ (y = 0 => ran.out = x) /\ (x = 0 => ran.out = y)
         /\ op = "div" /\ y = 1 => ran.ok /\ ran.out = x
         /\ op = "mod" /\ y = 1 => ran.ok /\ ran.out = 0
  <1>1. x \in Word /\ y \in Word /\ x \in Int /\ y \in Int /\ 0 \in Word
    BY InvFacts, MaxIntAssumption DEF Word, MinInt
  <1>2. Wrap(x) = x /\ Wrap(y) = y /\ Wrap(0) = 0
    BY <1>1, WrapId
  <1>3. op \notin {"div", "mod"} \/ y # 0 => ran.ok /\ ran.out = Alu(bin_bop[op], x, y)
    BY InvFacts, OpcodeOf DEF Inv, BinaryIROps, DividesByZero
  <1>4. CASE op = "add"
    <2>1. ran.ok /\ ran.out = Wrap(x + y)
      BY <1>3, <1>4, OpcodeOf DEF Alu
    <2> QED
      BY <1>1, <1>2, <1>4, <2>1
  <1>5. CASE op = "sub"
    <2>1. ran.ok /\ ran.out = Wrap(x - y)
      BY <1>3, <1>5, OpcodeOf DEF Alu
    <2> QED
      BY <1>1, <1>2, <1>5, <2>1
  <1>6. CASE op = "mul"
    <2>1. ran.ok /\ ran.out = Wrap(x * y)
      BY <1>3, <1>6, OpcodeOf DEF Alu
    <2>2. (x = 0 \/ y = 0 => x * y = 0) /\ (y = 1 => x * y = x) /\ (x = 1 => x * y = y)
      BY <1>1
    <2> QED
      BY <1>2, <1>6, <2>1, <2>2
  <1>7. CASE op \in {"and", "or"}
    <2>1. x \in {0, 1} /\ y \in {0, 1}
      BY <1>7 DEF Inv, Operands
    <2> QED
      BY <1>3, <1>7, <2>1, OpcodeOf DEF Alu, Bit
  <1>8. CASE op = "div"
    <2>1. y = 1 => ran.ok /\ ran.out = Quotient(x, y)
      BY <1>3, <1>8, OpcodeOf DEF Alu
    <2>2. TruncDiv(x, 1) = x
      BY <1>1 DEF TruncDiv, Abs
    <2> QED
      BY <1>8, <2>1, <2>2 DEF Quotient
  <1>9. CASE op = "mod"
    <2>1. y = 1 => ran.ok /\ ran.out = Remainder(x, y)
      BY <1>3, <1>9, OpcodeOf DEF Alu
    <2>2. TruncMod(x, 1) = 0
      BY <1>1 DEF TruncMod, TruncDiv, Abs
    <2> QED
      BY <1>9, <2>1, <2>2 DEF Remainder
  <1> QED
    BY <1>4, <1>5, <1>6, <1>7, <1>8, <1>9

(* A constant the compiler folds is the word the VM would have computed,   *)
(* and the folder refuses exactly what traps, at every width.              *)
THEOREM FoldingIsRunning == Spec => []FolderAgreesWithVM
  <1>1. Inv => FolderAgreesWithVM
    BY InvFacts DEF FolderAgreesWithVM
  <1> QED
    BY <1>1, InvHolds, PTL

(* What the VM computes is the mathematical result wrapped to a word.      *)
THEOREM RunningIsMeaning == Spec => []VMComputesTheMeaning
  <1>1. Inv => VMComputesTheMeaning
    <2> SUFFICES ASSUME Inv PROVE VMComputesTheMeaning
      OBVIOUS
    <2>1. CASE op \in UnaryIROps
      BY <2>1, UnaryIsMeaning DEF Inv, VMComputesTheMeaning
    <2>2. CASE op \in BinaryIROps
      BY <2>2, InvFacts, AluIsMeaning, UnaryOrBinary DEF Inv, VMComputesTheMeaning
    <2> QED
      BY <2>1, <2>2, UnaryOrBinary DEF Inv
  <1> QED
    BY <1>1, InvHolds, PTL

(* No rewrite of the simplifier changes the word the VM would compute, and *)
(* none removes a trap, whatever the compiler knows of the operands.       *)
THEOREM SimplifyingIsRunning == Spec => []SimplifierAgreesWithVM
  <1>1. Inv => SimplifierAgreesWithVM
    <2> SUFFICES ASSUME Inv, NEW v \in Views,
                        Simplified(Ins(op, 2, v)) # Ins(op, 2, v)
                 PROVE  LET new == Simplified(Ins(op, 2, v))
                        IN  /\ ran.ok
                            /\ new.dst = 2 /\ new.op \in {"const", "copy"}
                            /\ ValueOf(new.args[1], v[1]) = ran.out
      BY DEF SimplifierAgreesWithVM
    <2> op \in BinaryIROps /\ v \in BinaryViews
      BY UnaryIsKept, UnaryOrBinary DEF Inv, Views
    <2> DEFINE a == v[1]
               b == v[2]
               in == Ins(op, 2, v)
               new == Simplified(in)
    <2>1. /\ v = <<a, b>>
          /\ \A c \in {0, 1} : (Is(a, c) => x = c) /\ (Is(b, c) => y = c) /\ ValueOf(Const(c), a) = c
          /\ a = b => x = y
          /\ ValueOf(a, a) = x /\ ValueOf(b, a) = y
      BY SeenOperands
    <2> HIDE DEF a, b
    <2>2. in.op = op /\ in.dst = 2 /\ in.args = <<a, b>>
      BY <2>1 DEF Ins, NoInstr
    <2>3. op \in BinaryIROps
      OBVIOUS
    <2> HIDE DEF in
    <2>4. new # in
      BY DEF in
    <2> SUFFICES /\ ran.ok
                 /\ new.dst = 2 /\ new.op \in {"const", "copy"}
                 /\ ValueOf(new.args[1], a) = ran.out
      BY DEF in, a
    <2> HIDE DEF new
    <2>5. CASE /\ new = make_copy(in, a)
               /\ \/ op \in {"add", "sub", "or"} /\ Is(b, 0)
                  \/ op \in {"mul", "and", "div"} /\ Is(b, 1)
      BY <2>1, <2>2, <2>5, RewriteShape, NeutralAndAbsorbing
    <2>6. CASE /\ new = make_copy(in, b)
               /\ \/ op \in {"add", "or"} /\ Is(a, 0)
                  \/ op \in {"mul", "and"} /\ Is(a, 1)
      BY <2>1, <2>2, <2>6, RewriteShape, NeutralAndAbsorbing
    <2>7. CASE /\ new = make_const(in, 0)
               /\ \/ op = "sub" /\ a = b
                  \/ op \in {"mul", "and"} /\ (Is(a, 0) \/ Is(b, 0))
                  \/ op = "mod" /\ Is(b, 1)
      BY <2>1, <2>2, <2>7, ConstShape, NeutralAndAbsorbing
    <2>8. CASE new = make_const(in, 1) /\ op = "or" /\ (Is(a, 1) \/ Is(b, 1))
      BY <2>1, <2>2, <2>8, ConstShape, NeutralAndAbsorbing
    <2> QED
      BY <2>2, <2>3, <2>4, <2>5, <2>6, <2>7, <2>8, Rewrites DEF new
  <1> QED
    BY <1>1, InvHolds, PTL
=============================================================================
