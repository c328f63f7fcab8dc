----------------------------- MODULE VM_proofs -----------------------------
(***************************************************************************)
(* The machine stays inside its code, registers, slots and call depth, and *)
(* keeps its activations apart, for every bound on the depth, every width  *)
(* of the word and every set of well-formed programs.                      *)
(***************************************************************************)
EXTENDS VM, Arith_proofs

(* The inductive invariant.  An activation that is not running waits at a  *)
(* Call: that is what lets a return resume it at the next instruction, and *)
(* what makes the register it writes one the caller has.                   *)
Suspended == \A i \in 1 .. Len(stack) - 1 : CodeAt(stack[i]).op = "Call"
Inv == TypeOK /\ DepthOK /\ Suspended

-----------------------------------------------------------------------------
(* A sequence is one over its own elements, and so are the sequences the   *)
(* machine makes of its stack: the last element replaced, one appended, the *)
(* last dropped, all dropped.                                              *)
LEMMA OverRange ==
  ASSUME NEW S, NEW s \in Seq(S)
  PROVE  s \in Seq(Range(s)) /\ DOMAIN s = 1 .. Len(s) /\ Len(s) \in Nat
  <1>1. s \in [1 .. Len(s) -> Range(s)] /\ Len(s) \in Nat
    BY DEF Range
  <1> QED
    BY <1>1

LEMMA Replaced ==
  ASSUME NEW s, s \in Seq(Range(s)), NEW n \in 1 .. Len(s), NEW e
  PROVE  LET t == [s EXCEPT ![n] = e]
         IN  /\ t \in Seq(Range(t)) /\ DOMAIN t = 1 .. Len(s) /\ Len(t) = Len(s)
             /\ \A i \in 1 .. Len(s) : t[i] = IF i = n THEN e ELSE s[i]
  <1> DEFINE S == Range(s) \cup {e}
             t == [s EXCEPT ![n] = e]
  <1>1. s \in [1 .. Len(s) -> S] /\ Len(s) \in Nat
    BY DEF Range
  <1>2. t \in [1 .. Len(s) -> S] /\ \A i \in 1 .. Len(s) : t[i] = IF i = n THEN e ELSE s[i]
    BY <1>1
  <1> HIDE DEF S, t
  <1>3. t \in Seq(S) /\ Len(t) = Len(s) /\ DOMAIN t = 1 .. Len(s)
    BY <1>1, <1>2
  <1> QED
    BY <1>2, <1>3, OverRange DEF t

LEMMA Emptied ==
  ASSUME NEW t, t = <<>>
  PROVE  t \in Seq(Range(t)) /\ Len(t) = 0 /\ DOMAIN t = {}
  BY OverRange

LEMMA Appended ==
  ASSUME NEW s, s \in Seq(Range(s)), NEW e
  PROVE  LET t == Append(s, e)
         IN  /\ t \in Seq(Range(t)) /\ DOMAIN t = 1 .. Len(s) + 1 /\ Len(t) = Len(s) + 1
             /\ \A i \in 1 .. Len(s) + 1 : t[i] = IF i = Len(s) + 1 THEN e ELSE s[i]
  <1> DEFINE S == Range(s) \cup {e}
             t == Append(s, e)
  <1>1. s \in [1 .. Len(s) -> S] /\ Len(s) \in Nat
    BY DEF Range
  <1>2. e \in S
    OBVIOUS
  <1> HIDE DEF S
  <1>3. s \in Seq(S)
    BY <1>1
  <1>4. t \in Seq(S) /\ Len(t) = Len(s) + 1
    BY <1>2, <1>3
  <1>5. \A i \in 1 .. Len(s) + 1 : t[i] = IF i = Len(s) + 1 THEN e ELSE s[i]
    BY <1>2, <1>3
  <1> HIDE DEF t
  <1>6. t \in Seq(Range(t)) /\ DOMAIN t = 1 .. Len(t)
    BY <1>4, OverRange
  <1>7. DOMAIN t = 1 .. Len(s) + 1
    BY <1>4, <1>6
  <1> QED
    BY <1>4, <1>5, <1>6, <1>7 DEF t

LEMMA Popped ==
  ASSUME NEW s, s \in Seq(Range(s)), NEW n \in 0 .. Len(s)
  PROVE  LET t == SubSeq(s, 1, n)
         IN  /\ t \in Seq(Range(t)) /\ DOMAIN t = 1 .. n /\ Len(t) = n
             /\ \A i \in 1 .. n : t[i] = s[i]
  <1> DEFINE S == Range(s)
             t == SubSeq(s, 1, n)
  <1>1. s \in Seq(S) /\ Len(s) \in Nat
    OBVIOUS
  <1> HIDE DEF S
  <1>2. t \in Seq(S) /\ Len(t) = n
    BY <1>1
  <1>3. \A i \in 1 .. n : t[i] = s[i]
    BY <1>1
  <1> HIDE DEF t
  <1>4. t \in Seq(Range(t)) /\ DOMAIN t = 1 .. n
    BY <1>2, OverRange
  <1> QED
    BY <1>2, <1>3, <1>4 DEF t

-----------------------------------------------------------------------------
(* What the code of a well-formed program guarantees where an activation   *)
(* is.                                                                     *)
LEMMA Fetched ==
  ASSUME Inv, NEW i \in DOMAIN stack
  PROVE  LET fr == stack[i]
             c  == CodeAt(fr)
         IN  /\ FrameOK(fr)
             /\ Func(fr) \in BCFunction
             /\ c \in BC
             /\ BCOK(c, fr.pc, Func(fr), prog)
  <1> DEFINE fr == stack[i]
  <1>1. FrameOK(fr) /\ ProgramOK(prog)
    BY ProgramsAssumption DEF Inv, TypeOK
  <1>2. prog.funcs \in Seq(BCFunction) /\ fr.fn + 1 \in DOMAIN prog.funcs
    BY <1>1 DEF ProgramOK, BCProgram, FrameOK
  <1>3. Func(fr) \in BCFunction /\ BCFunctionOK(Func(fr), prog)
    BY <1>1, <1>2 DEF ProgramOK, Func
  <1>4. Func(fr).code \in Seq(BC) /\ fr.pc + 1 \in DOMAIN Func(fr).code
    BY <1>1, <1>3 DEF FrameOK, BCFunction
  <1>5. CodeAt(fr) \in BC
    BY <1>4 DEF CodeAt
  <1>6. BCOK(CodeAt(fr), fr.pc, Func(fr), prog)
    <2>1. BCOK(Func(fr).code[fr.pc + 1], (fr.pc + 1) - 1, Func(fr), prog)
      BY <1>3, <1>4 DEF BCFunctionOK
    <2>2. (fr.pc + 1) - 1 = fr.pc
      BY <1>1 DEF FrameOK
    <2> QED
      BY <2>1, <2>2 DEF CodeAt
  <1> QED
    BY <1>1, <1>3, <1>5, <1>6

LEMMA OperandWord ==
  ASSUME NEW f \in BCFunction, NEW o \in Operand, OperandOK(o, f),
         NEW regs \in [0 .. f.num_regs - 1 -> Word]
  PROVE  Val(o, regs) \in Word
  BY DEF Operand, OperandOK, Val

(* The running activation.                                                 *)
LEMMA Top ==
  ASSUME Inv, status = "running"
  PROVE  /\ Len(stack) \in Nat \ {0}
         /\ Len(stack) \in DOMAIN stack
         /\ top = stack[Len(stack)]
         /\ depth = Len(stack)
  <1> DEFINE S == Range(stack)
  <1>1. stack \in Seq(S) /\ depth = Len(stack) /\ depth >= 1
    BY DEF Inv, TypeOK, DepthOK, Range
  <1> HIDE DEF S
  <1> QED
    BY <1>1 DEF top

-----------------------------------------------------------------------------
(* The three ways a step changes the stack.                                *)
LEMMA SetTopKeeps ==
  ASSUME Inv, status = "running", out' \in Seq(Word),
         NEW fr, FrameOK(fr), SetTop(fr)
  PROVE  Inv'
  <1> DEFINE n == Len(stack)
  <1>0. n \in Nat \ {0}
    BY Top
  <1>1. n \in Nat \ {0} /\ stack \in Seq(Range(stack)) /\ DOMAIN stack = 1 .. n
    BY Top, OverRange DEF Inv, TypeOK
  <1>2. /\ stack' \in Seq(Range(stack')) /\ DOMAIN stack' = 1 .. n
        /\ Len(stack') = n
        /\ \A i \in 1 .. n : stack'[i] = IF i = n THEN fr ELSE stack[i]
    <2>1. stack' = [stack EXCEPT ![n] = fr]
      BY DEF SetTop
    <2>2. n \in 1 .. Len(stack)
      BY <1>1
    <2> QED
      BY <1>1, <2>1, <2>2, Replaced
  <1>3. UNCHANGED <<prog, depth, status, error, value>>
    BY DEF SetTop
  <1>4. \A f : FrameOK(f)' <=> FrameOK(f)
    BY <1>3 DEF FrameOK, Func
  <1>5. \A f : CodeAt(f)' = CodeAt(f)
    BY <1>3 DEF CodeAt, Func
  <1>6. TypeOK'
    <2>1. \A i \in DOMAIN stack' : FrameOK(stack'[i])
      BY <1>1, <1>2 DEF Inv, TypeOK
    <2>2. \A i \in DOMAIN stack' : FrameOK(stack[i])'
      BY <1>4, <2>1
    <2> QED
      BY <1>2, <1>3, <2>2 DEF Inv, TypeOK
  <1>7. DepthOK'
    BY <1>2, <1>3 DEF Inv, DepthOK
  <1>8. Suspended'
    <2>1. \A i \in 1 .. n - 1 : stack'[i] = stack[i] /\ CodeAt(stack[i]).op = "Call"
      <3>1. \A i \in 1 .. n : i # n => stack'[i] = stack[i]
        BY <1>2
      <3>2. \A i \in 1 .. n - 1 : i \in 1 .. n /\ i # n
        BY <1>0
      <3> QED
        BY <3>1, <3>2 DEF Inv, Suspended
    <2>2. \A i \in 1 .. n - 1 : CodeAt(stack[i])' = CodeAt(stack[i])
      BY <1>5, <2>1
    <2> QED
      BY <1>2, <2>1, <2>2 DEF Suspended
  <1> QED
    BY <1>6, <1>7, <1>8 DEF Inv

LEMMA TrapKeeps ==
  ASSUME Inv, depth' \in Int,
         NEW msg \in Errors, Trap(msg), msg = "stack_overflow" => depth' = kMaxDepth + 1
  PROVE  Inv'
  <1>0. stack' \in Seq(Range(stack')) /\ Len(stack') = 0 /\ DOMAIN stack' = {}
    BY Emptied DEF Trap
  <1>1. TypeOK'
    BY <1>0 DEF Inv, TypeOK, Trap
  <1>2. DepthOK'
    BY DEF Inv, DepthOK, Trap
  <1>3. Suspended'
    <2>1. 1 .. Len(stack') - 1 = {}
      BY <1>0
    <2> QED
      BY <2>1 DEF Suspended
  <1> QED
    BY <1>1, <1>2, <1>3 DEF Inv

(* An activation starts at the first instruction of code that has one, with *)
(* the arguments in its first slots.                                       *)
LEMMA EnteredFrame ==
  ASSUME prog \in Programs, NEW fn \in 0 .. Len(prog.funcs) - 1, NEW args \in Seq(Word)
  PROVE  FrameOK(NewFrame(fn, args))
  <1> DEFINE f == prog.funcs[fn + 1]
             fr == NewFrame(fn, args)
  <1>1. ProgramOK(prog) /\ prog.funcs \in Seq(BCFunction) /\ fn + 1 \in DOMAIN prog.funcs
    BY ProgramsAssumption DEF ProgramOK, BCProgram
  <1>2. f \in BCFunction /\ BCFunctionOK(f, prog)
    BY <1>1 DEF ProgramOK
  <1>3. 0 \in 0 .. Len(f.code) - 1
    BY <1>2 DEF BCFunction, BCFunctionOK
  <1>4. 0 \in Word
    BY MaxIntAssumption DEF Word, MinInt
  <1>5. [s \in 0 .. f.num_slots - 1 |-> IF s < Len(args) THEN args[s + 1] ELSE 0]
          \in [0 .. f.num_slots - 1 -> Word]
    BY <1>2, <1>4 DEF BCFunction
  <1>6. fr.fn = fn /\ Func(fr) = f
    BY DEF NewFrame, Func
  <1> QED
    BY <1>3, <1>4, <1>5, <1>6 DEF FrameOK, NewFrame

LEMMA EnterKeeps ==
  ASSUME Inv, status = "ready" \/ (status = "running" /\ cur.op = "Call"),
         NEW fn \in 0 .. Len(prog.funcs) - 1,
         NEW args \in Seq(Word), Enter(fn, args)
  PROVE  Inv'
  <1>1. CASE depth' > kMaxDepth
    <2>1. depth' = depth + 1 /\ Trap("stack_overflow")
      BY <1>1 DEF Enter
    <2>2. depth \in Int /\ depth <= kMaxDepth
      <3>1. CASE status = "ready"
        BY <3>1, DepthAssumption DEF Inv, DepthOK
      <3>2. CASE status = "running"
        BY <3>2, DepthAssumption DEF Inv, DepthOK
      <3> QED
        BY <3>1, <3>2
    <2>3. depth' = kMaxDepth + 1 /\ depth' \in Int
      BY <1>1, <2>1, <2>2, DepthAssumption
    <2> QED
      BY <2>1, <2>3, TrapKeeps DEF Errors
  <1>2. CASE ~(depth' > kMaxDepth)
    <2> DEFINE fr == NewFrame(fn, args)
               n == Len(stack)
    <2>1. /\ stack' = Append(stack, fr)
          /\ status' = "running" /\ depth' = depth + 1
          /\ UNCHANGED <<prog, out, error, value>>
      BY <1>2 DEF Enter
    <2>4. FrameOK(fr)
      BY EnteredFrame DEF Inv, TypeOK
    <2> HIDE DEF fr
    <2>2. stack \in Seq(Range(stack)) /\ n \in Nat /\ DOMAIN stack = 1 .. n
      BY OverRange DEF Inv, TypeOK
    <2>3. /\ stack' \in Seq(Range(stack')) /\ DOMAIN stack' = 1 .. n + 1 /\ Len(stack') = n + 1
          /\ \A i \in 1 .. n + 1 : stack'[i] = IF i = n + 1 THEN fr ELSE stack[i]
      <3>1. stack \in Seq(Range(stack)) /\ stack' = Append(stack, fr)
        BY <2>1, <2>2
      <3> QED
        BY <3>1, Appended
    <2>5. depth = n
      BY <2>2 DEF Inv, DepthOK
    <2>6. \A f : (FrameOK(f)' <=> FrameOK(f)) /\ CodeAt(f)' = CodeAt(f)
      BY <2>1 DEF FrameOK, CodeAt, Func
    <2>7. TypeOK'
      <3>1. \A i \in DOMAIN stack' : FrameOK(stack'[i])
        BY <2>2, <2>3, <2>4 DEF Inv, TypeOK
      <3>2. \A i \in DOMAIN stack' : FrameOK(stack[i])'
        BY <2>6, <3>1
      <3> QED
        BY <2>1, <2>3, <2>5, <3>2 DEF Inv, TypeOK
    <2>8. DepthOK'
      <3>1. depth' = n + 1 /\ Len(stack') = n + 1 /\ n + 1 <= kMaxDepth /\ n \in Nat
        BY <1>2, <2>1, <2>2, <2>3, <2>5, DepthAssumption
      <3>2. error' # "stack_overflow"
        BY <2>1, <2>5, <3>1, DepthAssumption DEF Inv, DepthOK
      <3> QED
        BY <2>1, <3>1, <3>2, DepthAssumption DEF DepthOK
    <2>9. Suspended'
      <3>1. \A i \in 1 .. n : CodeAt(stack[i]).op = "Call"
        <4>1. CASE status = "ready"
          <5>1. n = 0
            BY <4>1 DEF Inv, DepthOK
          <5> QED
            BY <5>1
        <4>2. CASE status = "running" /\ cur.op = "Call"
          BY <2>2, <4>2 DEF Inv, Suspended, cur, top
        <4> QED
          BY <4>1, <4>2
      <3> QED
        <4>1. \A i \in 1 .. n : stack'[i] = stack[i]
          BY <2>2, <2>3
        <4>2. \A i \in 1 .. n : CodeAt(stack[i])' = CodeAt(stack[i])
          BY <2>6, <4>1
        <4>3. 1 .. Len(stack') - 1 = 1 .. n
          BY <2>2, <2>3
        <4> QED
          BY <3>1, <4>2, <4>3 DEF Suspended
    <2> QED
      BY <2>7, <2>8, <2>9 DEF Inv
  <1> QED
    BY <1>1, <1>2

(* What an instruction does to its activation: a register or a slot takes  *)
(* a word, and control goes on inside the code.                            *)
LEMMA MovesOn ==
  ASSUME NEW fr, FrameOK(fr), NEW pc \in 0 .. Len(Func(fr).code) - 1
  PROVE  FrameOK([fr EXCEPT !.pc = pc])
  BY DEF FrameOK, Func

LEMMA WritesRegister ==
  ASSUME NEW fr, FrameOK(fr), NEW d \in 0 .. Func(fr).num_regs - 1, NEW v \in Word,
         fr.pc + 1 < Len(Func(fr).code)
  PROVE  FrameOK([fr EXCEPT !.regs[d] = v, !.pc = @ + 1])
  <1> DEFINE written == [fr.regs EXCEPT ![d] = v]
             mid == [fr EXCEPT !.regs = written]
  <1>1. written \in [0 .. Func(fr).num_regs - 1 -> Word]
    BY DEF FrameOK
  <1> HIDE DEF written
  <1>2. FrameOK(mid) /\ Func(mid) = Func(fr) /\ mid.pc = fr.pc
    BY <1>1 DEF FrameOK, Func
  <1> HIDE DEF mid
  <1>3. fr.pc + 1 \in 0 .. Len(Func(mid).code) - 1
    BY <1>2 DEF FrameOK
  <1>4. FrameOK([mid EXCEPT !.pc = fr.pc + 1])
    BY <1>2, <1>3, MovesOn
  <1> QED
    BY <1>4 DEF mid, written

LEMMA WritesSlot ==
  ASSUME NEW fr, FrameOK(fr), NEW s \in 0 .. Func(fr).num_slots - 1, NEW v \in Word,
         fr.pc + 1 < Len(Func(fr).code)
  PROVE  FrameOK([fr EXCEPT !.slots[s] = v, !.pc = @ + 1])
  <1> DEFINE written == [fr.slots EXCEPT ![s] = v]
             mid == [fr EXCEPT !.slots = written]
  <1>1. written \in [0 .. Func(fr).num_slots - 1 -> Word]
    BY DEF FrameOK
  <1> HIDE DEF written
  <1>2. FrameOK(mid) /\ Func(mid) = Func(fr) /\ mid.pc = fr.pc
    BY <1>1 DEF FrameOK, Func
  <1> HIDE DEF mid
  <1>3. fr.pc + 1 \in 0 .. Len(Func(mid).code) - 1
    BY <1>2 DEF FrameOK
  <1>4. FrameOK([mid EXCEPT !.pc = fr.pc + 1])
    BY <1>2, <1>3, MovesOn
  <1> QED
    BY <1>4 DEF mid, written

-----------------------------------------------------------------------------
(* The running activation, its instruction and its operands.               *)
LEMMA Current ==
  ASSUME Inv, status = "running"
  PROVE  /\ FrameOK(top) /\ Func(top) \in BCFunction
         /\ top.regs \in [0 .. Func(top).num_regs - 1 -> Word]
         /\ top.slots \in [0 .. Func(top).num_slots - 1 -> Word]
         /\ cur \in BC /\ BCOK(cur, top.pc, Func(top), prog)
         /\ out \in Seq(Word) /\ depth \in Int
  <1>1. Len(stack) \in DOMAIN stack /\ top = stack[Len(stack)]
    BY Top
  <1>2. /\ FrameOK(top) /\ Func(top) \in BCFunction
        /\ cur \in BC /\ BCOK(cur, top.pc, Func(top), prog)
    BY <1>1, Fetched DEF cur
  <1> QED
    BY <1>2 DEF FrameOK, Inv, TypeOK

LEMMA OperandAWord ==
  ASSUME Inv, status = "running",
         cur.op \in BinaryOps \cup UnaryOps \cup {"StoreSlot", "Print", "JmpIfFalse", "Ret"}
  PROVE  Val(cur.a, top.regs) \in Word
  <1>1. cur.a \in Operand /\ OperandOK(cur.a, Func(top))
    BY Current DEF BC, BCOK
  <1> QED
    BY <1>1, Current, OperandWord

LEMMA OperandBWord ==
  ASSUME Inv, status = "running", cur.op \in BinaryOps
  PROVE  Val(cur.b, top.regs) \in Word
  <1>1. cur.b \in Operand /\ OperandOK(cur.b, Func(top))
    BY Current DEF BC, BCOK
  <1> QED
    BY <1>1, Current, OperandWord

LEMMA ResultWord ==
  ASSUME Inv, status = "running", cur.op \in ValueOps,
         ~DividesByZero(cur.op, Val(cur.b, top.regs))
  PROVE  Result(cur, top) \in Word
  <1>1. CASE cur.op = "LoadConst"
    BY <1>1, Current DEF Result, BC, Operand
  <1>2. CASE cur.op = "Move"
    BY <1>2, OperandAWord DEF Result, UnaryOps
  <1>3. CASE cur.op \in {"Neg", "Not"}
    BY <1>3, OperandAWord, Alu1Word DEF Result, UnaryOps
  <1>4. CASE cur.op = "LoadSlot"
    BY <1>4, Current DEF Result, BCOK
  <1>5. CASE cur.op \in BinaryOps
    <2>1. Result(cur, top) = Alu(cur.op, Val(cur.a, top.regs), Val(cur.b, top.regs))
      BY <1>5 DEF Result, BinaryOps, ArithOps, CompareOps
    <2> QED
      BY <1>5, <2>1, OperandAWord, OperandBWord, AluWord
  <1> QED
    BY <1>1, <1>2, <1>3, <1>4, <1>5 DEF ValueOps, UnaryOps

-----------------------------------------------------------------------------
LEMMA ComputeKeeps ==
  ASSUME Inv, Compute
  PROVE  Inv'
  <1> DEFINE fr == [top EXCEPT !.regs[cur.dst] = Result(cur, top), !.pc = @ + 1]
  <1>1. status = "running" /\ SetTop(fr) /\ out' = out
    BY DEF Compute, Running
  <1>2. Result(cur, top) \in Word
    BY ResultWord DEF Compute, Running
  <1>3. cur.dst \in 0 .. Func(top).num_regs - 1 /\ top.pc + 1 < Len(Func(top).code)
    BY <1>1, Current DEF Compute, Running, BCOK, ValueOps, BinaryOps, ArithOps, CompareOps, UnaryOps
  <1>4. FrameOK(fr)
    BY <1>1, <1>2, <1>3, Current, WritesRegister
  <1> HIDE DEF fr
  <1> QED
    BY <1>1, <1>4, Current, SetTopKeeps

LEMMA StoreSlotKeeps ==
  ASSUME Inv, StoreSlot
  PROVE  Inv'
  <1> DEFINE fr == [top EXCEPT !.slots[cur.slot_idx] = Val(cur.a, top.regs), !.pc = @ + 1]
  <1>1. status = "running" /\ cur.op = "StoreSlot" /\ SetTop(fr) /\ out' = out
    BY DEF StoreSlot, Running
  <1>2. Val(cur.a, top.regs) \in Word
    BY <1>1, OperandAWord
  <1>3. cur.slot_idx \in 0 .. Func(top).num_slots - 1 /\ top.pc + 1 < Len(Func(top).code)
    BY <1>1, Current DEF BCOK
  <1>4. FrameOK(fr)
    BY <1>1, <1>2, <1>3, Current, WritesSlot
  <1> HIDE DEF fr
  <1> QED
    BY <1>1, <1>4, Current, SetTopKeeps

LEMMA PrintKeeps ==
  ASSUME Inv, PrintWord
  PROVE  Inv'
  <1> DEFINE fr == [top EXCEPT !.pc = @ + 1]
  <1>1. /\ status = "running" /\ cur.op = "Print" /\ SetTop(fr)
        /\ out' = Append(out, Val(cur.a, top.regs))
    BY DEF PrintWord, Running
  <1>2. out' \in Seq(Word)
    BY <1>1, OperandAWord, Current
  <1>3. top.pc + 1 \in 0 .. Len(Func(top).code) - 1
    BY <1>1, Current DEF BCOK, FrameOK
  <1>4. FrameOK(fr)
    BY <1>1, <1>3, Current, MovesOn
  <1> HIDE DEF fr
  <1> QED
    BY <1>1, <1>2, <1>4, SetTopKeeps

LEMMA JumpKeeps ==
  ASSUME Inv, Jmp \/ JmpIfFalse
  PROVE  Inv'
  <1>1. PICK pc \in {cur.target, top.pc + 1} :
          /\ status = "running" /\ cur.op \in {"Jmp", "JmpIfFalse"} /\ out' = out
          /\ SetTop([top EXCEPT !.pc = pc]) /\ (cur.op = "Jmp" => pc = cur.target)
    BY DEF Jmp, JmpIfFalse, Running
  <1>2. pc \in 0 .. Len(Func(top).code) - 1
    BY <1>1, Current DEF BCOK, FrameOK
  <1>3. FrameOK([top EXCEPT !.pc = pc])
    BY <1>1, <1>2, Current, MovesOn
  <1> QED
    BY <1>1, <1>3, Current, SetTopKeeps

LEMMA StartKeeps ==
  ASSUME Inv, Start
  PROVE  Inv'
  <1>1. ProgramOK(prog) /\ status = "ready" /\ depth \in Int
    BY ProgramsAssumption DEF Inv, TypeOK, Start
  <1>2. CASE prog.main_index < 0
    BY <1>1, <1>2, TrapKeeps DEF Start, Errors
  <1>3. CASE ~(prog.main_index < 0)
    <2>1. prog.main_index \in 0 .. Len(prog.funcs) - 1 /\ <<>> \in Seq(Word)
      BY <1>1, <1>3 DEF ProgramOK
    <2>2. Enter(prog.main_index, <<>>)
      BY <1>3 DEF Start
    <2> QED
      BY <1>1, <2>1, <2>2, EnterKeeps
  <1> QED
    BY <1>2, <1>3

LEMMA DivideByZeroKeeps ==
  ASSUME Inv, DivideByZero
  PROVE  Inv'
  <1>1. status = "running" /\ depth' = depth
    BY DEF DivideByZero, Running
  <1>2. PICK msg \in {"division_by_zero", "modulo_by_zero"} : Trap(msg)
    BY DEF DivideByZero
  <1> QED
    BY <1>1, <1>2, Current, TrapKeeps DEF Errors

LEMMA CallKeeps ==
  ASSUME Inv, Call
  PROVE  Inv'
  <1> DEFINE args == [i \in DOMAIN cur.args |-> Val(cur.args[i], top.regs)]
  <1>1. status = "running" /\ cur.op = "Call" /\ Enter(cur.callee, args)
    BY DEF Call, Running
  <1>2. /\ cur.callee \in 0 .. Len(prog.funcs) - 1
        /\ cur.args \in Seq(Operand)
        /\ \A i \in DOMAIN cur.args : OperandOK(cur.args[i], Func(top))
    BY <1>1, Current DEF BC, BCOK
  <1>3. \A i \in DOMAIN cur.args : Val(cur.args[i], top.regs) \in Word
    <2> TAKE i \in DOMAIN cur.args
    <2>1. cur.args[i] \in Operand /\ OperandOK(cur.args[i], Func(top))
      BY <1>2
    <2> QED
      BY <1>1, <2>1, Current, OperandWord
  <1>4. args \in Seq(Word)
    <2>1. DOMAIN cur.args = 1 .. Len(cur.args) /\ Len(cur.args) \in Nat
      BY <1>2
    <2>2. args \in [1 .. Len(cur.args) -> Word]
      BY <1>3, <2>1
    <2> HIDE DEF args
    <2> QED
      BY <2>1, <2>2
  <1> HIDE DEF args
  <1> QED
    BY <1>1, <1>2, <1>4, EnterKeeps

(* The return of a call resumes the caller, which is at its Call.          *)
ResumedFrame(fr, v) == [fr EXCEPT !.regs[CodeAt(fr).dst] = v, !.pc = @ + 1]

LEMMA RetResumes ==
  ASSUME Inv, Ret, Len(stack) > 1
  PROVE  LET n == Len(stack) - 1
             v == Val(cur.a, top.regs)
         IN  /\ n \in DOMAIN stack /\ v \in Word
             /\ FrameOK(stack[n]) /\ CodeAt(stack[n]).op = "Call"
             /\ CodeAt(stack[n]).dst \in DOMAIN stack[n].regs
             /\ FrameOK(ResumedFrame(stack[n], v))
             /\ stack' \in Seq(Range(stack')) /\ DOMAIN stack' = 1 .. n /\ Len(stack') = n
             /\ \A i \in 1 .. n : stack'[i] = IF i = n THEN ResumedFrame(stack[n], v) ELSE stack[i]
             /\ UNCHANGED <<status, value>>
  <1> DEFINE n == Len(stack) - 1
             v == Val(cur.a, top.regs)
             caller == stack[n]
             fr == ResumedFrame(caller, v)
             below == SubSeq(stack, 1, n)
  <1>0. v \in Word /\ n \in Nat /\ n # 0
    BY Top, OperandAWord DEF Ret, Running
  <1>1. stack' = [below EXCEPT ![n] = fr] /\ UNCHANGED <<status, value>>
    BY <1>0 DEF Ret, ResumedFrame
  <1>2. n \in 1 .. Len(stack) /\ n \in 1 .. Len(stack) - 1 /\ n \in DOMAIN stack
    BY <1>0, OverRange DEF Inv, TypeOK
  <1>3. FrameOK(caller) /\ BCOK(CodeAt(caller), caller.pc, Func(caller), prog)
    BY <1>2, Fetched
  <1>4. CodeAt(caller).op = "Call"
    BY <1>2 DEF Inv, Suspended
  <1>5. CodeAt(caller).dst \in 0 .. Func(caller).num_regs - 1
          /\ caller.pc + 1 < Len(Func(caller).code)
    BY <1>3, <1>4 DEF BCOK
  <1>6. FrameOK(fr)
    BY <1>0, <1>3, <1>5, WritesRegister DEF ResumedFrame
  <1> HIDE DEF fr
  <1>7. /\ below \in Seq(Range(below)) /\ Len(below) = n
        /\ \A i \in 1 .. n : below[i] = stack[i]
    <2>1. n \in 0 .. Len(stack) /\ stack \in Seq(Range(stack))
      BY <1>2 DEF Inv, TypeOK
    <2> HIDE DEF n
    <2> QED
      BY <2>1, Popped
  <1> HIDE DEF below
  <1>8. /\ stack' \in Seq(Range(stack')) /\ DOMAIN stack' = 1 .. Len(stack')
        /\ Len(stack') = Len(below)
        /\ \A i \in 1 .. Len(below) : stack'[i] = IF i = n THEN fr ELSE below[i]
    <2>1. n \in 1 .. Len(below)
      BY <1>2, <1>7
    <2> QED
      BY <1>1, <1>7, <2>1, Replaced
  <1>9. Len(stack') = n /\ DOMAIN stack' = 1 .. n
        /\ \A i \in 1 .. n : stack'[i] = IF i = n THEN fr ELSE stack[i]
    BY <1>7, <1>8
  <1>10. CodeAt(caller).dst \in DOMAIN caller.regs
    BY <1>3, <1>5 DEF FrameOK
  <1> QED
    BY <1>0, <1>1, <1>2, <1>3, <1>4, <1>6, <1>8, <1>9, <1>10 DEF fr

LEMMA RetKeeps ==
  ASSUME Inv, Ret
  PROVE  Inv'
  <1> DEFINE n == Len(stack) - 1
             v == Val(cur.a, top.regs)
  <1>1. status = "running" /\ cur.op = "Ret" /\ v \in Word
    BY OperandAWord DEF Ret, Running
  <1>2. n \in Nat /\ depth = n + 1 /\ depth <= kMaxDepth
    BY <1>1, Top, DepthAssumption DEF Inv, DepthOK
  <1>3. depth' = n /\ UNCHANGED <<prog, out, error>>
    BY <1>2 DEF Ret
  <1>4. error' # "stack_overflow"
    BY <1>2, <1>3, DepthAssumption DEF Inv, DepthOK
  <1>5. CASE n = 0
    <2>1. stack' = <<>> /\ status' = "ok" /\ value' = v
      BY <1>5 DEF Ret
    <2>2. stack' \in Seq(Range(stack')) /\ Len(stack') = 0 /\ DOMAIN stack' = {}
      BY <2>1, Emptied
    <2>3. 1 .. Len(stack') - 1 = {}
      BY <2>2
    <2> HIDE DEF n, v
    <2>4. TypeOK'
      BY <1>1, <1>2, <1>3, <2>1, <2>2 DEF Inv, TypeOK
    <2>5. DepthOK'
      BY <1>3, <1>4, <1>5, <2>1 DEF DepthOK
    <2> QED
      BY <2>3, <2>4, <2>5 DEF Inv, Suspended
  <1>6. CASE n # 0
    <2> DEFINE fr == ResumedFrame(stack[n], v)
    <2>6. /\ n \in DOMAIN stack /\ FrameOK(fr)
          /\ stack' \in Seq(Range(stack')) /\ DOMAIN stack' = 1 .. n /\ Len(stack') = n
          /\ \A i \in 1 .. n : stack'[i] = IF i = n THEN fr ELSE stack[i]
          /\ UNCHANGED <<status, value>>
      <3>1. Len(stack) > 1
        BY <1>2, <1>6
      <3> QED
        BY <3>1, RetResumes
    <2> HIDE DEF fr
    <2>10. \A f : (FrameOK(f)' <=> FrameOK(f)) /\ CodeAt(f)' = CodeAt(f)
      BY <1>3 DEF FrameOK, CodeAt, Func
    <2>11. TypeOK'
      <3>1. \A i \in 1 .. n : i \in DOMAIN stack
        BY <1>2, OverRange DEF Inv, TypeOK
      <3>2. \A i \in DOMAIN stack' : FrameOK(stack'[i])
        BY <2>6, <3>1 DEF Inv, TypeOK
      <3>3. \A i \in DOMAIN stack' : FrameOK(stack[i])'
        BY <2>10, <3>2
      <3> HIDE DEF n
      <3> QED
        BY <1>2, <1>3, <2>6, <3>3 DEF Inv, TypeOK
    <2>12. DepthOK'
      <3>1. Len(stack') = n /\ n \in 1 .. kMaxDepth /\ depth' = n
        BY <1>2, <1>3, <1>6, <2>6, DepthAssumption
      <3> QED
        BY <1>1, <1>4, <2>6, <3>1 DEF DepthOK
    <2>13. Suspended'
      <3>1. \A i \in 1 .. n - 1 : i \in 1 .. n /\ i # n /\ i \in 1 .. Len(stack) - 1
        BY <1>2
      <3>2. \A i \in 1 .. n - 1 : stack'[i] = stack[i] /\ CodeAt(stack[i]).op = "Call"
        BY <2>6, <3>1 DEF Inv, Suspended
      <3>3. \A i \in 1 .. n - 1 : CodeAt(stack[i])' = CodeAt(stack[i])
        BY <2>10, <3>2
      <3> HIDE DEF n
      <3> QED
        BY <2>6, <3>2, <3>3 DEF Suspended
    <2> QED
      BY <2>11, <2>12, <2>13 DEF Inv
  <1> QED
    BY <1>5, <1>6

-----------------------------------------------------------------------------
LEMMA InvHolds == Spec => []Inv
  <1>1. Init => Inv
    <2> SUFFICES ASSUME Init PROVE Inv
      OBVIOUS
    <2>1. stack \in Seq(Range(stack)) /\ Len(stack) = 0 /\ DOMAIN stack = {}
      BY Emptied DEF Init
    <2>2. 1 .. Len(stack) - 1 = {}
      BY <2>1
    <2>3. 0 \in Word
      BY MaxIntAssumption DEF Word, MinInt
    <2>4. TypeOK
      <3>1. error \in Errors /\ value \in Word /\ depth \in Int
        BY <2>3 DEF Init, Errors
      <3>2. prog \in Programs /\ out \in Seq(Word) /\ status \in {"ready", "running", "ok", "trap"}
        BY DEF Init
      <3> QED
        BY <2>1, <3>1, <3>2 DEF TypeOK
    <2>5. DepthOK
      BY DEF Init, DepthOK
    <2> QED
      BY <2>2, <2>4, <2>5 DEF Inv, Suspended
  <1>2. Inv /\ [Next]_vars => Inv'
    <2> SUFFICES ASSUME Inv, [Next]_vars PROVE Inv'
      OBVIOUS
    <2>1. CASE UNCHANGED vars
      BY <2>1 DEF vars, Inv, TypeOK, DepthOK, Suspended, FrameOK, Func, CodeAt
    <2> QED
      BY <2>1, StartKeeps, ComputeKeeps, DivideByZeroKeeps, StoreSlotKeeps, PrintKeeps,
         JumpKeeps, CallKeeps, RetKeeps DEF Next
  <1> QED
    BY <1>1, <1>2, PTL DEF Spec

(* No activation of VM::call leaves its code, its registers or its slots,  *)
(* none of which the machine checks, and all it computes are words.        *)
THEOREM MachineIsTyped == Spec => []TypeOK
  <1>1. Inv => TypeOK
    BY DEF Inv
  <1> QED
    BY <1>1, InvHolds, PTL

(* depth_ counts the activations and bounds them, however calls, returns   *)
(* and traps follow each other.                                            *)
THEOREM DepthIsCounted == Spec => []DepthOK
  <1>1. Inv => DepthOK
    BY DEF Inv
  <1> QED
    BY <1>1, InvHolds, PTL

-----------------------------------------------------------------------------
(* What each kind of step does to the activations below the running one.   *)
LEMMA SetTopKeepsApart ==
  ASSUME Inv, status = "running", NEW fr, SetTop(fr)
  PROVE  KeptApart
  <1>1. \A i \in 1 .. Len(stack) - 1 : stack'[i] = stack[i]
    <2>1. stack \in Seq(Range(stack)) /\ Len(stack) \in Nat \ {0} /\ DOMAIN stack = 1 .. Len(stack)
      BY Top, OverRange DEF Inv, TypeOK
    <2> DEFINE n == Len(stack)
    <2>2. \A i \in 1 .. n : i # n => stack'[i] = stack[i]
      BY <2>1 DEF SetTop
    <2>3. n \in Nat \ {0}
      BY <2>1
    <2> HIDE DEF n
    <2>4. \A i \in 1 .. n - 1 : i \in 1 .. n /\ i # n
      BY <2>3
    <2> QED
      BY <2>2, <2>4 DEF n
  <1> QED
    BY <1>1 DEF KeptApart, Untouched

LEMMA TrapKeepsApart ==
  ASSUME NEW msg, Trap(msg)
  PROVE  KeptApart
  <1>1. DOMAIN stack' = {}
    BY Emptied DEF Trap
  <1> QED
    BY <1>1 DEF KeptApart

LEMMA EnterKeepsApart ==
  ASSUME Inv, NEW fn, NEW args, Enter(fn, args)
  PROVE  KeptApart
  <1>1. CASE Trap("stack_overflow")
    BY <1>1, TrapKeepsApart
  <1>2. CASE stack' = Append(stack, NewFrame(fn, args))
    <2>1. stack \in Seq(Range(stack)) /\ Len(stack) \in Nat
      BY OverRange DEF Inv, TypeOK
    <2>2. \A i \in 1 .. Len(stack) + 1 : i # Len(stack) + 1 => stack'[i] = stack[i]
      BY <1>2, <2>1, Appended
    <2>3. \A i \in 1 .. Len(stack) - 1 : i \in 1 .. Len(stack) + 1 /\ i # Len(stack) + 1
      <3> DEFINE n == Len(stack)
      <3>1. n \in Nat
        BY <2>1
      <3> HIDE DEF n
      <3>2. \A i \in 1 .. n - 1 : i \in 1 .. n + 1 /\ i # n + 1
        BY <3>1
      <3> QED
        BY <3>2 DEF n
    <2> QED
      BY <2>2, <2>3 DEF KeptApart, Untouched
  <1> QED
    BY <1>1, <1>2 DEF Enter

LEMMA RetKeepsApart ==
  ASSUME Inv, Ret
  PROVE  KeptApart
  <1> DEFINE n == Len(stack) - 1
             v == Val(cur.a, top.regs)
             fr == ResumedFrame(stack[n], v)
  <1>1. n \in Nat
    BY Top DEF Ret, Running
  <1>2. CASE n = 0
    <2>1. DOMAIN stack' = {}
      BY <1>2, Emptied DEF Ret
    <2> QED
      BY <2>1 DEF KeptApart
  <1>3. CASE n # 0
    <2>1. Len(stack) > 1
      BY <1>1, <1>3
    <2>2. /\ FrameOK(stack[n]) /\ CodeAt(stack[n]).op = "Call" /\ Len(stack') = n
          /\ \A i \in 1 .. n : stack'[i] = IF i = n THEN fr ELSE stack[i]
      BY <2>1, RetResumes
    <2>3. fr.fn = stack[n].fn /\ fr.slots = stack[n].slots /\ fr.pc = stack[n].pc + 1
      BY <2>2 DEF ResumedFrame, FrameOK
    <2>4. \A r \in DOMAIN stack[n].regs : r # CodeAt(stack[n]).dst => fr.regs[r] = stack[n].regs[r]
      BY <2>2 DEF ResumedFrame, FrameOK
    <2> HIDE DEF fr
    <2>5. stack'[n] = fr
      BY <1>1, <1>3, <2>2
    <2>6. Resumed(n)
      BY <2>2, <2>3, <2>4, <2>5 DEF Resumed
    <2>7. \A i \in 1 .. n : i # n => Untouched(i)
      BY <2>2 DEF Untouched
    <2> QED
      BY <2>2, <2>6, <2>7 DEF KeptApart
  <1> QED
    BY <1>2, <1>3

(* Recursion through VM::call is sound: whatever a callee does, its caller *)
(* finds its own slots and registers as it left them, the one that takes   *)
(* the result excepted, and goes on at the instruction after its Call.     *)
THEOREM ActivationsAreIsolated == Spec => FrameIsolation
  <1>1. Inv /\ [Next]_vars => [KeptApart]_vars
    <2> SUFFICES ASSUME Inv, Next PROVE KeptApart
      OBVIOUS
    <2>1. CASE Start
      BY <2>1, EnterKeepsApart, TrapKeepsApart DEF Start
    <2>2. CASE Compute
      BY <2>2, SetTopKeepsApart DEF Compute, Running
    <2>3. CASE DivideByZero
      BY <2>3, TrapKeepsApart DEF DivideByZero
    <2>4. CASE StoreSlot
      BY <2>4, SetTopKeepsApart DEF StoreSlot, Running
    <2>5. CASE PrintWord
      BY <2>5, SetTopKeepsApart DEF PrintWord, Running
    <2>6. CASE Jmp
      BY <2>6, SetTopKeepsApart DEF Jmp, Running
    <2>7. CASE JmpIfFalse
      BY <2>7, SetTopKeepsApart DEF JmpIfFalse, Running
    <2>8. CASE Call
      BY <2>8, EnterKeepsApart DEF Call
    <2>9. CASE Ret
      BY <2>9, RetKeepsApart
    <2> QED
      BY <2>1, <2>2, <2>3, <2>4, <2>5, <2>6, <2>7, <2>8, <2>9 DEF Next
  <1> QED
    BY <1>1, InvHolds, PTL DEF Spec, FrameIsolation
=============================================================================
