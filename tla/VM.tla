--------------------------------- MODULE VM ---------------------------------
(***************************************************************************)
(* The register-based virtual machine of vm.cpp.                           *)
(*                                                                         *)
(* VM::call is a recursive C++ function: one activation per source-level   *)
(* call, with its own registers, slots and pc.  The model makes that       *)
(* recursion explicit: `stack' is the sequence of activations, the last    *)
(* one running, every other one suspended at its Call instruction.  The    *)
(* member depth_ is kept apart from the stack, as the code keeps it, and   *)
(* DepthOK relates the two.  Program counters, registers, slots and        *)
(* function indices count from 0 as in the code.                           *)
(***************************************************************************)
EXTENDS Arith, Functions

CONSTANTS kMaxDepth,     \* bound on nested calls
          Programs       \* the bytecode programs the machine may be given

VARIABLES prog,          \* the BCProgram (const)
          stack,         \* the activations of VM::call
          depth,         \* depth_
          out,           \* what Print has written to out_
          status,        \* "ready", "running", "ok", "trap"
          error,         \* VMResult::error
          value          \* VMResult::value

vars == <<prog, stack, depth, out, status, error, value>>

ASSUME DepthAssumption == kMaxDepth \in Nat
ASSUME ProgramsAssumption == \A p \in Programs : ProgramOK(p)

-----------------------------------------------------------------------------
(* The running activation and the instruction it is at.                    *)

Func(fr) == prog.funcs[fr.fn + 1]
CodeAt(fr) == Func(fr).code[fr.pc + 1]
top == stack[Len(stack)]
cur == CodeAt(top)
Running(ops) == status = "running" /\ cur.op \in ops

Val(o, regs) == IF o.imm THEN o.val ELSE regs[o.reg]

Result(c, fr) ==
  CASE c.op = "LoadConst" -> c.a.val
    [] c.op = "Move"      -> Val(c.a, fr.regs)
    [] c.op \in {"Neg", "Not"} -> Alu1(c.op, Val(c.a, fr.regs))
    [] c.op = "LoadSlot"  -> fr.slots[c.slot_idx]
    [] OTHER              -> Alu(c.op, Val(c.a, fr.regs), Val(c.b, fr.regs))

\* A faulty variant, on which a property must fail.
SetTop_writes_bottom(fr) ==
  /\ stack' = [stack EXCEPT ![1] = fr]
  /\ UNCHANGED <<prog, depth, status, error, value>>

(* The running activation becomes fr, or the exception of a trap unwinds   *)
(* all of them: run_program catches it and reports its message.            *)
SetTop(fr) ==
  /\ stack' = [stack EXCEPT ![Len(stack)] = fr]
  /\ UNCHANGED <<prog, depth, status, error, value>>

Trap(msg) ==
  /\ stack' = <<>>
  /\ status' = "trap"
  /\ error' = msg
  /\ UNCHANGED <<prog, out, value>>

\* A faulty variant, on which a property must fail.
NewFrame_slots_for_arguments(fn, args) ==
  [fn    |-> fn,
   pc    |-> 0,
   regs  |-> [r \in 0 .. prog.funcs[fn + 1].num_regs - 1 |-> 0],
   slots |-> [s \in 0 .. Len(args) - 1 |-> args[s + 1]]]

(* VM::call up to its loop: the depth check precedes the allocation of the *)
(* activation.  Registers and slots start at 0; arguments fill the first   *)
(* slots.                                                                  *)
NewFrame(fn, args) ==
  LET f == prog.funcs[fn + 1]
  IN  [fn    |-> fn,
       pc    |-> 0,
       regs  |-> [r \in 0 .. f.num_regs - 1 |-> 0],
       slots |-> [s \in 0 .. f.num_slots - 1 |-> IF s < Len(args) THEN args[s + 1] ELSE 0]]

\* A faulty variant, on which a property must fail.
Enter_checks_late(fn, args) ==
  /\ depth' = depth + 1
  /\ IF depth > kMaxDepth
     THEN Trap("stack_overflow")
     ELSE /\ stack' = Append(stack, NewFrame(fn, args))
          /\ status' = "running"
          /\ UNCHANGED <<prog, out, error, value>>

Enter(fn, args) ==
  /\ depth' = depth + 1
  /\ IF depth' > kMaxDepth
     THEN Trap("stack_overflow")
     ELSE /\ stack' = Append(stack, NewFrame(fn, args))
          /\ status' = "running"
          /\ UNCHANGED <<prog, out, error, value>>

-----------------------------------------------------------------------------
Init ==
  /\ prog \in Programs
  /\ stack = <<>>
  /\ depth = 0
  /\ out = <<>>
  /\ status = "ready"
  /\ error = "none"
  /\ value = 0

(* run_program: no main, no run.                                           *)
Start ==
  /\ status = "ready"
  /\ IF prog.main_index < 0
     THEN Trap("no_main") /\ UNCHANGED depth
     ELSE Enter(prog.main_index, <<>>)

Compute ==
  /\ Running(ValueOps)
  /\ ~DividesByZero(cur.op, Val(cur.b, top.regs))
  /\ SetTop([top EXCEPT !.regs[cur.dst] = Result(cur, top), !.pc = @ + 1])
  /\ UNCHANGED out

DivideByZero ==
  /\ Running({"Div", "Mod"})
  /\ DividesByZero(cur.op, Val(cur.b, top.regs))
  /\ Trap(IF cur.op = "Div" THEN "division_by_zero" ELSE "modulo_by_zero")
  /\ UNCHANGED depth

\* A faulty variant, on which a property must fail.
StoreSlot_keeps_pc ==
  /\ Running({"StoreSlot"})
  /\ SetTop([top EXCEPT !.slots[cur.slot_idx] = Val(cur.a, top.regs)])
  /\ UNCHANGED out

StoreSlot ==
  /\ Running({"StoreSlot"})
  /\ SetTop([top EXCEPT !.slots[cur.slot_idx] = Val(cur.a, top.regs), !.pc = @ + 1])
  /\ UNCHANGED out

PrintWord ==
  /\ Running({"Print"})
  /\ out' = Append(out, Val(cur.a, top.regs))
  /\ SetTop([top EXCEPT !.pc = @ + 1])

Jmp ==
  /\ Running({"Jmp"})
  /\ SetTop([top EXCEPT !.pc = cur.target])
  /\ UNCHANGED out

JmpIfFalse ==
  /\ Running({"JmpIfFalse"})
  /\ SetTop([top EXCEPT !.pc = IF Val(cur.a, top.regs) = 0 THEN cur.target ELSE @ + 1])
  /\ UNCHANGED out

Call ==
  /\ Running({"Call"})
  /\ Enter(cur.callee, [i \in DOMAIN cur.args |-> Val(cur.args[i], top.regs)])

(* The returned word goes to the caller's register, or is main's result.   *)
Ret ==
  /\ Running({"Ret"})
  /\ depth' = depth - 1
  /\ LET v == Val(cur.a, top.regs)
         n == Len(stack) - 1
     IN  IF n = 0
         THEN stack' = <<>> /\ status' = "ok" /\ value' = v
         ELSE LET caller == stack[n]
              IN  /\ stack' = [SubSeq(stack, 1, n) EXCEPT ![n] =
                        [caller EXCEPT !.regs[CodeAt(caller).dst] = v, !.pc = @ + 1]]
                  /\ UNCHANGED <<status, value>>
  /\ UNCHANGED <<prog, out, error>>

Next == Start \/ Compute \/ DivideByZero \/ StoreSlot \/ PrintWord \/ Jmp \/ JmpIfFalse
          \/ Call \/ Ret

(* The machine is a loop of one thread: it takes its next step as long as  *)
(* it has one.                                                             *)
Spec == Init /\ [][Next]_vars
FairSpec == Spec /\ WF_vars(Next)

-----------------------------------------------------------------------------
Errors == {"none", "no_main", "stack_overflow", "division_by_zero", "modulo_by_zero"}

FrameOK(fr) ==
  /\ fr.fn \in 0 .. Len(prog.funcs) - 1
  /\ fr \in [fn    : {fr.fn},
            pc    : 0 .. Len(Func(fr).code) - 1,
            regs  : [0 .. Func(fr).num_regs - 1 -> Word],
            slots : [0 .. Func(fr).num_slots - 1 -> Word]]

(* Every activation stays inside its code, its registers and its slots,    *)
(* which VM::call indexes unchecked, and everything computed is a word.    *)
TypeOK ==
  /\ prog \in Programs
  /\ stack \in Seq(Range(stack))
  /\ \A i \in DOMAIN stack : FrameOK(stack[i])
  /\ depth \in Int
  /\ out \in Seq(Word)
  /\ status \in {"ready", "running", "ok", "trap"}
  /\ error \in Errors
  /\ value \in Word

(* The counter depth_, which guards the host's stack, counts the           *)
(* activations exactly: a running machine never has more than kMaxDepth,   *)
(* it is back at none after a normal end, and only a call beyond the limit *)
(* overflows.                                                              *)
DepthOK ==
  /\ status = "running" => depth = Len(stack) /\ depth \in 1 .. kMaxDepth
  /\ status # "running" => stack = <<>>
  /\ status \in {"ready", "ok"} => depth = 0
  /\ error = "stack_overflow" => depth = kMaxDepth + 1

(* No activation can disturb another: while a call runs nothing changes in *)
(* those below it, and its return changes of its caller only the result    *)
(* register of the Call and the pc, which moves on to the next             *)
(* instruction.                                                            *)
Untouched(i) == stack'[i] = stack[i]
Resumed(i) ==
  /\ stack'[i].fn = stack[i].fn
  /\ stack'[i].slots = stack[i].slots
  /\ stack'[i].pc = stack[i].pc + 1
  /\ CodeAt(stack[i]).op = "Call"
  /\ \A r \in DOMAIN stack[i].regs :
       r # CodeAt(stack[i]).dst => stack'[i].regs[r] = stack[i].regs[r]
KeptApart ==
  \A i \in 1 .. Len(stack) - 1 : i \in DOMAIN stack' =>
    Untouched(i) \/ (i = Len(stack') /\ i = Len(stack) - 1 /\ Resumed(i))
FrameIsolation == [][KeptApart]_vars

(* A program whose loops end is run to its end.                            *)
Halts == <>(status \in {"ok", "trap"})
=============================================================================
