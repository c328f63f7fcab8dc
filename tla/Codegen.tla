------------------------------- MODULE Codegen -------------------------------
(***************************************************************************)
(* Lowering of IR to bytecode (codegen.cpp).  Temps become registers,      *)
(* branches become jumps whose block ids are then patched to absolute      *)
(* instruction indices.                                                    *)
(***************************************************************************)
EXTENDS IR, Bytecode

bin_bop == [add |-> "Add", sub |-> "Sub", mul |-> "Mul", div |-> "Div", mod |-> "Mod",
            lt |-> "Lt", le |-> "Le", gt |-> "Gt", ge |-> "Ge", eq |-> "Eq", ne |-> "Ne",
            and |-> "And", or |-> "Or"]

oper(v) == IF is_const(v) THEN Imm(v.n) ELSE Reg(v.n)

(* The bytecode of one instruction, its jump targets still block ids.      *)
(* fn_index maps the name of a function to its index.                      *)
LowerInstr(in, fn_index) ==
  LET Arg(i) == oper(in.args[i])
      Bc(op) == [NoBC EXCEPT !.op = op, !.dst = in.dst]
      Jump(b) == [Bc("Jmp") EXCEPT !.target = b]
      One(op) == <<[Bc(op) EXCEPT !.a = Arg(1)]>>
  IN  CASE in.op = "const"  -> One("LoadConst")
        [] in.op = "copy"   -> One("Move")
        [] in.op = "neg"    -> One("Neg")
        [] in.op = "not"    -> One("Not")
        [] in.op = "print"  -> One("Print")
        [] in.op = "load"   -> <<[Bc("LoadSlot") EXCEPT !.slot_idx = in.slot]>>
        [] in.op = "store"  -> <<[Bc("StoreSlot") EXCEPT !.slot_idx = in.slot, !.a = Arg(1)]>>
        [] in.op = "call"   -> <<[Bc("Call") EXCEPT !.callee = fn_index[in.callee],
                                                    !.args = [i \in DOMAIN in.args |-> Arg(i)]]>>
        [] in.op = "br"     -> <<Jump(in.bb_true)>>
        [] in.op = "condbr" -> <<[Bc("JmpIfFalse") EXCEPT !.a = Arg(1), !.target = in.bb_false],
                                 Jump(in.bb_true)>>
        [] in.op = "ret"    -> <<[Bc("Ret") EXCEPT !.a = IF in.args = <<>> THEN Imm(0) ELSE Arg(1)]>>
        [] OTHER            -> <<[Bc(bin_bop[in.op]) EXCEPT !.a = Arg(1), !.b = Arg(2)]>>

LowerBlock(block, fn_index) ==
  FlattenSeq([i \in DOMAIN block |-> LowerInstr(block[i], fn_index)])

\* A faulty variant, on which a property must fail.
block_start_after(code, b) == Len(FlattenSeq(SubSeq(code, 1, b + 1)))

(* The index of a block's first instruction.                               *)
block_start(code, b) == Len(FlattenSeq(SubSeq(code, 1, b)))

lower_fn(f, fn_index) ==
  LET code == [k \in DOMAIN f.blocks |-> LowerBlock(f.blocks[k], fn_index)]
      Patch(c) == IF c.op \in {"Jmp", "JmpIfFalse"} THEN [c EXCEPT !.target = block_start(code, @)] ELSE c
      flat == FlattenSeq(code)
  IN  [num_regs |-> f.next_temp, num_slots |-> f.num_slots, num_params |-> f.num_params,
       code |-> [i \in DOMAIN flat |-> Patch(flat[i])]]

(* Of two functions of one name the later would win; Sema admits no two.   *)
codegen(m) ==
  LET names == { m[i].name : i \in DOMAIN m }
      fn_index == [n \in names |-> SelectLastInSeq(m, LAMBDA f : f.name = n) - 1]
  IN  [funcs |-> [i \in DOMAIN m |-> lower_fn(m[i], fn_index)],
       main_index |-> IF "main" \in names THEN fn_index["main"] ELSE -1]
-----------------------------------------------------------------------------
(* What codegen.cpp takes for granted of a module and never tests: it      *)
(* reads the operands an operation needs, makes registers of temps, looks  *)
(* every callee up.                                                        *)
HasResult == BinaryIROps \cup {"neg", "not", "const", "copy", "load", "call"}

ValueFits(v, f) == IF is_const(v) THEN v.n \in Word ELSE v.n \in 0 .. f.next_temp - 1

InstrFits(in, f, m) ==
  /\ in.op \in HasResult => in.dst # -1
  /\ in.op \in BinaryIROps => Len(in.args) = 2
  /\ in.op \in {"neg", "not", "print", "condbr"} => Len(in.args) = 1
  /\ in.op = "ret" => Len(in.args) <= 1
  /\ in.op = "call" => \E i \in DOMAIN m : m[i].name = in.callee /\ Len(in.args) = m[i].num_params
  /\ \A i \in DOMAIN in.args : ValueFits(in.args[i], f)

FunctionFits(f, m) ==
  /\ f.num_params \in 0 .. f.num_slots
  /\ \A k \in DOMAIN f.blocks : \A i \in DOMAIN f.blocks[k] : InstrFits(f.blocks[k][i], f, m)

Lowerable(m) ==
  /\ \A i, j \in DOMAIN m : m[i].name = m[j].name => i = j
  /\ \E i \in DOMAIN m : m[i].name = "main" /\ m[i].num_params = 0
  /\ \A i \in DOMAIN m : FunctionFits(m[i], m)
=============================================================================
