------------------------------ MODULE Bytecode ------------------------------
(***************************************************************************)
(* The bytecode of bytecode.h, which codegen.cpp writes and vm.cpp runs.   *)
(* Registers, slots, instruction and function indices count from 0.        *)
(***************************************************************************)
EXTENDS Words, Sequences

ArithOps == {"Add", "Sub", "Mul", "Div", "Mod"}
CompareOps == {"Lt", "Le", "Gt", "Ge", "Eq", "Ne", "And", "Or"}
BinaryOps == ArithOps \cup CompareOps
UnaryOps == {"Move", "Neg", "Not"}
ValueOps == BinaryOps \cup UnaryOps \cup {"LoadConst", "LoadSlot"}
BOp == ValueOps \cup {"StoreSlot", "Print", "Jmp", "JmpIfFalse", "Call", "Ret"}

Operand == [imm : BOOLEAN, reg : Int, val : Word]
Reg(i) == [imm |-> FALSE, reg |-> i, val |-> 0]
Imm(v) == [imm |-> TRUE, reg |-> -1, val |-> v]

BC == [op : BOp, dst : Int, a : Operand, b : Operand, slot_idx : Int,
       target : Int, callee : Int, args : Seq(Operand)]
NoBC == [op |-> "Ret", dst |-> -1, a |-> Reg(-1), b |-> Reg(-1), slot_idx |-> -1,
         target |-> -1, callee |-> -1, args |-> <<>>]

BCFunction == [num_regs : Nat, num_slots : Nat, num_params : Nat, code : Seq(BC)]
BCProgram == [funcs : Seq(BCFunction), main_index : Int]

-----------------------------------------------------------------------------
(* What the machine takes for granted of the code it is given: it indexes  *)
(* its vectors unchecked and fetches without comparing pc to the end of    *)
(* the code, so a program that breaks any of these is undefined behaviour. *)
OperandOK(o, f) == o.imm \/ o.reg \in 0 .. f.num_regs - 1

BCOK(c, pc, f, p) ==
  /\ c.op \in ValueOps \cup {"Call"} => c.dst \in 0 .. f.num_regs - 1
  /\ c.op \in BinaryOps \cup UnaryOps \cup {"StoreSlot", "Print", "JmpIfFalse", "Ret"}
        => OperandOK(c.a, f)
  /\ c.op \in BinaryOps => OperandOK(c.b, f)
  /\ c.op \in {"LoadSlot", "StoreSlot"} => c.slot_idx \in 0 .. f.num_slots - 1
  /\ c.op \in {"Jmp", "JmpIfFalse"} => c.target \in 0 .. Len(f.code) - 1
  /\ c.op = "Call" => /\ c.callee \in 0 .. Len(p.funcs) - 1
                      /\ \A i \in DOMAIN c.args : OperandOK(c.args[i], f)
  /\ c.op \notin {"Jmp", "Ret"} => pc + 1 < Len(f.code)

BCFunctionOK(f, p) ==
  /\ Len(f.code) > 0
  /\ \A i \in DOMAIN f.code : BCOK(f.code[i], i - 1, f, p)

ProgramOK(p) ==
  /\ p \in BCProgram
  /\ p.main_index \in -1 .. Len(p.funcs) - 1
  /\ \A i \in DOMAIN p.funcs : BCFunctionOK(p.funcs[i], p)

(* A call passes the arguments its callee declares, and these have slots:  *)
(* the machine would drop surplus ones and take missing ones for 0.        *)
CallsFit(p) ==
  /\ \A i \in DOMAIN p.funcs : p.funcs[i].num_params <= p.funcs[i].num_slots
  /\ \A i \in DOMAIN p.funcs : \A j \in DOMAIN p.funcs[i].code :
       LET c == p.funcs[i].code[j]
       IN  c.op = "Call" => Len(c.args) = p.funcs[c.callee + 1].num_params
  /\ p.main_index >= 0 => p.funcs[p.main_index + 1].num_params = 0

SafeProgram(p) == ProgramOK(p) /\ p.main_index >= 0 /\ CallsFit(p)
=============================================================================
