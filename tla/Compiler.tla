------------------------------ MODULE Compiler ------------------------------
(***************************************************************************)
(* The driver (main.cpp): a parsed program goes through Sema, IRGen, the   *)
(* pass pipeline, Codegen and the VM, or stops after the stage --emit      *)
(* names.  Stages are one step each, except the pipeline, which takes one  *)
(* step per pass (PassManager), and the VM, one per instruction (VM).      *)
(***************************************************************************)
EXTENDS PassManager, IRGen, Sema, Codegen

CONSTANTS Inputs,        \* what the driver may be given: families of syntax trees, each with
                         \* the [optimize, emit] combinations of the command line
          kMaxDepth

VARIABLES source, flags, \* the input and the command line
          phase,         \* the stage about to run
          errors,        \* Sema's diagnostics
          bc,            \* the BCProgram
          exit_code,     \* the process's exit status, -1 before it exits
          stack, depth, out, status, error, value     \* the VM

driver_vars == <<source, flags, phase, errors, bc, exit_code>>
vm_vars == <<stack, depth, out, status, error, value>>
vars == <<driver_vars, pm_vars, vm_vars>>

M == INSTANCE VM WITH prog <- bc, Programs <- {}

NoCode == [funcs |-> <<>>, main_index |-> -1]

(* Nothing has been compiled or run yet.                                   *)
Fresh ==
  /\ errors = <<>> /\ exit_code = -1
  /\ mod = <<>> /\ PMStart
  /\ bc = NoCode
  /\ stack = <<>> /\ depth = 0 /\ out = <<>> /\ status = "ready" /\ error = "none" /\ value = 0

Init ==
  /\ \E input \in Inputs : source \in input.sources /\ flags \in input.flags
  /\ phase = "sema" /\ Fresh

(* Leave the process, or go on to the next stage; `emit' names the dump    *)
(* that ends the run at this point.                                        *)
Exit(code) == phase' = "exit" /\ exit_code' = code
GoTo(next) == phase' = next /\ UNCHANGED exit_code
Emit(dump, next) == IF flags.emit = dump THEN Exit(0) ELSE GoTo(next)

RunSema ==
  /\ phase = "sema"
  /\ errors' = check(source)
  /\ IF errors' # <<>> THEN Exit(1) ELSE Emit("sema", "irgen")
  /\ UNCHANGED <<source, flags, bc, pm_vars, vm_vars>>

RunIRGen ==
  /\ phase = "irgen"
  /\ mod' = generate(source)
  /\ Emit("ir", IF flags.optimize THEN "optimize" ELSE "dump")
  /\ UNCHANGED <<source, flags, errors, bc, fi, iter, pi, any, total, vm_vars>>

OptimizeStep ==
  /\ phase = "optimize"
  /\ IF Optimizing THEN PMNext /\ UNCHANGED driver_vars
     ELSE GoTo("dump") /\ UNCHANGED <<source, flags, errors, bc, pm_vars>>
  /\ UNCHANGED vm_vars

DumpIR ==
  /\ phase = "dump"
  /\ Emit("ir-opt", "codegen")
  /\ UNCHANGED <<source, flags, errors, bc, pm_vars, vm_vars>>

RunCodegen ==
  /\ phase = "codegen"
  /\ bc' = codegen(mod)
  /\ Emit("bc", "run")
  /\ UNCHANGED <<source, flags, errors, pm_vars, vm_vars>>

Execute ==
  /\ phase = "run"
  /\ M!Next
  /\ UNCHANGED <<driver_vars, pm_vars>>

\* A faulty variant, on which a property must fail.
Finish_always_0 ==
  /\ phase = "run" /\ status \in {"ok", "trap"}
  /\ Exit(0)
  /\ UNCHANGED <<source, flags, errors, bc, pm_vars, vm_vars>>

(* A trap is reported and fails the process; what main returns is not the  *)
(* exit status.                                                            *)
Finish ==
  /\ phase = "run" /\ status \in {"ok", "trap"}
  /\ Exit(IF status = "ok" THEN 0 ELSE 1)
  /\ UNCHANGED <<source, flags, errors, bc, pm_vars, vm_vars>>

Next == RunSema \/ RunIRGen \/ OptimizeStep \/ DumpIR \/ RunCodegen \/ Execute \/ Finish

Spec == Init /\ [][Next]_vars /\ WF_vars(Next)
=============================================================================
