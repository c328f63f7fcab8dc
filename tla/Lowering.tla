------------------------------ MODULE Lowering ------------------------------
(***************************************************************************)
(* The pipeline and the code generator behind it (pass_manager.cpp,        *)
(* codegen.cpp): what would be generated if the rounds ended here.         *)
(***************************************************************************)
EXTENDS PassManager, Codegen

ASSUME LowerableAssumption == \A m \in Modules : Lowerable(m)

(* Whatever passes have run, the code generated from the module is safe    *)
(* for the VM, which indexes registers, slots, functions and code without  *)
(* a check (vm.cpp), and calls pass the arguments that are declared.       *)
LoweredCodeIsSafe == SafeProgram(codegen(mod))
=============================================================================
