-------------------------------- MODULE MCVM --------------------------------
(***************************************************************************)
(* Instances of the machine: the unoptimised bytecode of the families of   *)
(* MCPrograms that call and loop, and a program without functions.         *)
(***************************************************************************)
EXTENDS VM

G == INSTANCE IRGen
C == INSTANCE Codegen
P == INSTANCE MCPrograms

MCBytecode == { C!codegen(G!generate(src)) : src \in {<<>>} \cup P!Calls \cup P!Loops \cup P!DeadTraps }
=============================================================================
