----------------------------- MODULE MCCompiler -----------------------------
(***************************************************************************)
(* Instances of the whole compiler over the program families of MCPrograms.*)
(***************************************************************************)
EXTENDS EndToEnd, Printers

P == INSTANCE MCPrograms

Levels(os, dumps) == { [optimize |-> o, emit |-> d] : o \in os, d \in dumps }

(* Programs that are about what they compute are run, those about what is  *)
(* accepted are given every --emit besides, and those that are only alike  *)
(* have their bytecode dumped.                                             *)
AllInputs ==
  { [sources |-> P!Arith \cup P!Branches \cup P!Loops \cup P!Calls, flags |-> Levels(BOOLEAN, {""})],
    [sources |-> P!Names \cup P!Heads \cup P!DeadTraps \cup P!Poisoned,
     flags |-> Levels(BOOLEAN, {"", "sema", "ir", "ir-opt", "bc"})],
    [sources |-> P!Alike, flags |-> Levels({FALSE}, {"bc"})] }

FlowInputs == { [sources |-> P!Branches \cup P!Loops, flags |-> Levels({TRUE}, {""})] }

(* f prints its parameter and a 7, with a remainder by the parameter, of   *)
(* no further use, between them; main prints f(0).                         *)
TrapInputs ==
  { [sources |-> { P!Calling(<< P!PrintStmt(P!p), P!Let("x", "int", P!Binary("mod", P!I(6), P!p)),
                                P!PrintStmt(P!I(7)), P!Return(P!p) >>, P!I(0)) },
     flags |-> Levels(BOOLEAN, {""})] }
-----------------------------------------------------------------------------
(* One mistake in an expression, wherever it is nested, gives one          *)
(* diagnostic: the error type silences every rule above it ("poison" in    *)
(* sema.cpp), and is never silent itself.                                  *)
OneMistakeOneDiagnostic == phase = "exit" /\ source \in P!Poisoned => Len(errors) = 1

(* The dump of a syntax tree tells the tree: two programs with one dump    *)
(* are one program.  It is how the parser's tests tell one grouping from   *)
(* another (test_parser.cpp).                                              *)
SameDumpSameTree ==
  phase = "exit" /\ source \in P!Alike =>
    LET dump == ast_to_string(source)
    IN  \A other \in P!Alike : ast_to_string(other) = dump => other = source

(* The same for bytecode, "the final register bytecode the VM actually     *)
(* executes" (COMMANDS.md).                                                *)
SameDumpSameCode ==
  phase = "exit" /\ source \in P!Alike =>
    LET dump == bc_to_string(bc)
    IN  \A other \in P!Alike :
          LET code == codegen(generate(other))
          IN  bc_to_string(code) = dump => code.funcs = bc.funcs
=============================================================================
