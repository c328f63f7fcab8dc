------------------------------ MODULE EndToEnd ------------------------------
(***************************************************************************)
(* What the whole compiler promises: a run of the driver is compared with  *)
(* the outcome that the reference semantics (Language) gives the source    *)
(* program.  `expected' is that outcome, fixed from the start; a rejected  *)
(* program has none.                                                       *)
(***************************************************************************)
EXTENDS Compiler

CONSTANT Fuel          \* calls and iterations the reference may make
VARIABLE expected

L == INSTANCE Language

Rejected == [out |-> <<>>, end |-> "rejected", value |-> 0]
Accepted == check(source) = <<>>

EInit == Init /\ expected = IF Accepted THEN L!Outcome(source) ELSE Rejected
evars == <<vars, expected>>
Exited == phase = "exit" /\ UNCHANGED evars
ENext == (Next /\ UNCHANGED expected) \/ Exited

(* Weak fairness of Next, written without ENABLED, which TLC evaluates too *)
(* slowly for steps that run a whole stage: Next can be taken until the    *)
(* exit.  That it can is what the deadlock check says, Exited being the    *)
(* only other step.                                                        *)
ESpec == EInit /\ [][ENext]_evars /\ ([]<>(phase = "exit") \/ []<><<ENext>>_evars)

-----------------------------------------------------------------------------
(* A run shows what the source program prints, in its order, and ends as   *)
(* it ends: with main's value, or with its trap.  With the optimiser on, a *)
(* division trap may be lost (DCE deletes a division whose result is not   *)
(* used) and the run then goes on.                                         *)
ended == CASE status = "ok" -> "ok" [] status = "trap" -> error [] OTHER -> ""
Lenient == INSTANCE Observable WITH lenient <- flags.optimize, shown <- out, result <- value
PreservesBehaviour == Lenient!Spec

(* The same without the licence: "Division / modulo by zero -> runtime     *)
(* trap" (SPEC.md), at every optimisation level.                           *)
Strict == INSTANCE Observable WITH lenient <- FALSE, shown <- out, result <- value
TrapsAreKept == Strict!Spec

(* A program Sema accepts never goes wrong: no unknown name, no operand of *)
(* the wrong type, no function that ends without returning.  This is what  *)
(* lets the stages after Sema check nothing.                               *)
AcceptedProgramsDoNotGoWrong == expected.end # "stuck"

(* The bytecode the VM is handed breaks none of the assumptions of its     *)
(* unchecked indexing, at any optimisation level.                          *)
CompiledCodeIsSafe == phase = "run" => SafeProgram(bc)

(* The exit status tells how the program went: 0 exactly if it was         *)
(* accepted and either only dumped or ran to its end; a trap that the      *)
(* optimiser deleted counts as an end.                                     *)
ExitTellsTheOutcome ==
  phase = "exit" =>
    exit_code = IF /\ expected.end # "rejected"
                   /\ flags.emit = "" => \/ expected.end = "ok"
                                         \/ flags.optimize /\ status = "ok"
                THEN 0 ELSE 1

(* A program whose meaning is finite is compiled, run and ends.            *)
Terminates == <>(phase = "exit")
=============================================================================
