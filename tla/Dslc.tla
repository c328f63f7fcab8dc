-------------------------------- MODULE Dslc --------------------------------
(***************************************************************************)
(* The whole program (main.cpp): the command line names a file and a dump, *)
(* the lexer makes tokens of the file's text, the parser a syntax tree,    *)
(* and the stages of Compiler take it from there.  A stage runs on what    *)
(* the one before it made, and only if that reported nothing.  Variables   *)
(* of Lexer and Parser are instantiated by those below; one step is one of *)
(* theirs, one of Compiler's, or one command-line argument.                *)
(***************************************************************************)
EXTENDS EndToEnd

CONSTANTS Sessions,      \* command lines (argv without the program's name), each with a
                         \* file system: what each path that can be read holds
          NoTokens, NoTree,
          TreeOf(_)      \* the program a text spells; NoTree if its tokens spell none,
                         \* NoTokens if some character belongs to no token

VARIABLES argv, arg, path, disk,                 \* arg: the argument to read next
          text, at, line, col, tokens, lex_errors,             \* the lexer
          pos, parse_errors, panicking, todo, vals             \* the parser

main_vars == <<argv, arg, path, disk>>
lex_vars == <<text, at, line, col, tokens, lex_errors>>
parse_vars == <<pos, parse_errors, panicking, todo, vals>>
front_vars == <<main_vars, lex_vars, parse_vars>>
dvars == <<evars, front_vars>>

Lex == INSTANCE Lexer WITH Texts <- {}, src <- text, pos <- at, out <- tokens, errors <- lex_errors
Par == INSTANCE Parser WITH TokenLists <- {}, toks <- tokens, errors <- parse_errors

(* What the command line asks for: of several paths, dumps or levels the   *)
(* last counts.                                                            *)
IsEmit(a) == SubSeq(a, 1, IF Len(a) < 7 THEN Len(a) ELSE 7) = "--emit="
IsPath(a) == SubSeq(a, 1, IF a = "" THEN 0 ELSE 1) # "-"
LastArg(Test(_), none) == LET i == SelectLastInSeq(argv, Test) IN IF i = 0 THEN none ELSE argv[i]
WantedPath == LastArg(IsPath, "")
WantsO1 == LastArg(LAMBDA a : a \in {"-O0", "-O1"}, "-O1") = "-O1"
WantedDump == LET a == LastArg(IsEmit, "--emit=") IN SubSeq(a, 8, Len(a))

Readable == WantedPath \in DOMAIN disk
Tree == IF Readable THEN TreeOf(disk[WantedPath]) ELSE NoTree
Means(tree) == IF tree \in {NoTree, NoTokens} \/ check(tree) # <<>> THEN Rejected ELSE L!Outcome(tree)

DInit ==
  /\ \E s \in Sessions : argv = s.argv /\ disk = s.disk
  /\ arg = 1 /\ path = "" /\ flags = [optimize |-> TRUE, emit |-> ""]
  /\ text = "" /\ at = 0 /\ line = 1 /\ col = 1 /\ tokens = <<>> /\ lex_errors = <<>>
  /\ pos = 0 /\ parse_errors = {} /\ panicking = FALSE
  /\ todo = << Par!Call("program") >> /\ vals = << <<>> >>
  /\ phase = "args" /\ source = <<>> /\ Fresh
  /\ expected = Means(Tree)
-----------------------------------------------------------------------------
\* A faulty variant, on which a property must fail.
ReadArg_always_O1 ==
  /\ phase = "args" /\ arg <= Len(argv)
  /\ LET a == argv[arg]
     IN  /\ flags' = IF IsEmit(a) THEN [flags EXCEPT !.emit = SubSeq(a, 8, Len(a))] ELSE flags
         /\ path' = IF IsPath(a) THEN a ELSE path
  /\ arg' = arg + 1
  /\ UNCHANGED <<argv, disk, source, phase, errors, bc, exit_code>>

(* An option nobody knows, --stats among them, changes nothing modelled.   *)
ReadArg ==
  /\ phase = "args" /\ arg <= Len(argv)
  /\ LET a == argv[arg]
     IN  /\ flags' = CASE IsEmit(a) -> [flags EXCEPT !.emit = SubSeq(a, 8, Len(a))]
                       [] a = "-O0" -> [flags EXCEPT !.optimize = FALSE]
                       [] a = "-O1" -> [flags EXCEPT !.optimize = TRUE]
                       [] OTHER     -> flags
         /\ path' = IF IsPath(a) THEN a ELSE path
  /\ arg' = arg + 1
  /\ UNCHANGED <<argv, disk, source, phase, errors, bc, exit_code>>

(* No path (path.empty()), or none that opens, and it is over.             *)
read_file ==
  /\ phase = "args" /\ arg > Len(argv)
  /\ IF path # "" /\ path \in DOMAIN disk
     THEN text' = disk[path] /\ GoTo("lex")
     ELSE UNCHANGED text /\ Exit(2)
  /\ UNCHANGED <<main_vars, source, flags, errors, bc>>

CommandLine ==
  \/ ReadArg /\ UNCHANGED <<lex_vars, parse_vars>>
  \/ read_file /\ UNCHANGED <<at, line, col, tokens, lex_errors, parse_vars>>

tokenize ==
  /\ phase = "lex" /\ ~Lex!Done
  /\ Lex!Next
  /\ UNCHANGED <<driver_vars, main_vars, parse_vars>>

\* A faulty variant, on which a property must fail.
Tokenized_dumps_first ==
  /\ phase = "lex" /\ Lex!Done
  /\ IF flags.emit # "tokens" /\ lex_errors # <<>> THEN Exit(1) ELSE Emit("tokens", "parse")
  /\ UNCHANGED <<source, flags, errors, bc, front_vars>>

Tokenized ==
  /\ phase = "lex" /\ Lex!Done
  /\ IF lex_errors # <<>> THEN Exit(1) ELSE Emit("tokens", "parse")
  /\ UNCHANGED <<source, flags, errors, bc, front_vars>>

parse_program ==
  /\ phase = "parse" /\ ~Par!Done
  /\ Par!Next
  /\ UNCHANGED <<driver_vars, main_vars, text, at, line, col, lex_errors>>

\* A faulty variant, on which a property must fail.
Parsed_unless_panicking ==
  /\ phase = "parse" /\ Par!Done
  /\ IF panicking THEN Exit(1) /\ UNCHANGED source
     ELSE source' = Par!program /\ Emit("ast", "sema")
  /\ UNCHANGED <<flags, errors, bc, front_vars>>

(* A tree with errors in it goes no further.                               *)
Parsed ==
  /\ phase = "parse" /\ Par!Done
  /\ IF parse_errors # {} THEN Exit(1) /\ UNCHANGED source
     ELSE source' = Par!program /\ Emit("ast", "sema")
  /\ UNCHANGED <<flags, errors, bc, front_vars>>

main ==
  \/ (CommandLine \/ tokenize \/ Tokenized \/ parse_program \/ Parsed) /\ UNCHANGED <<pm_vars, vm_vars>>
  \/ Next /\ UNCHANGED front_vars

DNext == \/ main /\ UNCHANGED expected
         \/ phase = "exit" /\ UNCHANGED dvars

(* Fairness as in EndToEnd.                                                *)
DSpec == DInit /\ [][DNext]_dvars /\ ([]<>(phase = "exit") \/ []<><<DNext>>_dvars)
-----------------------------------------------------------------------------
(* Running a text shows what the program it spells prints and ends as that *)
(* program ends, whatever the layout and the order of the options.  A      *)
(* division trap may be lost at -O1 (EndToEnd).                            *)
OfText == INSTANCE Observable WITH lenient <- WantsO1, shown <- out, result <- value
TextRunsAsItsTree == OfText!Spec

(* What is type-checked, compiled and run is the program the text spells:  *)
(* no token lost, no repaired or half-read tree.                           *)
OnlyTheTextIsCompiled == phase \notin {"args", "lex", "parse", "exit"} => source = Tree

(* The exit status: 2 exactly if there was nothing to read, 1 if a stage   *)
(* the command line asked for reported something or the run trapped, and 0 *)
(* otherwise.                                                              *)
Scans == Tree # NoTokens
Spells == Scans /\ Tree # NoTree
StatusTellsHowFar ==
  phase = "exit" =>
    exit_code =
      CASE ~Readable -> 2
        [] Readable /\ WantedDump = "tokens" -> IF Scans THEN 0 ELSE 1
        [] Readable /\ WantedDump = "ast" -> IF Spells THEN 0 ELSE 1
        [] Readable /\ WantedDump \in {"sema", "ir", "ir-opt", "bc"} -> IF expected.end # "rejected" THEN 0 ELSE 1
        [] OTHER -> IF expected.end = "ok" \/ (expected.end # "rejected" /\ WantsO1 /\ status = "ok")
                      THEN 0 ELSE 1

(* It exits, on every text that recovery can get through.                  *)
Exits == <>(phase = "exit")
=============================================================================
