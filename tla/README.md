# dslc in TLA+

A verification development for `dslc`, the compiler and virtual machine for a
small imperative language in this repository. It models the whole program, from
the command line and the characters of the source file to the process's exit
status, model-checks it with TLC, and proves facts about its lexer, its parser,
its evaluators, its optimiser and its virtual machine with TLAPS. Sections 1 and 2
are the inventory and the module map, 3 to 5 say what is checked, under which
bounds and fairness, 6 what is proved, 7 what was found, 8 what is not modelled
and what could come next.

    tlc -config MCCompiler.cfg MCCompiler.tla          # a run: configuration, module
    tlapm VM_proofs.tla                                # a proof

## 1. The system

`dslc` is a sequential program: one thread reads a file and pushes it through
stages that hand each other complete data structures. Nothing is persisted, no
message is lost, no other process interferes. What makes it hard is the length
of the chain: every stage relies on facts that earlier ones establish and none
checks again, four rewriting passes run in rounds over code the others have just
rewritten, and arithmetic exists twice and must agree to the last bit.

| Component | State it keeps | Operations | Relies on |
|---|---|---|---|
| Lexer (`lexer.cpp`) | position, line and column, tokens, diagnostics | `tokenize`: one iteration per blank, comment or token | – |
| Parser (`parser.cpp`) | position, diagnostics, panic mode, the C++ call stack | one method per production, `expect`, `synchronize` | token list ends in its only Eof |
| Printers (`ast_print.cpp`, `ir.cpp`, `codegen.cpp`) | – | `ast_to_string`, `ir_to_string`, `bc_to_string` | – |
| Sema (`sema.cpp`) | function table, scope stack, return type, diagnostics | `check`, `check_stmt`, `check_expr`, `declare`, `lookup` | – |
| IRGen (`irgen.cpp`) | function under construction, current block, terminated flag, slot scopes | `gen_stmt`, `gen_expr`, `gen_short_circuit`, `finalize_terminators` | names resolve, types fit |
| Constant folding, algebraic simplification, constant propagation, dead-code elimination (`passes/`) | none between calls | `run(IRFunction&)`, returns "changed" | IR well formed |
| Pass manager (`pass_manager.cpp`) | the module, round counter, change flag | `run` | passes report changes truthfully |
| Codegen (`codegen.cpp`) | code so far, block starts, jump patches | `lower_fn`, `codegen` | block ids are positions |
| VM (`vm.cpp`) | one activation per call (pc, registers, slots), `depth_`, output | one case per opcode, `run_program` | bytecode well formed: nothing is bounds-checked |
| Driver (`main.cpp`) | path, options, exit status | argument loop, file reading, the stages, `--emit`, `-O0`/`-O1` | – |

How they interact: each stage takes the previous one's result by value or
reference and returns; the only callback is the pass manager's virtual call of
each pass. The hard behaviours, listed line by line in `PROJECT.json` under
*hazards*, are

* **agreement** of the folder, the simplifier and the VM at the edges of the
  word (`INT64_MIN / -1`, wrap-around, division by zero);
* **ordering of effects**: a pass may delete, merge or replace computations but
  not prints, calls or traps; `&&` and `||` must not evaluate early;
* **stale knowledge**: what is known of a slot, of a temp's uses or of a block's
  number must not outlive the rewrite that invalidates it;
* **termination**: the rounds must come to an end, at a fixpoint or by the cap of
  50, and leave the program right either way;
* **trust between stages**: Sema's rules are what lets IRGen look names up
  without checking, IRGen's terminators are what lets the VM fetch without
  comparing pc to the end of the code;
* **recovery**: the lexer and the parser go on after an error, the parser with
  placeholders in the tree, diagnostics suppressed while it panics, and a
  `synchronize` that need not consume anything; `main` has to stop before a
  repaired tree goes any further;
* **boundaries**: a second character read ahead at the end of the text, literals
  at the edge of the word, a cursor that must not step over Eof, `toks_[-1]`;
* **recursion and depth**: `VM::call` recurses on the host's stack, `depth_` is
  incremented before it is compared and decremented only on return.

Correctness of each component:

* *lexer*: tokens tile the text, each the longest lexeme at its place with the
  value its text says; a diagnostic per Error token;
* *parser*: it accepts the sentences of the grammar, each with its one tree, and
  nothing else; every mistake is reported; it ends, where it does;
* *printers*: different trees, IR and code have different dumps;
* *evaluators*: all compute the mathematical result wrapped to a word, and
  refuse exactly what traps;
* *Sema*: an accepted program never goes wrong; one mistake, one diagnostic;
* *passes*: well-formed IR stays well formed, observable behaviour is kept, a
  change is reported exactly when there is one;
* *pass manager*: it ends, and at a fixpoint unless the cap stops it;
* *IRGen and codegen*: the bytecode is safe to run unchecked and means what the
  source means;
* *VM*: activations do not disturb each other and are counted exactly;
* *driver*: the run shows what the source prints and the exit status tells how
  it went.

## 2. The modules

Data and pure functions (no state; each stage that is a function of its input
in the code is an operator here):

| Module | Models | Notes |
|---|---|---|
| `Words` | `int64_t` arithmetic | width is the constant `MaxInt`; `Meaning` is the reference for an operator |
| `Bytecode` | `bytecode.h` | plus `ProgramOK` and `CallsFit`, what the VM assumes of a program |
| `Arith` | the VM's arithmetic helpers | |
| `IR` | `ir.h`, `ir.cpp`, `ir_util.h` | plus `WellFormed`, the IR's invariant, `Sound`, which adds what its C++ types say, and `Numbered`, the order in which IRGen numbers results |
| `ConstFold`, `Algebraic`, `ConstProp`, `DCE` | one pass each | `pass(f) = [f, changed]`, as `run` mutates and returns |
| `Tokens` | `token.h` | a kind is its text |
| `Syntax` | `ast.h` | constructors only; positions are left out |
| `Sema` | `sema.cpp` | the checker's members are a record threaded through; a diagnostic is the rule it reports |
| `IRGen` | `irgen.cpp` | likewise |
| `Codegen` | `codegen.cpp` | two-pass block layout and jump patching; plus `Lowerable`, what it assumes of a module |
| `Printers` | `ast_print.cpp`, the printer of `codegen.cpp` | a dump is lines of words |

State machines:

| Module | State | One step is |
|---|---|---|
| `Lexer` | `src pos line col out errors` | one iteration of `tokenize`'s loop |
| `Parser` | `toks pos errors panicking todo vals` | one decision of one parse function; `todo` is what the active calls have still to do, `vals` the values they have built |
| `VM` | `prog stack depth out status error value` | one instruction, one function per group of opcodes; `stack` makes the C++ recursion of `VM::call` explicit, `depth` is the separate counter `depth_` |
| `PassManager` | `mod fi iter pi any total` | one pass over one function (`RunPass`), the loop test (`NextRound`, `NextFunction`) |
| `Dumps` | `PassManager`'s, and the labels of the blocks | one pass; the state is what `--emit=ir-opt` would print |
| `Lowering` | `PassManager`'s | one pass; `Codegen` stands behind the pipeline: the code that would be generated if the rounds ended here |
| `Compiler` | driver variables, and those of `PassManager` (EXTENDS) and `VM` (INSTANCE) | one stage of `main`; the pipeline and the VM keep their own steps |
| `Dslc` | `Compiler`'s, and those of `Lexer` and `Parser` (both INSTANCE) and of the argument loop | one argument, one step of lexer, parser or `Compiler`; the whole of `main` |

Specifications the code is held against:

| Module | States |
|---|---|
| `Language` | what a source program means: a big-step interpreter over typed values. It shares no operator with the compiler beyond `Words`. It goes "stuck" on everything Sema is there to exclude |
| `Observable` | the promise: words appear in the order the source prints them, then the run ends as the source does. `lenient` licenses losing a division trap |
| `EndToEnd` | composes `Compiler` with `Language`'s outcome and shows that it implements `Observable` (`INSTANCE ... WITH`, checked as a PROPERTY) |
| `Scanning` | what tokens are, in terms of the text: offsets, gaps, longest lexemes |
| `Grammar` | SPEC.md's grammar, independently of the parser: the set of trees a token sequence can be read as. The two rules on which SPEC.md and the tree of `ast.h` part are constants: whether a block is a statement, whether a return may be bare |
| `Parsing` | holds `Parser` against two instances of `Grammar`: `SpecMd`, to the letter of SPEC.md, and `AstH`, whose trees `ast.h` can hold |
| `Evaluators` | chains of operations run through folder, simplifier and VM side by side |

`MCPrograms` holds the families of source programs; `MCLexer`, `MCParser`,
`MCVM`, `MCPassManager`, `MCCompiler` and `MCDslc` are the instances.
`Dslc` is `EndToEnd` with the front end before it: `MCDslc` spells programs of the
families out as texts, in two layouts, and the driver has to find the program
again in the characters. `Arith_proofs`, `Evaluators_proofs`,
`VM_proofs`, `Lexer_proofs`, `Parser_proofs`, `IR_proofs`, `Passes_proofs` and
`PassManager_proofs` hold the lemmas and theorems; what codegen makes of the
module behind the passes belongs to the last.
`Grammar`, `Printers`, `IRGen`, `Sema` and `Language` recurse over trees with
RECURSIVE operators; the modules that are proved about do not use them.

Where the model departs from the text of the code:

* sets of positions replace in-place loops that erase or mark (`DCE`,
  `sweep_dead`): `InOrder` lists the survivors, `Rank` is the number each gets;
  the fixpoint of `eliminate_dead_temps`, the chains that `constprop` resolves
  (`Chase`) and its walks over blocks and instructions (`WalkBlocks`, `Walk`) are
  recursive functions from the number of steps taken to the state then;
* a text is a string of TLC; `Lexer` takes it apart with `SubSeq` and `Len`;
* the bodies of a program's functions are checked one by one against the
  signatures and their diagnostics joined in order (`Sema`): a body leaves the
  checker's other members as it found them;
* Sema's diagnostics and error messages are names; a diagnostic of the lexer is
  a line and column, one of the parser the index of its token, and the parser's
  are a set, so that a parse that reports one place for ever stays in finitely
  many states. For the same reason lists of the tree are not extended any more
  once something has been reported: `main` drops that tree;
* `synchronize` reads `toks_[pos_ - 1]` with `pos_ = 0` when the first token is
  wrong; what it finds there is a free choice (`junk`);
* a block's label ends in the id it was made with; only `Dumps` has labels;
* an option nobody knows, `--stats` among them, changes nothing that is modelled;
* a trap is a C++ exception: it empties `stack` and, as in the code, leaves
  `depth_` where it was;
* registers and slots are functions on `0 .. n-1`, block ids, pcs and function
  indices count from 0; sequences count from 1, hence the `+ 1`s.

Some operators have a second form just before them, marked as a *faulty
variant* (`Enter_checks_late`, `DeadStores_in_their_block`, ...). It is the
operator as a plausible bug would have it. No specification uses it. For each
property of each run `PROJECT.json` (*mutants*) names the variant that, put in
the operator's place, must make TLC find that property violated: the evidence
that the property can fail at all.

## 3. What is checked

| Run | Question | Properties |
|---|---|---|
| `evaluators` | do folder, simplifier and VM agree with each other and with arithmetic, on every operation, binary and unary, and all 4-bit words? | `VMComputesTheMeaning`, `FolderAgreesWithVM`, `SimplifierAgreesWithVM` |
| `vm` | does the machine stay in its arrays, count its activations, keep them apart and halt? | `TypeOK`, `DepthOK`, `FrameIsolation`, `Halts` |
| `passes` | does every pass keep the IR well formed and fit for codegen, report truthfully, shrink the code and show what it did in the dump; does every round it runs change something, and does it end, at a fixpoint? | `IRStaysWellFormed`, `LoweredCodeIsSafe`, `ChangesAreReported`, `EveryChangeIsProgress`, `DumpShowsEveryChange`, `LeavesOnlyAtFixpoint`, `RoundsAreEarned`, `PipelineEnds` |
| `compiler` | from the tree to the exit: arithmetic, branches, shadowing, short-circuits, early returns, loops, calls with effects, recursion and overflow of the call depth, compiled at `-O0` and `-O1`; programs about names and types, most of them wrong, and one wrong expression under up to two operators in every kind of statement, with every `--emit`; programs that differ in little, and their dumps | `PreservesBehaviour`, `CompiledCodeIsSafe`, `Terminates`, `AcceptedProgramsDoNotGoWrong`, `ExitTellsTheOutcome`, `OneMistakeOneDiagnostic`, `SameDumpSameTree`, `SameDumpSameCode` |
| `capped` | branches and loops with a cap of one round: is a pipeline cut short still right? | `PreservesBehaviour` |
| `lexer` | every text of up to 4 characters over an alphabet chosen for the purpose: is it cut into the longest lexemes, each with its kind, value and place? | `TokensTileTheText`, `TokensAreWhatTheTextSays`, `ErrorsAreErrorTokens`, `EndsInOneEof` |
| `parser` | short expressions, three operators in a row, whole programs with any one token lost, gained or replaced, bodies of right and wrong statements | `TypeOK`, `AcceptsExactlyTheGrammar`, `EachMistakeIsReported`, `EndsUnlessStuck` |
| `dslc` | the whole program on texts and command lines: is what is compiled what the text spells, and does the process exit with the status that tells what happened? | `TextRunsAsItsTree`, `OnlyTheTextIsCompiled`, `StatusTellsHowFar`, `Exits` |
| `strict` | `PreservesBehaviour` without the licence to lose a trap: **violated**, see 7 | `TrapsAreKept` |
| `unclosed` | does parsing always end: **violated**, see 7 | `ParsingEnds` |
| `long_sum` | does the pipeline always end at a fixpoint, as the documents say: **violated**, see 7 | `OptimizedToAFixpoint` |
| `spec_md` | are the functions the parser accepts those of SPEC.md's grammar: **violated**, twice over, see 7 | `FunctionsAreSpecMds` |

`PreservesBehaviour` is refinement: the words a run prints appear one by one in
the order of the source, and the run ends with the source's result, its division
trap or its stack overflow, at `-O0` exactly, at `-O1` up to lost division
traps. `Terminates` and `PipelineEnds` add that it gets there. `TextRunsAsItsTree`
is the same refinement from the text on: `expected` is the outcome of the tree
the text spells, and lexer, parser and driver have to find that tree.

`AcceptsExactlyTheGrammar` compares the parser with the *set* of readings of the
token list, so it says three things: what is accepted is a sentence, its tree is
the right one, and the grammar is unambiguous on it (one reading); what is
rejected, or never finished, has none. The grammar is `AstH`, SPEC.md's but for the
two rules where the parser departs from it. That it does is what
`FunctionsAreSpecMds`, which holds it against `SpecMd`, shows; that it departs
nowhere else is what this property adds.
`EachMistakeIsReported` is about recovery:
in a body of simple statements each wrong one has a diagnostic of its own, right
ones have none. `EndsUnlessStuck` lists all the ways in which parsing does not
end (`Stuck`): the parser stands at a loop, at a token that the loop's body
reports and leaves, and at which `synchronize` stops on the spot.

`LoweredCodeIsSafe` asks after every pass, not only after the last, whether the
code that codegen would now make is safe for the VM (`SafeProgram`). It says more
than `IRStaysWellFormed`: a pass must also keep the operands, results, slots for
arguments and arities that `lower_fn` and `VM::call` take for granted.
`CompiledCodeIsSafe` is the same question at the end of the driver's chain.

`EveryChangeIsProgress` is the variant that makes the rounds end: every pass that
changes a function leaves it with fewer instructions or fewer of them other than
constants and copies, or with fewer operands that can be forwarded.

Deadlock is checked in the compiler, driver and pass-manager runs (an explicit
step stands for "done"). It is off in `vm`, `evaluators`, `lexer` and `parser`,
where a halted machine, a chain that has trapped and a finished list or tree
really stop.

## 4. Bounds

* `MaxInt = 7`: 4-bit words. All code is uniform in the width; 4 bits have
  distinct MinInt, -1, 0, 1, MaxInt, wrap-around in every operation, products
  that overflow several times, and every literal the families use. The proofs
  cover every width.
* In the `lexer` run `MaxInt = 127`: literals of up to five digits fall on both
  sides of it. Texts have up to 4 characters of 14, up to 3 of another 7: enough
  for every symbol next to every other, a comment with and without its newline,
  a word behind a number; what the lexer does depends on at most two characters
  of look-ahead and on the run it is in.
* Token lists: expressions of up to 4 tokens of the 9 that decide which branch
  `parse_unary` and `parse_binary` take, every triple of the 13 operators (any
  two levels beside each other, thrice), three programs with every construct
  and their about 4300 neighbours at a distance of one token. The parser's
  look-ahead is one token and its memory the call stack, so a mistake is met in
  every context the programs have.
* Texts: 175 programs of all families in two layouts (no blank too many;
  comments, tabs and CRLF), and 43 texts that spell none. Command lines: 241,
  every pair of 14 arguments and some longer, over six files.
* `kMaxDepth = 3` (5000 in the code, `vm.cpp:84`): reached and exceeded by the recursive
  programs of `Calls`, and not by others. Proved for every value.
* `max_iters = 50` as in the code, and 1 in `capped`, the strongest cut. The
  families need few rounds; the program of `long_sum` has 51 additions, one more
  than there are rounds, and is spread over three statements only to keep its
  tree shallow.
* `Fuel = 20`: calls and iterations the reference interpreter may make; no
  program of the families runs out, so "diverges" is never an outcome, and a
  compiled program that ran longer would fail `Terminates`.
* Programs: the families fill holes in program skeletons from small sets so that
  every rewrite has programs on which it fires and programs it must leave
  alone. The argument of `f` is what the optimiser cannot know, nothing being
  propagated across calls. `Arith` has two chained operations with every pair of
  operators; `Branches` crosses conditions (constant, opaque, short-circuit,
  nested) with arms (assign, shadow, store twice, return early), and leaves a block
  out of reach between others, so that dead-code elimination renumbers; `Loops` has
  opaque, constant-false and short-circuit conditions; `Calls` nests calls in
  every operand position; the programs of `Alike` differ in one atom, operator or
  grouping. Of programs that differ only in main's argument `passes` takes one.

## 5. Fairness

The program is one thread that takes its next step as long as it has one:
weak fairness of the next-state relation, and of nothing finer. `VM` states it
as `WF_vars(Next)`, and so do `Lexer` and `Parser`. TLC evaluates ENABLED of an action by looking for all its
successors, which for a step that runs a pass or a stage is slow; `EndToEnd`,
`Dslc` and `MCPassManager` therefore state the same fairness without ENABLED: infinitely
often finished, or infinitely many steps taken. That a step is possible until
the end, which makes the two the same, is what the deadlock check of these runs
establishes.

## 6. What is proved

All theorems hold for every value of the constants under the assumptions the
modules name:

* `MaxInt >= 1`, `kMaxDepth \in Nat`, `max_iters \in Nat`;
* for the VM, that each program is well formed (`ProgramOK`): the VM checks
  nothing, so this is what it must be given. `LoweredCodeIsAlwaysSafe` proves that
  codegen provides it, `CompiledCodeIsSafe` checks that the whole compiler does;
* for the parser, that each token list ends in its only Eof; the lexer provides
  it (`EndsInOneEof`);
* for the pass manager, that each function it starts with is `Sound`
  (`ModulesAssumption`): the fields have their C++ types, operations have the
  operands they need, and `WellFormed` holds. That is what IRGen provides. IRGen
  recurses over trees and is out of the prover's reach; TLC evaluates the
  assumption on what IRGen makes of every program of the `passes` run;
* for the measure of the passes' progress, that each function is `Numbered`
  (`NumberedAssumption`, used by `EveryChangeIsAlwaysProgress` only): in a block, a
  result has a higher number than the temps before it and than its own operands.
  `gen_expr` calls `new_temp` when it emits an instruction, behind its operands
  (`irgen.cpp:188-227`). TLC evaluates it on the same programs;
* for codegen behind the passes, that each module is `Lowerable`
  (`LowerableAssumption`, used by `LoweredCodeIsAlwaysSafe` only): functions have
  different names, `main` is one and takes nothing, what computes a value has a
  result, operations have their number of operands, a call names a function and
  passes what it declares, constants are words, temps are below `next_temp`, and
  parameters have slots. Sema sees to names, `main` and arities
  (`sema.cpp:25-48`, `197-221`), IRGen's `gen_expr` and `gen_function` to the
  rest. TLC evaluates it, too, on every program of the `passes` run;
* for the lexer, that a text is a string (`TextsAssumption`): the length of a
  substring and its characters, that symbols are one or two characters long and
  neither begin like a word nor have a newline in them, and that every digit has a
  value. The prover does not look into strings; TLC evaluates the assumption on
  every text of the run.

**`Evaluators_proofs`**: `FoldingIsRunning`, `RunningIsMeaning`,
`SimplifyingIsRunning` establish the three invariants of the `evaluators` run at
every width, 64 bits included, for binary and unary operations. The invariant `Inv` says that both results are
those of the last operation on operands of its type; it is needed because `&&`
and `||` are only right on bits, so what a chain can feed them matters. The work
is in the lemmas on truncating division (`Arith_proofs`): a quotient of words is
a word except for MinInt / -1, a remainder always is; in `Rewrites`, which lists
when the simplifier rewrites what; and in `NeutralAndAbsorbing`, the identities
it relies on.

**`VM_proofs`**: `MachineIsTyped` (`TypeOK`), `DepthIsCounted` (`DepthOK`) and
`ActivationsAreIsolated` (`FrameIsolation`). `TypeOK` is not inductive: a return
writes a register of the caller and advances its pc, which stays inside only if
the caller stands at a Call. `Inv` adds that (`Suspended`), and `DepthOK`, from
which a running machine has an activation and an overflow is a real one. The
proof has one lemma per action over three lemmas on what happens to the stack
(top replaced, one entered, all unwound) and `RetResumes` for the return.

**`Parser_proofs`**: `CursorStaysOnTheTokens` (`TypeOK`): for every token list
that ends in its only Eof, `pos_` stays on the tokens. The code's `advance` moves
only if it is not at the Eof (`parser.cpp:51`); the model's moves always, so the
theorem says more than that the test works: nothing ever depends on it, for no
caller advances at the Eof. Inductive is `Inv`: every token that pending work waits for
is a symbol, never Eof, and so the cursor moves only past tokens that have one
behind them. The proof classifies every action as a `Step` (how the cursor, the
diagnostics and the pending work may change) and shows once that such steps keep
`Inv`. `StuckAtTopIsForever` is the other side, and no instance of a run's
property: on every token list, a parser that stands between functions at a
statement keyword, a `}` or behind a `;` never returns.

**`PassManager_proofs`**, over `IR_proofs` and `Passes_proofs`. The first result,
`HonestPassesStopAtFixpoints`, is the argument for looking at nothing but the
passes' return values: as long as a round has reported nothing (`RoundSoFar`),
the function is a fixpoint of every pass the round has run. The others say that
the four passes of this code deserve it:

* `PassesKeepIRWellFormed` (`IRStaysWellFormed`): whatever passes have run, in
  whatever round, on whatever module, each block ends in its only terminator,
  branches name blocks, a temp has one definition and on every path it comes
  before its uses, slots are in range;
* `PassesReportTheirChanges` (`ChangesAreReported`): a pass says "changed" if and
  only if the function it leaves is another one;
* `PipelineStopsAtFixpoints` (`LeavesOnlyAtFixpoint`): what follows from these;
* `RoundsAreAlwaysEarned` (`RoundsAreEarned`): no round is run on nothing. Beside
  the round number, `RoundsSoFar` keeps that a change of the round under way is
  one more than the completed rounds account for; it takes nothing from the
  passes but that they answer.

`IRStaysWellFormed` is not inductive: that `constprop` may put the operand of a
copy in place of its result relies on the operand being there, and having a kind
and a number. `AllSound` is: every function of the module is `Sound`. The proof
that a pass keeps `Sound` has three shapes.

* *In place* (`constfold`, `algebraic`, `constprop`; `Rewritten`, `ReplacedIsSound`).
  Positions, terminators, results and slots stay as they are, and each operand is
  one the instruction had, or one that stands for it (`StandsFor`): it is defined
  before every place the other is defined before. That this composes along a
  chain of copies is `BeforeTransitive`, on reachable blocks. `constprop` needs an
  invariant of its walk: what is known of a temp stands for it, and what is known
  of a slot is defined before the instruction the walk has come to. Copies in
  unreachable code may form a cycle; `Sound` claims nothing of uses there.
* *Sweeping* (`sweep_dead`). `Survivors` keep their order (`InOrder`, by the
  lemmas on `Rank`), so definitions that came first still do. What may be swept is
  what is no terminator and whose result only swept instructions use
  (`Deletable`); the rounds of `eliminate_dead_temps` have that property when they
  have come to rest, and they do within `next_temp` rounds, because each round
  but the last marks the definition of one more temp.
* *Renumbering* (`remove_unreachable`). `Rank` and `InOrder` are inverses, paths of
  the packed function are the paths of the old one, so what was reachable
  without entering a block still is.

`EveryChangeIsAlwaysProgress` (`EveryChangeIsProgress`) is why the rounds end by
themselves: with every change a pass makes, the pair of `Size` (instructions,
and once more those other than constants and copies) and `Forwardable` (operands
that name a constant or a copy) falls in lexicographic order, and the code never
gets longer. `AllSound` is not enough for it. Where copies form a cycle, as `Sound`
allows in unreachable code, the `guard` at `constprop.cpp:30` ends the search, and
forwarding a temp along the cycle brings nothing nearer to an end. IRGen makes no
cycle, as `Numbered` says, and the inductive invariant is `AllSound /\ AllNumbered`.
The cases are:

* *`constfold`, `algebraic`*: a changed instruction was neither constant nor copy
  and becomes one (`ImprovedFunction`), so `Size` falls.
* *`dce`*: something is taken away, and nothing else changes but branch targets
  (`SweptLeft`, `PackedLeft`), so `Size` falls (`LeftIsLess`). What is left is still
  numbered in order (`LeftIsNumbered`).
* *`constprop`*: if a load becomes a constant or a copy, `Size` falls. If not, all the
  pass did was to forward operands (`BlocksDown`, the invariant of its walk).
  Something could then be forwarded before (`SomethingToForward`) and nothing
  can after (`NothingToForward`), because every chain of copies leads downwards and
  so ends at a value that is no copy within the `guard` (`ChaseEnds`).

The measure is bounded below, so only finitely many changes are possible; that
the pipeline then ends is a matter of fairness, which TLC checks (`PipelineEnds`).

The last result is about what comes behind the passes.
`LoweredCodeIsAlwaysSafe` (`LoweredCodeIsSafe`): wherever the rounds may stop, the
code that codegen makes of the module is one the VM can run unchecked. With the
theorems of `VM_proofs`, which assume no more of a program, it leaves only the
front end and IRGen to TLC. The inductive invariant is
`AllSound /\ AllLowerable`: neither part would do, for a target is in range because
branches name blocks (`Sound`) and an operand because a pass leaves an operation
its operands (`Lowerable`). The proof has two halves.

* *Passes keep what fits* (`ConstfoldFits`, `AlgebraicFits`, `ConstpropFits`,
  `DceFits`). Rewriting in place makes constants and copies of operands that fit,
  folded values being words because the arithmetic wraps (`TruncDivWord`,
  `TruncModWord`); what `constprop`'s walk knows of temps and slots fits
  (`WalkFits`), and a chain of copies leads to a value that fits. Sweeping takes
  instructions away, and renumbering changes block ids alone. What other functions
  see of a function is the same (`SameOutside`), so their calls still fit
  (`ReplacedFunctionFits`).
* *What fits is lowered to good code* (`CodegenIsSafe`). Each instruction becomes one
  or two that are `GoodCode`, their targets still block ids (`LowerBlockGood`). No
  block is empty, so laid end to end (`LaidOut`, `Flattened`) each begins before
  the end of the code, which makes every patched target an instruction
  (`PatchedIs`), and the last instruction is that of the last block, a terminator.
  As names differ, `fn_index` numbers each function by its own place
  (`FunctionsNumbered`).

**`Lexer_proofs`**: `TokensAlwaysTile` (`TokensTileTheText`),
`ErrorsAreAlwaysTokens` (`ErrorsAreErrorTokens`) and `TokensAlwaysSay`
(`TokensAreWhatTheTextSays`), for texts of every length. The first
property speaks of the position a line and a column name, and counts newlines to
find it; `LexerInv` keeps beside it the beginnings and ends of the tokens, as two
functions that exist (`Tiled`), and says of the cursor that its column is its
distance from the last newline (`Cursor`). One lemma is enough for what each step
does to the cursor (`MovesOn` within a line, `NextLine` over its end), one for a
step that skips (`Skips`), one for a step that emits a token (`Emits`), and the six
actions are instances. For longest lexemes the invariant is `TokensSay`: of each
token but the last Eof, where it begins and that it `Says` what the text says
there. A number, a word or a symbol says so when it is read (`NumberSays`,
`WordSays`, `SymbolSays`): a longer lexeme would begin with the same character, and
so be of the same class, whose run has ended; no symbol is longer than two. That
a literal has a value at all, a natural number that the test against `MaxInt` makes
a word, is by induction over its digits (`NumbersSay`, see below).

Not proved, and left to TLC:

* liveness (`EndsInOneEof`, `EndsUnlessStuck`, `Exits`, `Halts`, `PipelineEnds`,
  `Terminates`) and ENABLED: the prover has neither;
* whatever is stated in a module that reaches a RECURSIVE operator (`IRGen`, `Sema`,
  `Language`, `Grammar`, `Printers`): `CompiledCodeIsSafe`, `PreservesBehaviour`,
  `AcceptedProgramsDoNotGoWrong`, `ExitTellsTheOutcome`, `OneMistakeOneDiagnostic`,
  `AcceptsExactlyTheGrammar`, `EachMistakeIsReported`, `OnlyTheTextIsCompiled`,
  `StatusTellsHowFar`, `TextRunsAsItsTree`, `SameDumpSameTree`, `SameDumpSameCode`;
* `DumpShowsEveryChange`: the prover does not look into strings.

On induction: the library's induction theorems take an operator as a parameter,
which none of the installed provers instantiate. Where a recursive function had to
be reasoned about (`Reach`, `Marked`, `Chase`, `Walk`, `WalkBlocks`), a lemma proves
that it satisfies its equations, and the induction is over a *set* of numbers: the
least number outside it (`IR_proofs`) would be a counterexample.

## 7. What was found

* **A division trap can be lost at `-O1`** (run `strict`). `eliminate_dead_temps`
  treats Div and Mod as pure (`dce.cpp:43`): the run's program is
  `print(p); let x: int = 6 % p; print(7); return p;` in a function `f`, and a
  `main` that prints `f(0)`. At `-O0` it prints 0 and stops with a trap. At `-O1`
  the passes delete first the store to `x` and then the unused `mod`, and it
  prints 0 and goes on to print 7, which is where TLC's trace ends; the program
  runs to its end and exits 0. `docs/SPEC.md:182` demands that every pass preserve the
  prints and the return value, and line 108 defines division by zero as a trap.
* **Parsing need not end** (run `unclosed`, theorem `StuckAtTopIsForever`).
  `synchronize` (`parser.cpp:71-82`) returns without advancing at `fn`, `}` and
  statement keywords and behind a `;`, and `parse_block` and `parse_program` call
  it without having consumed anything. A function that lacks its closing brace,
  a statement or a `}` between functions, or a stray `)` or `else` behind a `;`
  in a block makes `dslc` report the same token until memory is exhausted.
  `parser.h:18-19` says that it recovers and returns. `EndsUnlessStuck` shows
  that there are no other ways, on the programs of the `parser` run; the first
  token of a file, where `toks_[-1]` decides, is the one that may go either way.
* **The pipeline is not always run to a fixpoint** (run `long_sum`), as the
  repository's `README.md:66`, `docs/SPEC.md:163` and `docs/REVISION.md:157` say it
  is; `pass.h:21` alone adds the cap. In `1 + 1 + ... + 1` a round folds the first
  addition, whose result propagation then puts into the next. With 52 ones every
  one of the 50 rounds ends with a change, and the 51st addition is left for the
  VM with two constants as its operands. The result is correct all the same (run
  `capped`). `LeavesOnlyAtFixpoint` says that the cap is the only reason, and
  `EveryChangeIsProgress` that without it the rounds would end as well.
* **The grammar is not that of SPEC.md** (run `spec_md`). The run has one program,
  `fn f() -> int { return ; } fn main() -> int { { return 1; } }`, and TLC's trace
  ends with one diagnostic, at the semicolon in `f`:
  * *a return needs a value*: `SPEC.md:88` has `"return" expr? ";"`, so `f` is a
    function, while `parse_return` (`parser.cpp:195`) always parses an expression
    (`ast.h:102` calls the value "always present");
  * *a block is a statement*: the alternatives of `SPEC.md:83` have none, so `main`
    is no function, while `parse_statement` (`parser.cpp:150`) takes one and reports
    nothing.

  `AcceptsExactlyTheGrammar` shows that the parser departs from SPEC.md in these two
  rules only, on the programs of the `parser` run.

Another difference was met that no run is about:

* `remove_unreachable` (`dce.cpp:24`) renumbers blocks and the branches to them
  and leaves their labels, which end in the old number and are all that the dump
  shows of a block: with `--emit=ir-opt` a `br .6` may stand beside a block
  labelled `while.header.6` that is not its target. `DumpShowsEveryChange` holds
  with these labels.

## 8. Not modelled, and what could come next

Not modelled:

* the texts of diagnostics, and the line `--stats` prints: no property depends on
  their wording;
* the host's stack: parser, Sema, IRGen and the printers recurse as deep as the
  program nests, and a long row of `-` or `(` can overflow it. The depth at which
  it does is not a number of this code (the hazard at `parser.cpp:252`);
* the tests, read for what they claim.

Done so far, in this order: the evaluators; the VM; IR and the passes; the pass
manager; Sema, IRGen, Codegen; the language and the end-to-end refinement; the
parser and its grammar; the lexer; the whole driver; the dumps; the proofs above.
What could come next:

1. An abstract call machine (functions from arguments to outcomes) that `VM`
   implements, in place of the interpreter for recursive programs.
2. A per-pass refinement: the IR's own small-step semantics, so that a pass can
   be checked on IR that IRGen never produces but another pass does.
3. Proofs: `CallsFit` as an invariant of the running VM; in the parser, that
   `StuckInBlock` at `fn` is forever, too.
