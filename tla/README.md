# A TLA+ model of the MiniC compiler

MiniC translates a subset of C to 32-bit x86 assembly. This directory holds TLA+
modules for every stage of it: the parser and the tree it builds, the semantic analysis,
the IR builder, the optimizer, the x86 backend, and `main`. TLC checks them on small
programs; TLAPS proves for all programs that the parser loses and frees twice nothing, that analysis
and renaming follow the scoping of the language, that the IR builder makes a function the optimizer can take, that the
optimizer changes nothing that can be seen, and that the emitted
code does what the optimized function says. Source paths are relative
to the directory that holds `src/`, so `src/src/backend.cpp` is the backend.

- [The system](#the-system)
- [Modules](#modules)
- [How the models correspond to the code](#how-the-models-correspond-to-the-code)
- [What TLC checks](#what-tlc-checks)
- [What is proved](#what-is-proved)
- [Disagreements between code and documentation](#disagreements-between-code-and-documentation)
- [What is not modelled](#what-is-not-modelled)
- [Plan](#plan)

## The system

One process, one thread, one pass through a pipeline. The stages share three global
variables (`root`, `module`, `out_fp`); each stage finishes before the next starts:

    yyparse -> root -> semantic_analysis -> build_ir -> module -> optimize_ir -> generate_code -> out_fp

There is no concurrency, nothing is persisted, and a compilation is never resumed.
What is hard here is different: fixpoints that must end and end at the right place,
state that is changed after code has been planned around it (retroactive spilling,
replaced uses, erased instructions, deleted blocks), tables kept from one block to the
next, conventions two far apart pieces of code must share (what a name refers to, where a
value is, where `esp` is), and what is released when a stage fails.

| Component | State | Operations | Correct when |
| --- | --- | --- | --- |
| Lexer (`lexer.l`) | generated scanner | `yylex` | tokens carry the text they were made from |
| Parser (`parser.y`) | Bison's stack, `root` | the grammar actions, `%destructor` | every node and name is owned once and freed once, also on a syntax error |
| AST (`ast.cpp`) | the tree | `create*`, `freeNode`, `print*` | `freeNode` frees the tree and nothing else |
| Semantic analysis (`analysis.cpp`) | `symbol_tables` (stack of sets), `error_code` | `analysis_walk_nodes`, `analysis_walk_stmt` | every use is in scope, no name twice in a scope; the first error is the one reported |
| IR builder (`ir_builder.cpp`) | `renamings`, `var_counter`, `var_set`, `var_map`; the LLVM function under construction | `preprocess` (renames variables), `genIRStmt`, `genIRExpr`, `rmUnreachableBB` | a use gets the declaration analysis found; one terminator per block; the graph has the paths of the source |
| Constant propagation (`optimizer.cpp:142-313`) | `gen`, `kill`, `in`, `out`, the reaching set `r` | `doConstantPropagation` | ends; a load is replaced only if every store that can reach it stores that constant |
| Folding, CSE, DCE (`optimizer.cpp:11-140`) | `visited`, LLVM's use lists | `doConstantFolding`, `doCommonSubexprElim`, `doDeadCodeElim` | no use of an erased instruction; the function does the same |
| Optimizer driver (`optimizer.cpp:315-341`) | `changes` | `optimize_ir` | ends, with nothing left to do |
| Register allocator (`backend.cpp:12-167`) | `inst_index`, `live_range`, `reg_map`, the pool `available` | `compute_liveness`, `find_spill`, `alloc_registers` | two values needed at once never share a register; registers are not lost; the right value is spilled |
| Frame and emission (`backend.cpp:169-547`) | `bb_labels`, `offset_map`, `localMem` | `createBBLabels`, `getOffsetMap`, `generate_code` | the assembly does what the IR says; calls are aligned; `ebx`, `ebp`, `esp` are restored |
| Driver (`compiler.cpp`) | the files and globals | `main` | releases everything and exits 1 on each failure |
| Tests (`tests/`, `scripts/`) | | `optimizer_runner`, `runtime.c` | |

LLVM's C API and the x86 processor are outside the sources. They are modelled from
how the sources use them: `IRExec` and the `Exec` operator of `Codegen`.

## Modules

| Module | Models | Uses |
| --- | --- | --- |
| `Ast` | the tree, and which trees the parser hands over | |
| `Parser` | Bison's stack, the grammar actions, `create*` and `free*` | |
| `MC_Parser` | every short input, cut off anywhere | `Parser` |
| `Driver` | `main`: the stages in order, and what is released after them | `Parser` |
| `DriverProofs` | theorems about who owns what the parser allocates, and about the end of `main` | `Driver`, `TLAPS` |
| `MC_Driver` | every short input, every file that cannot be opened | `Driver` |
| `Scopes` | `semantic_analysis` and `preprocess` | `Ast` |
| `ScopesProofs` | theorems about both walks over the tree | `Scopes`, `TLAPS` |
| `MC_Scopes` | nested scopes over two names, right and wrong | `Scopes`, `TreeShapes` |
| `Words` | `i32`: constants, arithmetic and comparison | |
| `IRBuilder` | `build_ir`: lowering, and the removal of unreachable blocks | `Scopes`, `Words`; `IRProgram` for what the optimizer assumes |
| `BuiltRun` | the source and the built function, run side by side | `IRBuilder` |
| `IRBuilderProofs` | theorems about the built function: its blocks, and that it fits the optimizer | `BuiltRun`, `ScopesProofs` |
| `BuiltGuideProofs` | every step of building keeps to the source | `IRBuilderProofs` |
| `BuiltRunProofs` | the built function does what the program says | `BuiltGuideProofs` |
| `MC_IRBuilder` | programs with every statement | `BuiltRun`, `TreeShapes` |
| `TreeShapes` | builds trees from nested terms (TLC only) | |
| `RegAlloc` | the register allocator | |
| `MC_RegAlloc` | all short functions | `RegAlloc` |
| `IRExec` | abstract specification: what a function of the IR means | |
| `Codegen` | frame layout, emission, and the machine the emitted code runs on | `RegAlloc`; `IRExec` by refinement |
| `BackendProofs` | theorems about the allocator and the emitted code; the refinement | `Codegen`, `TLAPS` |
| `MC_Codegen` | functions with register pressure, calls, branches | `Codegen` |
| `IRProgram` | a function while it is being rewritten | |
| `ConstProp` | `doConstantPropagation` | `IRProgram` |
| `ConstPropProofs` | theorems about it: it ends at the right sets, and they are exact | `ConstProp`, `TLAPS` |
| `MC_ConstProp` | control-flow graphs | `ConstProp`, `ProgramShapes` |
| `LocalPasses` | folding, CSE, DCE | `ConstProp`, `Words` |
| `Optimizer` | `optimize_ir`, composing all passes | `LocalPasses`; `RegAlloc` for what the backend assumes |
| `OptimizedRun` | the function before and after, run side by side | `Optimizer` |
| `OptimizerProofs` | theorems about all passes together, what the backend gets, and that the optimized function does what the built one did | `OptimizedRun`, `ConstPropProofs` |
| `MC_Optimizer` | straight lines, if-else, while | `OptimizedRun`, `ProgramShapes` |
| `ProgramShapes` | builds functions from block bodies and a graph (TLC only) | |

`PROJECT.json` maps every definition to the lines it stands for.

Definitions commented "Faulty variant" are not part of a specification. They are
versions of the definition below them with a bug somebody could have written; putting
one in place of the right definition makes TLC report the property it is there for.

## How the models correspond to the code

**Functions.** A function is a sequence of instructions in layout order, each with the
block it belongs to. An operand is an integer: positive for the result of that
instruction, 0 for the parameter, negative for a constant. Names, types and text are
left out. A name of a variable is a member of a small set.

**Parser.** `stack` is Bison's stack: symbols with their values, and as states the sets of
LR(0) items the input has led to. `Shift` and `Reduce` happen whenever an item allows
them; the real parser does one of them, the one its next token decides, so its
behaviours are among these. A production names only what owns something, so tokens
without a value are left out, and `RETURN '(' intExpr ')' ';'` is the same production as the
one without parentheses. `Productions` has the action of each; `Acted` is the heap after it: copies and
nodes allocated by the create functions, the names of the scanner freed, a list extended or merged. A
heap object is a kind with its pointers; a block's `std::vector` is an object of its own.
`Freed` is the dispatch of `freeNode` and `freeStmt` with everything freed from there.
`GiveUp` is a syntax error at any token or a stack that cannot grow: each value on the
stack and the lookahead go to the `%destructor` of their symbol. `root` is set by the
last reduction, and an error may still follow it, when there is text after the program. Nodes are allocated at the
lowest free address and names at the highest, which is one allocator of many, and
irrelevant for who owns what.

**Driver.** One action for each step of `main`, the parser's steps included. `held` is what
is open or allocated besides the heap of the parser: the files, the buffers of the scanner, the
module. Analysis, IR builder, optimizer and backend are models of their own;
here they are represented by their results. `build_ir` may also fail to return: in `Abort` LLVM
stops the process, as `dead_loop` shows, and then the operating system releases what is held. `NoModule` is the check
of `module` after it, which no execution fails. An output file needs a third argument, and so an input file.

**Scopes.** `todo` is the recursion of the two walks: nodes to visit, and a mark where a
scope ends. `Analyze*` are the cases of `analysis_walk_nodes` and `analysis_walk_stmt`,
`Rename*` those of `preprocess_walk_nodes` and `preprocess_walk_stmt`. "x.0" is `<<"x", 0>>`, which is
as unique, since an identifier has no dot. The body of the function shares the scope of the parameter.

**IRBuilder.** `work` is the recursion of `genIRStmt`: statements, and what is left to do
after the body of a `while` or a branch of an `if`, with the blocks that the recursion
keeps in its locals (`condBB`, `falseBB`, `ifExitBB`). One action for each case, and one for each
place where the code goes on after a recursive call. Instructions are kept in the order in which they
are created, with their block. `Build` folds constants as LLVM's builder does. `Remove` walks the
blocks in layout order. Deleting a block that a branch still names is undefined: LLVM
built with assertions aborts (`AbortDelete`), LLVM built without them goes on
(`DeleteBlock`), and both are possible here.

**BuiltRun.** The built function runs on every argument and every input, and the source
with it. The source follows `Binds`, the scoping of the language said without any stack; it
takes its step when the function is at the store, print or branch of the statement.
An uninitialised variable is `junk`, and a comparison of runs ends at a branch on junk.

**RegAlloc.** The variables are the code's: `live_range`, `reg_map`, `available`; `first`
and `pc` are its loop positions and `phase` says which loop runs. `EnterBlock` is the
start of an iteration over the blocks with the first loop of `compute_liveness`,
`ScanUses` one round of its second loop, and each of the five branches of the
allocation loop is an action: `ReleaseAtSink` (store, void call, terminator),
`TakeOver` (an add, sub or mul takes the register of its dying first operand),
`TakeFree`, `SpillSelf`, `SpillVictim`. Every one of them includes the release of the
registers of operands that die there, as the code does at the end of each iteration.
The choice `begin()` makes in an `unordered_set`, and the order `std::sort` gives
equal keys, are nondeterministic.

**Codegen.** Compilation and execution are one behaviour. First the actions of
`RegAlloc` run, then `GetOffsetMap` gives spilled values and variables their slots,
then the emitted code runs: one step executes the whole sequence `generate_code`
emits for one instruction (`CodeOf`, one operator per case of its switch) on a machine
with four registers, `ebp`, `esp`, a stack, the operands of the last `cmp` (unknown after
arithmetic, which sets the flags as well), and the calls made so far. A call destroys what the C calling convention lets it destroy:
`eax`, `ecx`, `edx`, the flags, and the stack at and below the argument. Machine words are
terms over the inputs, so any two different values are told apart; a branch on a
comparison may go either way, but a conditional jump whose flags come from another
comparison than the IR names goes the wrong way. `val` and `facts` are history: they
record what the IR computes, for the properties and the refinement.

**IRProgram, ConstProp, LocalPasses, Optimizer.** `prog` is the function as built;
`args` holds its current operands and `present` what has not been erased.
`LLVMReplaceAllUsesWith` is `Replaced`. `ConstProp` takes a step per block in the
fixpoint (`FlowBlock`) and a step per instruction in the sweep. `LocalPasses` takes a
step per instruction (`FoldInstr`, `ShareInstr`, `VisitInstr`, `EraseInstr`,
`SkipInstr`) and `EndOfBlock` decides what runs next: the next pass, the same pass over
the block again (dead code elimination, until it erases nothing), the next block, or
the next part of `optimize_ir`. `CountReplaces` is the assignment of
`doConstantPropagation`'s result to `changes` in the second loop.

**OptimizedRun.** Both versions of the function follow one instruction pointer, which
is possible because the optimizer never touches a terminator's targets. They run over
words modulo `Modulus`, on every argument and every input. A branch on a value
derived from an uninitialised variable ends the comparison, as C leaves its outcome open.

**Preconditions.** What a stage takes for granted of its input is an assumption on the
constant that holds the inputs, and a property of the stage before.

| Assumption | Of | Says | Fulfilled because |
| --- | --- | --- | --- |
| `TreesAssumption` (`Ast`) | trees | those of the grammar: each part of a kind that stands there, each node a part of one other, numbered in the order of the text | `Shaped` and `OwnedOnce` (`Parser`) have it of the nodes in memory |
| `ValuesAssumption` (`IRBuilder`) | numbers in the text | they are words | `atoi`, within its range |
| `AddressesAssumption` (`Parser`) | the heap | finitely many addresses, none of them 0 | a process has no more |
| `ModulusAssumption` (`Words`) | the size of a word | 2 or more values: a comparison is 0 or 1 | 2^32 |
| `ProgramsAssumption` (`IRProgram`) | functions | blocks are contiguous, end in their only terminator and branch to blocks; operands in the number of the operation | `FitsOptimizer` (`IRBuilder`) |
| `ValuesStayInBlocks` (`Optimizer`) | functions | a value is used after its definition and only in its block, as `ir_builder.cpp` passes everything else through allocas; what is read is stored | `FitsOptimizer` |
| `WordsAssumption` (`Optimizer`) | functions | constants are words; three operations, six predicates | `FitsOptimizer` |
| `FunctionsAssumption` (`RegAlloc`) | functions | as `ProgramsAssumption` of the optimized function, and every value has a use, because dead code elimination ran last | `FitsBackend` (`Optimizer`) |
| `CodeAssumption` (`Codegen`) | functions | `Translatable`: a comparison stands right before the only branch on it, only stores take the parameter; and loads and stores name allocas | `FitsCodegen` (`Optimizer`), but for the allocas, which no pass touches |

`FitsOptimizer`, `FitsBackend` and `FitsCodegen` are proved. Two theorems about the optimizer need more, as hypotheses, and
`FitsOptimizer` has both of what the IR builder builds: `ComparisonsAgree` (`SameEffectsTheorem`) and `Lowered`
(`FitsCodegenTheorem`). They are not assumptions because `optimizer_runner` takes any function,
and `two_conditions` has one without them. TLC evaluates all assumptions for the functions it is given.

## What TLC checks

| Run | States | Functions | Properties |
| --- | --- | --- | --- |
| `parser` | 276,000 | every input with at most 5 lists and statements, and 5 expressions, 2 of them more than a constant, at a time, with an error at every point | `ParserTypeOK`, `OwnedOnce`, `Shaped` |
| `driver` | 14,800 | the same with 3, 3 and 3; every file that cannot be opened, every result of the analysis, an abort in `build_ir` | `DriverTypeOK`, `ReleasedAtExit`, `StatusTells` |
| `scopes` | 33,000 | 2,304 programs over two names: a block, `while` or `if` with blocks inside, with and without declarations and a parameter | `ScopesTypeOK`, `Verdict`, `Resolved` |
| `ir_builder` | 67,000 | 422 programs: `if`, `if`-`else` and `while` in each other, shadowed names, code after a `return`; words modulo 4 | `IRTypeOK`, `WellEnded`, `FitsOptimizer`, `SameAsSource` |
| `dead_loop` | | a `while` after a `return` | `TranslatesAll`, violated: see below |
| `regalloc` | 207,000 | every block of five loads, arithmetic instructions and prints before the `ret`, and every pair of blocks of three each, over two interchangeable registers | `TypeOK`, `NoClobber`, `PoolExact`, `VictimExists`, `SpillsLatest` |
| `codegen` | 29,000 | two registers; three sources (loads, reads), up to two consumers in every combination, a return or a comparison and branch; all six predicates and constant branches | `CGTypeOK`, `ValuesInPlace`, `CallsAligned`, `CalleeSaved`, `ImplementsIR` |
| `codegen3` | 156,000 | the three registers of the code; five values alive at once, consumed in each of the 120 orders, with a call between | `ValuesInPlace`, `ImplementsIR` |
| `constprop` | 137,000 | every graph of three blocks that reaches them all, and while loops, with eight bodies | `CPTypeOK`, `Solved`, `ReachingExact`, `Terminates` |
| `optimizer` | 135,000 | 408 functions: straight lines, if-else, while, over two variables, words modulo 4 | `OptTypeOK`, `UsesAreThere`, `SameEffects`, `Settled`, `FitsBackend`, `FitsCodegen`, `Optimizes` |
| `two_conditions` | | two comparisons in one block | `SameEffects`, violated: see below |

What they show:

- `OwnedOnce`: whatever has been allocated and not freed is pointed to from exactly one
  place, an object, the stack, the lookahead or `root`, and nothing points to what has been
  freed. Leaks, double frees and uses after a free would break it, also when an error comes between
  any two actions. `Shaped`: the free functions' assertions hold, and the stages
  after the parser find the kind of node that they read without asking.
- `ReleasedAtExit`, `StatusTells`: on every path on which `main` returns everything is
  released, the status is 0 exactly if assembly has been generated, and the output file
  is opened, and so emptied, only for a program that has been compiled.
- `Verdict`: analysis accepts a program exactly if no use lacks a declaration and no scope
  declares a name twice, and otherwise reports the first error of the text. `Resolved`: after
  renaming, a use and a declaration have the same name exactly if the use refers to that
  declaration. Both are stated with positions in the text. `ScopesTypeOK` includes that
  no stack is empty when its back is used.
- `WellEnded`: at every moment of the lowering, a block that is finished ends in its only
  terminator, and one still open has none. `FitsOptimizer`: the result is a function as the
  optimizer takes it for granted, values used in their own block only. `IRTypeOK`: `var_map` has every
  name it is asked for. `SameAsSource`: the built function stores,
  prints, reads, branches and returns as the source does. Together with `SameEffects` and `ImplementsIR`
  these follow a program from its text to the machine.
- `NoClobber`: if two values of a block have the same register, the earlier one is not
  used after the later one is computed. The one overlap allowed is the first operand
  of an add, sub or mul, because the emitted code moves exactly that operand first.
  `PoolExact`: a register is free exactly when it holds nothing still needed, at every
  instruction; both freeing too early and leaking break it. `SpillsLatest`: the value
  sent to memory has the latest last use of all that compete. `VictimExists`:
  `find_spill` never returns NULL, so the branch for it is dead code.
- `ValuesInPlace`: at every instruction, each value still needed in the block is where the
  remaining code looks for it. This is where allocation, *retroactive* spilling (a
  victim lives in memory from its definition on, although code before was planned with
  it in a register), slots, and the saves around calls meet.
  `CallsAligned` is what `src/tests/backend/runtime.c` asserts. `CalleeSaved` is
  the rest of the calling convention.
- `ImplementsIR`: the machine refines `IRExec`. Variables are read from their stack slots
  and the result from `eax`; the same calls happen with the same arguments in the same
  order.
- `Solved` and `ReachingExact`: the sets solve the data-flow equations, and at a load
  they contain exactly the stores that a walk along the graph from each store finds
  (`ReachedFrom`, stated without gen, kill, in and out).
- `UsesAreThere`: after every step of every pass, what is left uses only what is left.
  `SameEffects`: at every store, print, branch and return, operands have the values
  they had in the function as built. `Settled`: when the loop of `optimize_ir` stops,
  nothing can be folded, erased or propagated. `FitsBackend` and `FitsCodegen`: the function
  that is left is one that the allocator and the code generator are made for; a comparison
  erased although its branch is still there, or a use from another block, would break them.
- `Terminates` and `Optimizes`: the loops end.

**Bounds.** In the parser five lists and statements are a function whose body has an `if` with
two branches, or a loop around a block, while five expressions cover a comparison and an
operation in each place where one can stand; the numbers count what is in memory at a time.
`Addresses` is large enough never to run out within these bounds. The trees of `scopes` nest three
scopes, so that a name can be declared in an outer, an inner or a
neighbouring one, and used before and after. Those of `ir_builder` nest statements twice, so
that each continuation of `genIRStmt` meets a block other than the one it started in, and have
code after returns, without loops there: `dead_loop` has those. With two registers three live values already spill, so five-instruction
blocks reach each branch of the allocator, several of them after a spill; two blocks
suffice for what one block leaves behind for the next. Reads and comparisons are
allocated like loads, stores like prints. In the backend, a value can be in a
register, a slot or the flags, and each kind meets each consumer on either side;
`codegen3` adds the code's own number of registers, where `ebx` (kept across calls) and
`ecx`, `edx` (not kept) are all taken. In constant propagation three blocks give joins,
back edges, self loops and a change that reaches an earlier block in a later round.
Words modulo 4 (`Modulus`, 2^32 in the code) wrap around and have both signs. No
variable has an artificial bound: the behaviours of these functions are finite, except
the loops run in `optimizer`, which come back to the same words. All functions of
`optimizer` print both variables at the end, so that a wrong constant is seen.

**Deadlock** is checked in all runs; the end of a compilation or of a run is an
explicit stuttering action (`Finished`, `Returned`, `Stopped`, `ParserDone`, `Exited`,
`ScopesDone`, `NotBuilt`).

**Fairness.** `Terminates` needs `WF(Propagate)` and `Optimizes` needs
`WF(OptimizeOnly)`: the compiler is one sequential program that nothing blocks, so it
goes on as long as it has a next step. Nothing is assumed of the compiled program's
runs, which may stop anywhere, and the safety properties use no fairness.

## What is proved

TLAPS checks every step. Nothing is assumed but the named assumptions of the modules (see
Preconditions; that `junk` is no word; a non-empty set of registers with neither `nullreg` nor `none` in it; for the
emitted code, that the registers are `ebx`, `ecx` and `edx`) and the hypotheses that a theorem states.
The trees, the functions and their graphs, the number of names and registers and the
size of a word are arbitrary. The inductive invariants that TLC can evaluate were tried on the runs' inputs
before they were proved.

| Module | Theorem | Says |
| --- | --- | --- |
| `BackendProofs` | `TypeCorrect`, `NoClobberTheorem`, `PoolExactTheorem`, `VictimExistsTheorem`, `SpillsLatestTheorem` | `Spec => []TypeOK`, ..., `Spec => SpillsLatest` |
| | `AllAllocated` | when `alloc_registers` is done, every value has an entry in `reg_map`: the eleven assertions in `generate_code` (`src/src/backend.cpp:282-528`) hold |
| | `CGTypeOKTheorem`, `ValuesInPlaceTheorem`, `CallsAlignedTheorem`, `CalleeSavedTheorem` | `CGSpec => []CGTypeOK`, ... |
| | `ImplementsIRTheorem` | `CGSpec => ImplementsIR`: the emitted code implements `IRExec` |
| `ConstPropProofs` | `TypeCorrect`, `SolvedTheorem`, `ReachingExactTheorem` | `CPSpec => []CPTypeOK`, `CPSpec => []Solved`, `CPSpec => []ReachingExact` |
| `OptimizerProofs` | `OptTypeOKTheorem`, `UsesAreThereTheorem`, `SettledTheorem`, `FitsBackendTheorem` | `FairORSpec => []OptTypeOK`, ... |
| | `FitsCodegenTheorem` | the same for `FitsCodegen`, if all functions are `Lowered` |
| | `SameEffectsTheorem` | the same for `SameEffects`, if comparisons of a block agree in all functions |
| `ScopesProofs` | `ScopesInductive`, `ScopesTypeOKTheorem`, `VerdictTheorem`, `ResolvedTheorem` | `ScopesSpec => []ScopesIInv`, ... |
| `IRBuilderProofs` | `BuiltInductive`, `WellEndedTheorem`, `IRTypeOKTheorem`, `FitsOptimizerTheorem` | `BRSpec => []BuiltIInv`, ... |
| `BuiltGuideProofs` | `GuideInductive` | `BRSpec => []GuideIInv`: while the function is built, a guide to the source fits it |
| `BuiltRunProofs` | `RunInductive`, `SameAsSourceTheorem` | `BRSpec => []RunIInv`, `BRSpec => []SameAsSource` |
| `DriverProofs` | `ParserTypeOKTheorem`, `OwnedOnceTheorem`, `ShapedTheorem` | `ParserSpec => []ParserTypeOK`, ... |
| | `DriverTypeOKTheorem`, `ReleasedAtExitTheorem`, `StatusTellsTheorem` | `DriverSpec => []DriverTypeOK`, ... |

None of these properties is inductive alone.

**BackendProofs.** First the allocator. `NoClobber` needs to know what the pool says, the
pool needs to know what a live range means while it is only half computed, and both
need that the loop positions stay in one block. The inductive invariant `IInv` adds
to `TypeOK` and `NoClobber`: where the cursor is with respect to the current block;
that after the scan a live range ends at the last use (and before it, at the last
use seen so far); that only values before the cursor have a place; and that a
register is in the pool exactly if no earlier value of the block in it is
still needed. The step with most cases is `SpillVictim`, where a
register changes hands: its old holder leaves it for good, the other values with the same register
died before that holder was computed, and so the new value clobbers nobody. `VictimExists`
then follows by looking at any register: it is not free, so something needed holds it, and that
overlaps with the new value. `Mapped` (every value before the cursor has a place) gives `AllAllocated`.

Then the emitted code, from the machine up. First what one machine instruction does, and from that
what the sequence emitted for each instruction of the IR does: the move through `eax`, the
call with its saved registers and padding, prologue and epilogue. Then the layout of the
frame: the slots of variables, of spilled values and of what calls push are disjoint
(`FrameOK`). Then, that an instruction writes nothing that is still needed
(`StillNeeded`): registers because of `NoClobber`, memory because of the layout, flags
because a comparison is right before its branch. The invariant `CGIInv` is `ValuesInPlace` with the state of
the stack between two instructions and the allocator's `IInv`. With the operands in
place, each step is the step of `IRExec` with the same name (`ImplementsIRTheorem`). On junk,
an uninitialised variable, a branch of the machine and one of `IRExec` may each go either way.

**ConstPropProofs.** A round recomputes the blocks in order, from sets some of which
move later in the same round. `RoundOK` says: if nothing has changed so far in this round,
every block done in it satisfies its equations now. A change of an `out` set sets
`changed`, which makes the claim empty until the next round; an unchanged round
leaves every block done. With the shape of the function (blocks are `1 .. n`, a branch goes
to one of them) this is inductive, and at the end of an unchanged round it is `Solved`.

That the sets hold nothing too much is an invariant of the fixpoint
(`SetsSound`): what is in them can be reached by a walk in the graph. That they hold everything follows from
`Solved`, as the blocks that a store passes through satisfy the equations one after
the other. Inside a block `SweepExact` says the same of `r` at the instruction the sweep is at.

**OptimizerProofs.** `OptIInv` has what each pass relies on wherever the optimizer is in it: operands are there, come
before their use, in its block, and constants are words (`OperandsOK`); what CSE has
visited is behind it and there; the loads marked for erasing are used nowhere; and, inside
constant propagation, its own invariant. `Progress` says what the rounds have achieved so far: nothing
foldable behind a folding that has changed nothing, nothing dead behind an
elimination that has erased nothing since, no propagatable load behind a sweep
that has replaced nothing. When a round ends without a change all three hold
everywhere, which is `Settled`; that nothing is dead is what `FitsBackend` needs for the live ranges. `BranchesOK` follows
comparisons and their branches: a comparison goes out for a constant only, since its branch, the end of the block,
leaves no room for a second one.

Now for `SameEffects`. Whatever the passes have done, the operands are those of the function as
built under one substitution of values (`OperandsBy`). Each value that it changes is
justified by operands as they are now: folded, shared with an earlier computation of the same, or a load
that only stores of one constant reach. Every pass keeps some such substitution. The run of the
optimized function then has, instruction by instruction, the values that the substitution
says. CSE does not look at the predicate of a comparison
(`src/src/optimizer.cpp:11-47`), hence the hypothesis `ComparisonsAgree`; `two_conditions` shows the violation without it.

**ScopesProofs.** Positions in the tree first: nodes are numbered in the order of the text, and
what is inside of a node follows it without a gap. Both walks take the nodes in this order, with the
scopes around a node open when it is taken (`WalkAt`, `WalkOK`: one invariant for both, since `todo` is
used in the same way). A symbol table then holds the names declared so far in its scope, and a table of
renamings the names given there, which gives `Verdict` at the end of the first walk and
`Resolved` at the end of the second. A counter is above all numbers given, so no name is given twice.

**IRBuilderProofs.** What `genIRExpr` returns is shown by induction over the tree, its function unfolded node by
node: the code of an expression has no terminator, each of its operands is a constant or an earlier value of
the same code, and a comparison or a call of `read` is used by the very next instruction (`TermsCode`, `CondsCode`,
`GoodCode`, which is kept when code is put after code). While statements are lowered, each task in `work` *owns* the blocks it will still
end (`Owned`, `LeftToDo`): the condition's block after the body of a `while`, the block after
an `if`. No block is owned twice. A block that is owned, or current, has no terminator; every other one
has exactly one, at its end (`Function`, `PartWay`). `WellEnded` is this with `Open` for what is owned. `IRTypeOK` adds that every
name has its alloca, because of the scopes' invariant at the end of renaming. After
lowering, the set of blocks found by following branches no longer grows after as many rounds as there are blocks
(`ReachableSettled`), so a block that is kept branches to kept blocks only. `FitsOptimizer` is a fact about the function that is left
when it is put in layout order: the order lists each kept instruction once, block after block (`LayoutLists`), it
never moves one before another of its block, and so each instruction is the one it came from with
its operands renumbered (`ModuleMirrors`).

**BuiltGuideProofs and BuiltRunProofs.** The function and the source run side by side from state to state, and the function remembers nothing of
the statements it came from. So the proof keeps a *guide*: for each instruction the position of the source at which it stands
(`pre`: the statements that are left), the expression it computes (`of`) and where the code of its statement starts (`first`); for
each block the positions at its start and, while it is open, at its end (`start`, `fin`). Positions are the same
(`Same`) if they differ by blocks and declarations, which have no code. `Guided` says that a guide fits: a store is at an assignment
to that variable, of the value of its expression; one way of a branch is the body of the statement, the other what follows it; a
constant operand, folded by LLVM or not, is the value its expression always has (`Fixed`).
While statements are lowered, each task in `work` has promised what its blocks will
lead to (`Traced`, `Coding`), and a statement is lowered only up to a position where the next one starts. A deletion renumbers nothing that the
guide is about, since a kept block leads to kept blocks (`GuideIInv`). Of the finished function `RunIInv` says: the source's
position is the guide's at the instruction that runs, each value computed in the block so far is what the
source's expression is worth, and an alloca holds what the variable holds unless that is junk (`VarsAgree`:
`Resolved` gives each declaration an alloca of its own). TLC checked the guide on the runs' programs, with the guide as
additional variables, before it was proved. Undefined behaviour bounds the theorem, as it does the property: a
branch on an uninitialised variable ends the comparison.

**DriverProofs.** `Sound` is about a heap and the pointers into it from outside, which have places: the stack's, one for the
lookahead, one for `root`. It says that two pointers never meet, inside or outside, that what is pointed to is there and the other way
round, that every object has the parts of its kind (`Fitting`), and that parts are below what they are part of
(`Acyclic`). The last is why `freeNode` ends and reaches everything: by it, the recursion `Freed` has a
value (`FreedDef`), and an object that is left would have one above it that is left (`AllFreed`). Each create function takes
the pointers at some places as parts of a fresh object (`Wrapped`), so an action is a few such
moves, and names freed in between; there are 33 productions, but only a few kinds of action
(`EveryAct`). What an action finds at its places it knows from the stack: a complete item on top means that the symbols below are
those of its production (`WholeBack`), because each state follows from the one below it (`StackOK`), and values are
of the kinds of their symbols (`KindsOK`). That Bison has a state to go to after a reduction (`StateToGo`) comes from the
closure under left corners. `ParserIInv` is all of this. `DriverIInv` adds when the heap is empty: before the
parse and at the end. `StatusIInv` says, stage by stage, what `result` and `generated` are, what has been parsed, and where there is a module.

**Only model-checked.** `Terminates`, `Optimizes`: liveness is not provable with the tools used.

## Disagreements between code and documentation

`dead_loop` finds that the IR builder destroys a block that is still in use. After a
`return`, `genIRStmt` goes on in a new block (`src/src/ir_builder.cpp:242`) that nothing
branches to. If a `while` follows, its condition and its body are unreachable as well.
`rmUnreachableBB` deletes such blocks in layout order
(`src/src/ir_builder.cpp:352-358`), the condition before the body whose branch leads back to it:

    int func(int n) { return n; while (n > 1) n = n - 1; print(n); }

LLVM built with assertions aborts in `LLVMDeleteBasicBlock`; built without them it writes to
the freed block when it unlinks that branch. `src/README.md:26` lists `if`/`else`, `while` and `return`
without such a restriction. Removing all terminators of unreachable blocks first would do.

`two_conditions` finds that common subexpression elimination identifies an
instruction by opcode and operands (`src/src/optimizer.cpp:11-47`), without the
predicate of a comparison. Of `x == 2` and `x < 2` in one block, the second is
replaced by the first, and a branch on it goes the wrong way, whereas `src/README.md:13`
promises the elimination of *common* subexpressions. The compiler itself never gets there: `genIRStmt` puts
one comparison in a block and branches on it at once. `optimizer_runner`
(`src/tests/optimizer/runner.cpp`) reads any `.ll` file, which can contain two. In
`optimizer` the functions are those the IR builder can produce, and `SameEffects` holds.

## What is not modelled

- The lexer, but for the copy of a name that it hands over: which characters make which token is
  in Flex's tables, and there is no other state. `atoi` (`src/src/lexer.l:22`) is undefined for
  numbers that an `int` cannot hold; a constant is any word here.
- Which of shift and reduce Bison takes (precedence of `ELSE`, lookahead): `Parser` allows
  both where the grammar does. What is owned by whom must not depend on it.
- `calloc`, `strdup` or `new` that fail: the code does not check them.
- `printNode` and `printStmt`, which nothing calls, and the text of the assembly (directives,
  comments, label names), with errors in writing it, which nobody looks at.
- `LLVMDisposeBuilder`, `LLVMShutdown`, and what the module holds: `Driver` knows it as a whole.
- LLVM beyond the operations used: verification, printing and reading of modules.
- The tests (`src/tests/`, `src/scripts/`).

## Plan

Every stage has its model, and every safety property that a run checks is proved. `SameAsSource`, `SameEffects` and
`ImplementsIR` together follow a program down to the machine: the built function does what the program says, the optimized one what
the built one did, and the emitted code what the optimized one does. Their composition is an argument outside of
TLA+, since each stage has states of its own for the function it gets: `FitsOptimizer`, `FitsBackend` and `FitsCodegen` are what
one stage promises and the next assumes. Stating it as one theorem about one module that runs all stages is what could come next.
