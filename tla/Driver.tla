-------------------------------- MODULE Driver --------------------------------
(***************************************************************************)
(* main (src/src/compiler.cpp): the stages in order, and whatever happens  *)
(* in one of them, the release of what the ones before it hold.            *)
(***************************************************************************)
EXTENDS Parser

VARIABLES
  stage,      \* where main is; "exit" when it has returned, "aborted" when LLVM has stopped it
  result,
  held,       \* the input and output files, the buffers of the scanner, the module
  generated   \* the assembly has been written

mainvars == <<stage, result, held, generated>>
drivervars == <<parservars, mainvars>>

GoTo(next) == stage' = next

\* argc >= 2, which is decided where it is first looked at: the input is a file.
OpenInput ==
  /\ stage = "open"
  /\ GoTo("parse")
  /\ held' \in {{}, {"input"}}
  /\ UNCHANGED <<parservars, result, generated>>

NoInput ==
  /\ stage = "open"
  /\ GoTo("exit")
  /\ result' = 1
  /\ UNCHANGED <<parservars, held, generated>>

RunParser ==
  /\ stage = "parse"
  /\ Parse
  /\ held' = held \cup {"scanner"}
  /\ UNCHANGED <<stage, result, generated>>

\* yyparse returns 1 after a syntax error, 2 when its stack cannot grow.
ParseResult ==
  /\ stage = "parse" /\ ~Parsing
  /\ IF parsed = "accepted" THEN result' = result ELSE result' \in {1, 2}
  /\ GoTo(IF parsed = "accepted" THEN "analyze" ELSE "release")
  /\ UNCHANGED <<parservars, held, generated>>

\* semantic_analysis (module Scopes), if there is a tree.
AnalyzeTree ==
  /\ stage = "analyze"
  /\ result' \in IF root = 0 THEN {1} ELSE {0, 1, 2}
  /\ GoTo(IF result' = 0 THEN "compile" ELSE "release")
  /\ UNCHANGED <<parservars, held, generated>>

\* build_ir and optimize_ir (modules IRBuilder, Optimizer).
CompileTree ==
  /\ stage = "compile"
  /\ held' = held \cup {"module"}
  /\ GoTo("output")
  /\ UNCHANGED <<parservars, result, generated>>

\* Faulty variant: without break, the stages after this one go on without a module.
NoModuleReported ==
  /\ stage = "compile"
  /\ result' = 1
  /\ GoTo("output")
  /\ UNCHANGED <<parservars, held, generated>>

\* build_ir has left module as it was. It never does; main makes sure.
NoModule ==
  /\ stage = "compile"
  /\ result' = 1
  /\ GoTo("release")
  /\ UNCHANGED <<parservars, held, generated>>

\* LLVM stops the process while a block that is in use is deleted (run dead_loop).
Abort ==
  /\ stage = "compile"
  /\ GoTo("aborted")
  /\ UNCHANGED <<parservars, result, held, generated>>

\* argc >= 3: the output is a file too; otherwise it is the standard output.
OpenOutput ==
  /\ stage = "output"
  /\ held' \in {held} \cup {held \cup {"output"} : file \in held \cap {"input"}}
  /\ GoTo("generate")
  /\ UNCHANGED <<parservars, result, generated>>

\* Faulty variant: result stays what semantic_analysis has returned.
NoOutputReported ==
  /\ stage = "output" /\ "input" \in held
  /\ GoTo("release")
  /\ UNCHANGED <<parservars, held, result, generated>>

NoOutput ==
  /\ stage = "output" /\ "input" \in held
  /\ result' = 1
  /\ GoTo("release")
  /\ UNCHANGED <<parservars, held, generated>>

\* generate_code (modules RegAlloc, Codegen).
Generate ==
  /\ stage = "generate"
  /\ generated' = TRUE
  /\ GoTo("release")
  /\ UNCHANGED <<parservars, result, held>>

\* Faulty variant: the tree is released only when there was no error.
ReleaseAccepted ==
  /\ stage = "release"
  /\ heap' = IF result = 0 THEN Without(FreedWith({root})) ELSE heap
  /\ root' = 0
  /\ held' = {}
  /\ GoTo("exit")
  /\ UNCHANGED <<stack, lookahead, parsed, result, generated>>

Release ==
  /\ stage = "release"
  /\ heap' = IF root # 0 THEN Without(FreedWith({root})) ELSE heap
  /\ root' = 0
  /\ held' = held \ {"scanner", "module", "output", "input"}
  /\ GoTo("exit")
  /\ UNCHANGED <<stack, lookahead, parsed, result, generated>>

Exited == stage \in {"exit", "aborted"} /\ UNCHANGED drivervars

-----------------------------------------------------------------------------

DriverInit ==
  /\ ParserInit
  /\ stage = "open"
  /\ result = 0
  /\ held = {}
  /\ generated = FALSE

Compile == OpenInput \/ NoInput \/ RunParser \/ ParseResult \/ AnalyzeTree \/ CompileTree
             \/ NoModule \/ Abort \/ OpenOutput \/ NoOutput \/ Generate \/ Release

DriverNext == Compile \/ Exited

DriverSpec == DriverInit /\ [][DriverNext]_drivervars

-----------------------------------------------------------------------------

Stages == {"open", "parse", "analyze", "compile", "output", "generate", "release", "exit",
           "aborted"}

\* The code generator has a module to read, and nothing has failed before it.
DriverTypeOK ==
  /\ ParserTypeOK
  /\ stage \in Stages
  /\ stage \in {"output", "generate"} => "module" \in held /\ result = 0
  /\ result \in 0 .. 2 /\ generated \in BOOLEAN
  /\ held \subseteq {"input", "output", "scanner", "module"}

(***************************************************************************)
(* When main returns, on whichever path, nothing it has opened or          *)
(* allocated is left: tree, module, files, the buffers of the scanner.     *)
(***************************************************************************)
ReleasedAtExit == stage = "exit" => held = {} /\ DOMAIN heap = {}

(***************************************************************************)
(* The exit status, result # 0, is 0 exactly if the assembly has been      *)
(* generated, and the output file is opened, which empties it, only for a  *)
(* program that has been accepted and compiled.                            *)
(***************************************************************************)
StatusTells ==
  /\ stage = "exit" => (result = 0 <=> generated)
  /\ generated \/ "output" \in held => parsed = "accepted" /\ result = 0
=============================================================================
