------------------------------ MODULE IRBuilder ------------------------------
(***************************************************************************)
(* build_ir (src/src/ir_builder.cpp:161-419) after the renaming: the tree  *)
(* is lowered to instructions in blocks, then blocks that the entry does   *)
(* not reach are deleted.                                                  *)
(*                                                                         *)
(* work is the recursion of genIRStmt: statements to lower, and what is    *)
(* left of a while or an if when its body has been lowered.  Instructions  *)
(* are written as in IRProgram, in the order they are created; blocks are  *)
(* numbered in the order they are appended.  Allocas stand for themselves. *)
(***************************************************************************)
EXTENDS Scopes, Words, FiniteSets

VARIABLES
  instrs,
  nblocks,
  cur,      \* what genIRStmt returned: where the next statement goes
  work,
  visited,  \* visitedBB
  kept,     \* the blocks not deleted
  at        \* the block that rmUnreachableBB is at

irvars == <<instrs, nblocks, cur, work, visited, kept, at>>
buildvars == <<scopevars, irvars>>

entryBB == 1
retBB == 2
ret_ref == <<"ret">>

Instr(op, args, sym, succ) == [op |-> op, args |-> args, sym |-> sym, succ |-> succ, bb |-> 0]

Store(v, x) == Instr("store", <<v>>, x, <<>>)
Br(b) == Instr("br", <<>>, <<"">>, <<b>>)
CondBr(v, t, f) == Instr("condbr", <<v>>, <<"">>, <<t, f>>)

\* LLVMPositionBuilderAtEnd(builder, b), and the code built there.
In(b, code) == [k \in DOMAIN code |-> [code[k] EXCEPT !.bb = b]]

(***************************************************************************)
(* The builder of LLVM computes what has only constant operands itself;    *)
(* anything else becomes an instruction, the one after the k + Len(code)   *)
(* that are there.                                                         *)
(***************************************************************************)
Build(op, sym, a, b, code, k) ==
  IF a < 0 /\ b < 0
    THEN [code |-> code,
          val |-> Constant(IF op = "arith" THEN Arith(sym, WordOf(a), WordOf(b))
                           ELSE IF Holds(sym, WordOf(a), WordOf(b)) THEN 1 ELSE 0)]
    ELSE [code |-> Append(code, Instr(op, <<a, b>>, <<sym>>, <<>>)), val |-> k + Len(code) + 1]

\* atoi has read them into an int.
ASSUME ValuesAssumption == Values \subseteq Word

Exprs == {n \in DOMAIN tree : tree[n].kind \in Expressions}

\* The code of the expression at node n after k instructions, and its value.
genIRExpr[n \in Exprs] == [k \in Nat |->
  LET Kind(kind) == tree[n].kind = kind
      Part(i, m) == genIRExpr[Kids(n)[i]][m]
  IN  CASE Kind("cnst") -> [code |-> <<>>, val |-> Constant(tree[n].value)]
        [] Kind("var") -> [code |-> <<Instr("load", <<>>, name[n], <<>>)>>, val |-> k + 1]
        [] Kind("read") -> [code |-> <<Instr("read", <<>>, <<"">>, <<>>)>>, val |-> k + 1]
        [] Kind("uexpr") -> LET e == Part(1, k)
                           IN  Build("arith", "sub", Constant(0), e.val, e.code, k)
        [] OTHER -> LET a == Part(1, k)
                        b == Part(2, k + Len(a.code))
                    IN  Build(IF Kind("bexpr") THEN "arith" ELSE "icmp", tree[n].op,
                              a.val, b.val, a.code \o b.code, k)]

-----------------------------------------------------------------------------
(***************************************************************************)
(* genIRStmt                                                               *)
(***************************************************************************)

Stmt(n) == <<"stmt", n, 0>>

Task == Head(work)

Lowering(kind) ==
  phase = "lower" /\ work # <<>> /\ Task[1] = "stmt" /\ tree[Task[2]].kind = kind

Closing(task) == phase = "lower" /\ work # <<>> /\ Task[1] = task

unchangedByLowering == <<scopevars, visited, kept, at>>

\* code is built, blocks are appended, and next is the block to go on with.
Lower(code, blocks, next, tasks) ==
  /\ instrs' = instrs \o code
  /\ nblocks' = nblocks + blocks
  /\ cur' = next
  /\ work' = tasks \o Tail(work)
  /\ UNCHANGED unchangedByLowering

Part(i) == Kids(Task[2])[i]

\* The value of part i, computed in block b after m more instructions.
Value(i, m) == genIRExpr[Part(i)][Len(instrs) + m]

LowerAsgn ==
  /\ Lowering("asgn")
  /\ LET e == Value(2, 0)
     IN  Lower(In(cur, Append(e.code, Store(e.val, name[Part(1)]))), 0, cur, <<>>)

LowerPrint ==
  /\ Lowering("print")
  /\ LET e == Value(1, 0)
     IN  Lower(In(cur, Append(e.code, Instr("print", <<e.val>>, <<"">>, <<>>))), 0, cur, <<>>)

LowerWhile ==
  /\ Lowering("while")
  /\ LET condBB == nblocks + 1
         trueBB == nblocks + 2
         falseBB == nblocks + 3
         c == Value(1, 1)
     IN  Lower(In(cur, <<Br(condBB)>>)
                 \o In(condBB, Append(c.code, CondBr(c.val, trueBB, falseBB))),
               3, trueBB, <<Stmt(Part(2)), <<"loop", condBB, falseBB>> >>)

EndWhile ==
  /\ Closing("loop")
  /\ Lower(In(cur, <<Br(Task[2])>>), 0, Task[3], <<>>)

LowerIf ==
  /\ Lowering("if")
  /\ LET trueBB == nblocks + 1
         falseBB == nblocks + 2
         c == Value(1, 0)
     IN  Lower(In(cur, Append(c.code, CondBr(c.val, trueBB, falseBB))), 2, trueBB,
               IF Len(Kids(Task[2])) = 2
                 THEN <<Stmt(Part(2)), <<"endif", falseBB, 0>> >>
                 ELSE <<Stmt(Part(2)), <<"else", falseBB, Part(3)>> >>)

EndIf ==
  /\ Closing("endif")
  /\ Lower(In(cur, <<Br(Task[2])>>), 0, Task[2], <<>>)

Else ==
  /\ Closing("else")
  /\ Lower(<<>>, 0, Task[2], <<Stmt(Task[3]), <<"join", cur, 0>> >>)

EndElse ==
  /\ Closing("join")
  /\ LET endBB == nblocks + 1
     IN  Lower(In(Task[2], <<Br(endBB)>>) \o In(cur, <<Br(endBB)>>), 1, endBB, <<>>)

\* Faulty variant: what follows a return is put into the same block.
LowerRetHere ==
  /\ Lowering("ret")
  /\ LET e == Value(1, 0)
     IN  Lower(In(cur, e.code \o <<Store(e.val, ret_ref), Br(retBB)>>), 0, cur, <<>>)

LowerRet ==
  /\ Lowering("ret")
  /\ LET e == Value(1, 0)
     IN  Lower(In(cur, e.code \o <<Store(e.val, ret_ref), Br(retBB)>>), 1, nblocks + 1, <<>>)

LowerBlock ==
  /\ Lowering("block")
  /\ Lower(<<>>, 0, cur, [i \in DOMAIN Kids(Task[2]) |-> Stmt(Part(i))])

LowerDecl == Lowering("decl") /\ Lower(<<>>, 0, cur, <<>>)

LowerStmt == LowerAsgn \/ LowerPrint \/ LowerWhile \/ EndWhile \/ LowerIf \/ EndIf \/ Else
               \/ EndElse \/ LowerRet \/ LowerBlock \/ LowerDecl

-----------------------------------------------------------------------------
(***************************************************************************)
(* build_ir and rmUnreachableBB                                            *)
(***************************************************************************)

Terminators == {"br", "condbr", "ret"}

Ends(b) == {i \in DOMAIN instrs : instrs[i].bb = b /\ instrs[i].op \in Terminators}

Succs(b) == UNION {{instrs[i].succ[k] : k \in DOMAIN instrs[i].succ} : i \in Ends(b)}

\* The parameter is operand 0.
BeginIR ==
  /\ phase = "renamed"
  /\ phase' = "lower"
  /\ LET stores == IF Params = {} THEN <<>>
                   ELSE In(entryBB, <<Store(0, name[CHOOSE p \in Params : TRUE])>>)
     IN  instrs' = stores \o In(retBB, <<Instr("load", <<>>, ret_ref, <<>>),
                                         Instr("ret", <<Len(stores) + 1>>, <<"">>, <<>>)>>)
  /\ nblocks' = 2
  /\ cur' = entryBB
  /\ work' = <<Stmt(Body)>>
  /\ UNCHANGED <<tree, todo, symbol_tables, error_code, renamings, var_counter, name, visited,
                 kept, at>>

unchangedByDeleting == <<tree, todo, symbol_tables, error_code, renamings, var_counter, name,
                         nblocks, cur, work>>

\* Faulty variant: the last successor of a terminator is passed over.
ReachableButLast ==
  LET Within[k \in 0 .. nblocks] ==
        IF k = 0 THEN {entryBB}
        ELSE LET near == Within[k - 1]
             IN  near \cup {instrs[i].succ[1] :
                              i \in {j \in UNION {Ends(b) : b \in near} : instrs[j].succ # <<>>}}
  IN  Within[nblocks]

\* markReachableBB(entryBB)
Reachable ==
  LET Within[k \in 0 .. nblocks] ==
        IF k = 0 THEN {entryBB}
        ELSE LET near == Within[k - 1] IN near \cup UNION {Succs(b) : b \in near}
  IN  Within[nblocks]

Finish ==
  /\ phase = "lower" /\ work = <<>>
  /\ instrs' = IF Ends(cur) # {} THEN instrs
               ELSE instrs \o In(cur, <<Store(Constant(0), ret_ref), Br(retBB)>>)
  /\ phase' = "mark"
  /\ UNCHANGED <<unchangedByDeleting, visited, kept, at>>

MarkReachable ==
  /\ phase = "mark"
  /\ visited' = Reachable
  /\ kept' = 1 .. nblocks
  /\ at' = entryBB
  /\ phase' = "delete"
  /\ UNCHANGED <<unchangedByDeleting, instrs>>

Onward ==
  /\ at' = at + 1
  /\ phase' = IF at = nblocks THEN "built" ELSE "delete"

KeepBlock ==
  /\ phase = "delete" /\ at \in visited
  /\ Onward
  /\ UNCHANGED <<unchangedByDeleting, instrs, visited, kept>>

\* Instructions of other blocks that branch to b, their own block still there.
StillBranchesTo(b) == \E c \in kept \ {b} : b \in Succs(c)

DeleteBlock ==
  /\ phase = "delete" /\ at \notin visited
  /\ kept' = kept \ {at}
  /\ Onward
  /\ UNCHANGED <<unchangedByDeleting, instrs, visited>>

(***************************************************************************)
(* A block must not be deleted while a branch to it is left: LLVM built    *)
(* with assertions aborts, LLVM built without them goes on (DeleteBlock),  *)
(* and unlinks the branch from the freed block when that is deleted too.   *)
(***************************************************************************)
AbortDelete ==
  /\ phase = "delete" /\ at \notin visited /\ StillBranchesTo(at)
  /\ phase' = "aborted"
  /\ UNCHANGED <<unchangedByDeleting, instrs, visited, kept, at>>

Remove == KeepBlock \/ DeleteBlock \/ AbortDelete

-----------------------------------------------------------------------------

IRInit ==
  /\ ScopesInit
  /\ instrs = <<>> /\ nblocks = 0 /\ cur = 0 /\ work = <<>>
  /\ visited = {} /\ kept = {} /\ at = 0

Walk == (Analyze \/ Rename) /\ UNCHANGED irvars

BuildStep == Walk \/ BeginIR \/ LowerStmt \/ Finish \/ MarkReachable \/ Remove

-----------------------------------------------------------------------------

\* Blocks that genIRStmt has yet to end: the current one and those it returns to.
Open ==
  IF phase # "lower" THEN {}
  ELSE {cur} \cup {work[i][2] : i \in {j \in DOMAIN work : work[j][1] \in {"endif", "else", "join"}}}
             \cup {work[i][3] : i \in {j \in DOMAIN work : work[j][1] = "loop"}}

Building == phase \in {"lower", "mark", "delete", "built", "aborted"}

\* Faulty variant: the parameter has not been put into var_set.
AllocasOfDecls == {name[d] : d \in Decls \ Params} \cup {ret_ref}

\* What var_set has collected, and the alloca for the result.
Allocas == {name[d] : d \in Decls} \cup {ret_ref}

(***************************************************************************)
(* Types.  Every load and store is of an alloca: var_map is never asked    *)
(* for a name it does not have, for which it would make up a null value.   *)
(***************************************************************************)
IRTypeOK ==
  Building =>
    /\ \A i \in DOMAIN instrs :
         /\ instrs[i].bb \in 1 .. nblocks
         /\ \A k \in DOMAIN instrs[i].succ : instrs[i].succ[k] \in 1 .. nblocks
         /\ instrs[i].op \in {"load", "store"} => instrs[i].sym \in Allocas
         /\ \A k \in DOMAIN instrs[i].args : instrs[i].args[k] \in Int
    /\ cur \in 1 .. nblocks
    /\ kept \subseteq 1 .. nblocks /\ at \in 0 .. nblocks + 1

(***************************************************************************)
(* A block ends in its only terminator, unless it is one of those that     *)
(* are still open; those have none.  What follows a return, and the ends   *)
(* of branches that return, are the cases where a block could get a second *)
(* terminator, or none.                                                    *)
(***************************************************************************)
WellEnded ==
  Building => \A b \in 1 .. nblocks :
    IF b \in Open THEN Ends(b) = {}
    ELSE \E i \in Ends(b) : \A j \in DOMAIN instrs :
           instrs[j].bb = b => j <= i /\ (j \in Ends(b) => j = i)

-----------------------------------------------------------------------------
(***************************************************************************)
(* The function that optimize_ir is given.                                 *)
(***************************************************************************)

\* The instructions of block b, in the order they were built.
InstrsIn(b) ==
  LET UpTo[i \in 0 .. Len(instrs)] ==
        IF i = 0 THEN <<>>
        ELSE UpTo[i - 1] \o (IF instrs[i].bb = b THEN <<i>> ELSE <<>>)
  IN  UpTo[Len(instrs)]

\* The instructions of the blocks kept, in layout order.
Layout ==
  LET UpTo[b \in 0 .. nblocks] ==
        IF b = 0 THEN <<>>
        ELSE UpTo[b - 1] \o (IF b \in kept THEN InstrsIn(b) ELSE <<>>)
  IN  UpTo[nblocks]

Renumbered(b) == Cardinality({c \in kept : c <= b})

\* The function with its instructions and blocks numbered in layout order.
Module ==
  LET order == Layout
      Place(v) == IF v <= 0 THEN v ELSE CHOOSE p \in DOMAIN order : order[p] = v
  IN  [p \in DOMAIN order |->
         LET i == instrs[order[p]]
         IN  [i EXCEPT !.bb = Renumbered(@),
                       !.succ = [k \in DOMAIN @ |-> Renumbered(@[k])],
                       !.args = [k \in DOMAIN @ |-> Place(@[k])]]]

AllSyms == (Idents \X Nat) \cup {ret_ref} \cup {<<op>> : op \in Operators}

Optimizer == INSTANCE IRProgram
  WITH Programs <- {}, Syms <- AllSyms,
       prog <- instrs, args <- [i \in DOMAIN instrs |-> instrs[i].args], present <- DOMAIN instrs

(***************************************************************************)
(* What the optimizer assumes of its input: instructions in blocks,        *)
(* branches to blocks that are there, and values that are used after they  *)
(* are computed and in the same block only (src/src/optimizer.cpp keeps    *)
(* nothing about values from block to block), what is read in a variable,  *)
(* comparisons of a block that agree and are for its branch alone, and     *)
(* three operations and six predicates on words.                           *)
(***************************************************************************)
FitsOptimizer ==
  phase = "built" =>
    /\ \A b \in kept : Succs(b) \subseteq kept
    /\ Optimizer!WellFormed(Module)
    /\ Optimizer!ValuesStay(Module)
    /\ Optimizer!ReadsAreStored(Module)
    /\ Optimizer!ComparisonsAgree(Module)
    /\ Optimizer!Lowered(Module)
    /\ \A i \in DOMAIN instrs :
         /\ AreWords(instrs[i].args)
         /\ instrs[i].op = "arith" => instrs[i].sym \in {<<op>> : op \in Operations}
         /\ instrs[i].op = "icmp" => instrs[i].sym \in {<<op>> : op \in Predicates}

(***************************************************************************)
(* Every program with the statements of the language is translated:        *)
(* "`if`/`else`, `while`, and `return`" (src/README.md:26).                *)
(***************************************************************************)
TranslatesAll == phase # "aborted"
=============================================================================
