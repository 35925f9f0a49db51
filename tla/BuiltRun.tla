------------------------------ MODULE BuiltRun ------------------------------
(***************************************************************************)
(* What the function built by build_ir does.  The source program and the   *)
(* built function run side by side on the same inputs; a statement of the  *)
(* source is executed when the function is at the instruction that has its *)
(* effect: a store, a print, a conditional branch.                         *)
(*                                                                         *)
(* The source side follows the text and the scoping of the language        *)
(* (Binds), not the renaming: its variables are declarations, and a        *)
(* variable is junk again whenever its declaration is reached.             *)
(***************************************************************************)
EXTENDS IRBuilder

CONSTANT junk   \* what an uninitialised variable holds, and what is computed from it

\* The source cannot name it: it is none of the words.
ASSUME JunkAssumption == junk \notin Word

VARIABLES
  ip,      \* the instruction the built function is at
  param,   \* the argument of the call
  val,     \* what the instructions of the block have computed
  mem,     \* the allocas
  input,   \* what the last read() returned
  stmts,   \* the statements of the source that are left
  vars     \* the variables of the source: a value for each declaration

runvars == <<ip, param, val, mem, input, stmts, vars>>
allvars == <<buildvars, runvars>>

-----------------------------------------------------------------------------
(***************************************************************************)
(* The source                                                              *)
(***************************************************************************)

DeclOf(n) == CHOOSE d \in Visible(n) : Binds(d, n)

\* The value of the expression at node n.
Eval[n \in Exprs] ==
  LET node == tree[n]
      a == Eval[Kids(n)[1]]
      b == Eval[Kids(n)[2]]
  IN  CASE node.kind = "cnst" -> node.value
        [] node.kind = "var" -> vars[DeclOf(n)]
        [] node.kind = "read" -> input
        [] node.kind = "uexpr" -> IF a = junk THEN junk ELSE Arith("sub", 0, a)
        [] OTHER -> IF a = junk \/ b = junk THEN junk
                    ELSE IF node.kind = "bexpr" THEN Arith(node.op, a, b)
                    ELSE IF Holds(node.op, a, b) THEN 1 ELSE 0

Now == Head(stmts)

IsNow(kinds) == stmts # <<>> /\ tree[Now].kind \in kinds

Of(i) == Kids(Now)[i]

\* The program returns the value of the return it is at, or 0 at its end.
Result == IF stmts = <<>> THEN 0 ELSE Eval[Of(1)]

\* Blocks and declarations have no code of their own.
RunSilent ==
  /\ phase = "run" /\ IsNow({"block", "decl"})
  /\ stmts' = (IF IsNow({"block"}) THEN Kids(Now) ELSE <<>>) \o Tail(stmts)
  /\ vars' = IF IsNow({"decl"}) THEN [vars EXCEPT ![Now] = junk] ELSE vars
  /\ UNCHANGED <<buildvars, ip, param, val, mem, input>>

-----------------------------------------------------------------------------
(***************************************************************************)
(* The built function                                                      *)
(***************************************************************************)

At(op) == phase = "run" /\ ~IsNow({"block", "decl"}) /\ instrs[ip].op = op

Operand(k) ==
  LET v == instrs[ip].args[k]
  IN  IF v < 0 THEN WordOf(v) ELSE IF v = 0 THEN param ELSE val[v]

NoValues == [i \in DOMAIN instrs |-> junk]

NextAfter(i, b) ==
  CHOOSE j \in DOMAIN instrs :
    /\ instrs[j].bb = b /\ j > i
    /\ \A k \in i + 1 .. j - 1 : instrs[k].bb # b

\* On with the block, or to another one, where no value is used any more.
Continue == ip' = NextAfter(ip, instrs[ip].bb)
Jump(b) == ip' = NextAfter(0, b) /\ val' = NoValues

StartRun ==
  /\ phase = "built"
  /\ phase' = "run"
  /\ ip' = NextAfter(0, entryBB)
  /\ param' \in Word
  /\ val' = NoValues
  /\ mem' = [x \in Allocas |-> junk]
  /\ input' = junk
  /\ stmts' = <<Body>>
  /\ vars' = [d \in Decls |-> IF d \in Params THEN param' ELSE junk]
  /\ UNCHANGED <<tree, todo, symbol_tables, error_code, renamings, var_counter, name, irvars>>

Computed ==
  LET sym == instrs[ip].sym
  IN  IF At("load") THEN mem[sym]
      ELSE IF Operand(1) = junk \/ Operand(2) = junk THEN junk
      ELSE IF At("arith") THEN Arith(sym[1], Operand(1), Operand(2))
      ELSE IF Holds(sym[1], Operand(1), Operand(2)) THEN 1 ELSE 0

RunPure ==
  /\ At("load") \/ At("arith") \/ At("icmp")
  /\ val' = [val EXCEPT ![ip] = Computed]
  /\ Continue
  /\ UNCHANGED <<buildvars, param, mem, input, stmts, vars>>

RunRead ==
  /\ At("read") /\ IsNow({"asgn"})
  /\ input' \in Word
  /\ val' = [val EXCEPT ![ip] = input']
  /\ Continue
  /\ UNCHANGED <<buildvars, param, mem, stmts, vars>>

Stored == mem' = [mem EXCEPT ![instrs[ip].sym] = Operand(1)]

\* The parameter, which the caller sets, and the result, which it gets.
RunCallStore ==
  /\ At("store") /\ (instrs[ip].args[1] = 0 \/ instrs[ip].sym = ret_ref)
  /\ Stored
  /\ Continue
  /\ UNCHANGED <<buildvars, param, val, input, stmts, vars>>

RunStore ==
  /\ At("store") /\ instrs[ip].args[1] # 0 /\ instrs[ip].sym # ret_ref /\ IsNow({"asgn"})
  /\ Stored
  /\ vars' = [vars EXCEPT ![DeclOf(Of(1))] = Eval[Of(2)]]
  /\ stmts' = Tail(stmts)
  /\ Continue
  /\ UNCHANGED <<buildvars, param, val, input>>

RunPrint ==
  /\ At("print") /\ IsNow({"print"})
  /\ stmts' = Tail(stmts)
  /\ Continue
  /\ UNCHANGED <<buildvars, param, val, mem, input, vars>>

RunBr ==
  /\ At("br")
  /\ Jump(instrs[ip].succ[1])
  /\ UNCHANGED <<buildvars, param, mem, input, stmts, vars>>

\* What a while or an if executes if its condition is c.
Chosen(c) ==
  IF IsNow({"while"}) THEN (IF c # 0 THEN <<Of(2), Now>> ELSE <<>>)
  ELSE IF c # 0 THEN <<Of(2)>>
  ELSE IF Len(Kids(Now)) = 3 THEN <<Of(3)>> ELSE <<>>

\* A branch on junk is undefined behaviour: the comparison ends there.
RunCondBr ==
  /\ At("condbr") /\ IsNow({"while", "if"}) /\ Eval[Of(1)] # junk /\ Operand(1) # junk
  /\ Jump(instrs[ip].succ[IF Operand(1) = 0 THEN 2 ELSE 1])
  /\ stmts' = Chosen(Eval[Of(1)]) \o Tail(stmts)
  /\ UNCHANGED <<buildvars, param, mem, input, vars>>

Stopped ==
  /\ At("ret") \/ (At("condbr") /\ (Operand(1) = junk \/ Eval[Of(1)] = junk))
  /\ UNCHANGED allvars

Run == StartRun \/ RunSilent \/ RunPure \/ RunRead \/ RunCallStore \/ RunStore \/ RunPrint
         \/ RunBr \/ RunCondBr \/ Stopped

-----------------------------------------------------------------------------

BRInit ==
  /\ IRInit
  /\ ip = 0 /\ param = 0 /\ val = <<>> /\ mem = <<>> /\ input = junk /\ stmts = <<>> /\ vars = <<>>

NotBuilt == phase \in {"rejected", "aborted"} /\ UNCHANGED allvars

BRNext == (BuildStep /\ UNCHANGED runvars) \/ NotBuilt \/ Run

BRSpec == BRInit /\ [][BRNext]_allvars

-----------------------------------------------------------------------------

Does(kinds, i) == IsNow(kinds) /\ Eval[Of(i)] \in {junk, Operand(1)}

(***************************************************************************)
(* The built function does what the program says: it is at a store, print, *)
(* read or branch exactly when the program is at an assignment, print,     *)
(* read() or condition, the values are the same (unless the program's is   *)
(* junk), and it returns what the program returns, on every input.         *)
(***************************************************************************)
SameAsSource ==
  /\ At("store") /\ instrs[ip].sym # ret_ref /\ instrs[ip].args[1] # 0 => Does({"asgn"}, 2)
  /\ At("read") => IsNow({"asgn"}) /\ tree[Of(2)].kind = "read"
  /\ At("print") => Does({"print"}, 1)
  /\ At("condbr") => Does({"while", "if"}, 1)
  /\ At("ret") => /\ stmts = <<>> \/ IsNow({"ret"})
                  /\ Result \in {junk, Operand(1)}
=============================================================================
