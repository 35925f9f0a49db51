------------------------------- MODULE IRExec -------------------------------
(***************************************************************************)
(* What a function of the intermediate representation means: the LLVM      *)
(* instructions that ir_builder.cpp builds, the optimizer rewrites and the *)
(* backend translates.  LLVM is not part of the sources; only the meaning  *)
(* they rely on is stated.                                                 *)
(*                                                                         *)
(* Values are terms over the inputs, so that any two different values are  *)
(* told apart.  junk is what an uninitialised variable holds, and whatever *)
(* is computed from it.  A function is a sequence of instructions; block   *)
(* bb starts at its first instruction.                                     *)
(***************************************************************************)
EXTENDS Integers, Sequences

CONSTANT Allocas

VARIABLES
  fn,     \* the function
  ip,     \* the instruction to execute; 0 after a ret
  val,    \* val[i] is the value last computed by instruction i
  mem,    \* the variables
  out,    \* the calls of read and print so far
  facts,  \* the conditions branched on, with what was found
  ret     \* the value returned

irvars == <<fn, ip, val, mem, out, facts, ret>>

junk  == <<"junk", 0>>
param == <<"param", 0>>

\* An operand: an instruction, a constant (negative) or the parameter.
Operand(v) == IF v > 0 THEN val[v] ELSE IF v = 0 THEN param ELSE <<"const", v>>

Arg(i, k) == Operand(fn[i].args[k])

Apply(sym, a, b) == IF a = junk \/ b = junk THEN junk ELSE <<"arith", sym, a, b>>

Compare(sym, a, b) == IF a = junk \/ b = junk THEN junk ELSE <<"icmp", sym, a, b>>

\* The n-th call of read returns the n-th input.
Input(events) ==
  <<"in", Len(SelectSeq(events, LAMBDA e : e[1] = "read")) + 1>>

Result(i) ==
  CASE fn[i].op = "load"  -> mem[fn[i].sym]
    [] fn[i].op = "arith" -> Apply(fn[i].sym, Arg(i, 1), Arg(i, 2))
    [] fn[i].op = "icmp"  -> Compare(fn[i].sym, Arg(i, 1), Arg(i, 2))
    [] fn[i].op = "read"  -> Input(out)

StartOf(bb) == CHOOSE i \in DOMAIN fn : fn[i].bb = bb /\ \A j \in 1 .. i - 1 : fn[j].bb # bb

\* fn may be any function; no step changes it.
Init ==
  /\ ip = 1
  /\ val = [i \in DOMAIN fn |-> junk]
  /\ mem = [x \in Allocas |-> junk]
  /\ out = <<>>
  /\ facts = {}
  /\ ret = junk

At(op) == ip \in DOMAIN fn /\ fn[ip].op = op

Compute ==
  /\ At("load") \/ At("arith") \/ At("icmp")
  /\ val' = [val EXCEPT ![ip] = Result(ip)]
  /\ ip' = ip + 1
  /\ UNCHANGED <<fn, mem, out, facts, ret>>

Read ==
  /\ At("read")
  /\ val' = [val EXCEPT ![ip] = Result(ip)]
  /\ out' = Append(out, <<"read", junk>>)
  /\ ip' = ip + 1
  /\ UNCHANGED <<fn, mem, facts, ret>>

PrintArg ==
  /\ At("print")
  /\ out' = Append(out, <<"print", Arg(ip, 1)>>)
  /\ ip' = ip + 1
  /\ UNCHANGED <<fn, val, mem, facts, ret>>

Store ==
  /\ At("store")
  /\ mem' = [mem EXCEPT ![fn[ip].sym] = Arg(ip, 1)]
  /\ ip' = ip + 1
  /\ UNCHANGED <<fn, val, out, facts, ret>>

Br ==
  /\ At("br")
  /\ ip' = StartOf(fn[ip].succ[1])
  /\ UNCHANGED <<fn, val, mem, out, facts, ret>>

\* What a branch finds out: nothing when the condition is junk.
Found(condition, b) == IF condition = junk THEN {} ELSE {<<condition, b>>}

\* A condition on inputs may be found true or false, but always the same.
CondBr ==
  /\ At("condbr")
  /\ \E b \in BOOLEAN :
       /\ facts' = facts \cup Found(Arg(ip, 1), b)
       /\ <<Arg(ip, 1), ~b>> \notin facts
       /\ ip' = StartOf(fn[ip].succ[IF b THEN 1 ELSE 2])
  /\ UNCHANGED <<fn, val, mem, out, ret>>

\* A constant condition: sym says which.
ConstBr ==
  /\ At("constbr")
  /\ ip' = StartOf(fn[ip].succ[IF fn[ip].sym = "true" THEN 1 ELSE 2])
  /\ UNCHANGED <<fn, val, mem, out, facts, ret>>

\* A ret without an operand returns anything.
Ret ==
  /\ At("ret")
  /\ fn[ip].args # <<>> => ret' = Arg(ip, 1)
  /\ ip' = 0
  /\ UNCHANGED <<fn, val, mem, out, facts>>

Next == Compute \/ Read \/ PrintArg \/ Store \/ Br \/ CondBr \/ ConstBr \/ Ret

Spec == Init /\ [][Next]_irvars
=============================================================================
