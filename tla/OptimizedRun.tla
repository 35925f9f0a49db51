---------------------------- MODULE OptimizedRun ----------------------------
(***************************************************************************)
(* What the optimized function does.  After optimize_ir the function as    *)
(* built and the function as optimized run side by side on the same        *)
(* inputs.  The optimizer only replaces operands and erases instructions,  *)
(* so both follow one instruction pointer, and the optimized run passes    *)
(* over what has been erased.  Values do not cross blocks                  *)
(* (ValuesStayInBlocks), so a branch forgets them.                         *)
(***************************************************************************)
EXTENDS Optimizer

CONSTANT junk   \* what an uninitialised variable holds, and what is computed from it

VARIABLES
  ip,        \* the instruction both runs are at
  param,     \* the argument of the call
  built,     \* the run of the function as built: val and mem
  optimized  \* the run of the function as optimized

runvars == <<ip, param, built, optimized>>
allvars == <<optvars, runvars>>

NoValues == [i \in DOMAIN prog |-> junk]

NewRun == [val |-> NoValues, mem |-> [x \in Syms |-> junk]]

Operand(run, v) ==
  IF IsConstant(v) THEN WordOf(v) ELSE IF v = 0 THEN param ELSE run.val[v]

Compute(run, i, operands) ==
  LET a == Operand(run, operands[1])
      b == Operand(run, operands[2])
  IN  IF Is(i, "load") THEN run.mem[prog[i].sym]
      ELSE IF a = junk \/ b = junk THEN junk
      ELSE IF Is(i, "arith") THEN Arith(prog[i].sym, a, b)
      ELSE IF Holds(prog[i].sym, a, b) THEN 1 ELSE 0

Built(k) == Operand(built, prog[ip].args[k])
Now(k) == Operand(optimized, args[ip][k])

-----------------------------------------------------------------------------

At(op) == phase = "run" /\ Is(ip, op)

StartRun ==
  /\ phase = "optimized"
  /\ phase' = "run"
  /\ ip' = 1
  /\ param' \in Word
  /\ built' = NewRun
  /\ optimized' = NewRun
  /\ UNCHANGED <<irvars, dataflow, changed, sweep, bb, localvars>>

RunPure ==
  /\ At("load") \/ At("arith") \/ At("icmp")
  /\ built' = [built EXCEPT !.val[ip] = Compute(built, ip, prog[ip].args)]
  /\ optimized' =
       IF ip \in present
         THEN [optimized EXCEPT !.val[ip] = Compute(optimized, ip, args[ip])]
         ELSE optimized
  /\ ip' = ip + 1
  /\ UNCHANGED <<optvars, param>>

RunRead ==
  /\ At("read")
  /\ \E input \in Word :
       /\ built' = [built EXCEPT !.val[ip] = input]
       /\ optimized' = [optimized EXCEPT !.val[ip] = input]
  /\ ip' = ip + 1
  /\ UNCHANGED <<optvars, param>>

RunStore ==
  /\ At("store")
  /\ built' = [built EXCEPT !.mem[prog[ip].sym] = Built(1)]
  /\ optimized' = [optimized EXCEPT !.mem[prog[ip].sym] = Now(1)]
  /\ ip' = ip + 1
  /\ UNCHANGED <<optvars, param>>

RunPrint ==
  /\ At("print")
  /\ ip' = ip + 1
  /\ UNCHANGED <<optvars, param, built, optimized>>

RunBr ==
  /\ At("br")
  /\ ip' = FirstOf(prog[ip].succ[1])
  /\ built' = [built EXCEPT !.val = NoValues]
  /\ optimized' = [optimized EXCEPT !.val = NoValues]
  /\ UNCHANGED <<optvars, param>>

\* A branch on junk is undefined behaviour: the comparison ends there.
RunCondBr ==
  /\ At("condbr")
  /\ Built(1) # junk
  /\ ip' = FirstOf(prog[ip].succ[IF Built(1) = 0 THEN 2 ELSE 1])
  /\ built' = [built EXCEPT !.val = NoValues]
  /\ optimized' = [optimized EXCEPT !.val = NoValues]
  /\ UNCHANGED <<optvars, param>>

Stopped ==
  /\ At("ret") \/ (At("condbr") /\ Built(1) = junk)
  /\ UNCHANGED allvars

Run == StartRun \/ RunPure \/ RunRead \/ RunStore \/ RunPrint \/ RunBr \/ RunCondBr \/ Stopped

-----------------------------------------------------------------------------

ORInit == OptInit /\ ip = 1 /\ param = 0 /\ built = NewRun /\ optimized = NewRun

OptimizeOnly == Optimize /\ UNCHANGED runvars

ORNext == OptimizeOnly \/ Run

\* The compiler is never kept from running on; the runs may stop anywhere.
FairORSpec == ORInit /\ [][ORNext]_allvars /\ WF_allvars(OptimizeOnly)

(***************************************************************************)
(* The optimized function does what the function did: at every store,      *)
(* print, branch and return of the run, on every input, its operands have  *)
(* the same values, unless the value was junk to begin with.               *)
(***************************************************************************)
SameEffects ==
  phase = "run" /\ ~Pure(ip) =>
    \A k \in DOMAIN args[ip] : Built(k) \in {junk, Now(k)}
=============================================================================
