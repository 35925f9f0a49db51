------------------------------ MODULE Optimizer ------------------------------
(***************************************************************************)
(* optimize_ir (src/src/optimizer.cpp:315-341): the local passes once on   *)
(* every block, then constant propagation, folding and dead code           *)
(* elimination until a round changes nothing.                              *)
(***************************************************************************)
EXTENDS LocalPasses

\* ir_builder.cpp passes everything from block to block through allocas.
ASSUME ValuesStayInBlocks == \A f \in Programs : ValuesStay(f) /\ ReadsAreStored(f)

\* It builds three operations and six comparisons, on 32-bit words.
InWords(f) ==
  \A i \in DOMAIN f : /\ AreWords(f[i].args)
                      /\ f[i].op = "arith" => f[i].sym \in Operations
                      /\ f[i].op = "icmp" => f[i].sym \in Predicates

ASSUME WordsAssumption == \A f \in Programs : InWords(f)

optvars == <<vars, localvars>>

-----------------------------------------------------------------------------

\* Faulty variant: another round only for something folded.
AfterFolding == IF changes > replaces THEN "start" ELSE "optimized"

AfterRound == IF changes > 0 THEN "start" ELSE "optimized"

LocalPass == LocalStep \/ EndOfBlock("start", AfterRound)

PropagateConstants == Propagate /\ UNCHANGED localvars

\* changes = doConstantPropagation(module)
CountReplaces ==
  /\ phase = "done"
  /\ changes' = replaces
  /\ Begin("refold", 1)
  /\ UNCHANGED <<irvars, dataflow, changed, r, marked, replaces>>

Optimize == LocalPass \/ PropagateConstants \/ CountReplaces

OptInit ==
  /\ IRInit
  /\ phase = "fold"
  /\ gen = [b \in Blocks |-> {}] /\ kill = gen /\ in = gen /\ out = gen
  /\ changed = FALSE
  /\ bb = 1 /\ pc = 1 /\ r = {} /\ marked = {} /\ replaces = 0
  /\ visited = <<>> /\ again = FALSE /\ changes = 0

-----------------------------------------------------------------------------

(***************************************************************************)
(* Types.  The passes stay inside the function, the counters are counted   *)
(* up, and every constant operand is a word, whatever has been folded.     *)
(***************************************************************************)
OptTypeOK ==
  /\ IRTypeOK
  /\ \A i \in present : \A v \in ToSet(args[i]) : IsConstant(v) => WordOf(v) \in Word
  /\ bb \in Blocks /\ pc \in DOMAIN prog
  /\ changes \in Nat /\ again \in BOOLEAN
  /\ \A key \in DOMAIN visited : visited[key] \in InstrsOf(bb)

(***************************************************************************)
(* Whatever is still there uses only what is still there and comes before  *)
(* it.  LLVM aborts when an instruction with uses is erased, and a value   *)
(* used before it is computed does not verify: after every step of every   *)
(* pass, each replacement has to have reached every use.                   *)
(***************************************************************************)
UsesAreThere ==
  \A i \in present : \A v \in ToSet(args[i]) : v > 0 => v \in present /\ v < i

\* Only stores of one constant reach the load i.
Propagatable(i) ==
  LET reaching == {s \in Stores : SameVar(s, i) /\ i \in ReachedFrom(s)}
  IN  \E c \in {args[s][1] : s \in reaching} :
         IsConstant(c) /\ \A s \in reaching : args[s][1] = c

(***************************************************************************)
(* When the loop of optimize_ir stops there is nothing left for it: no     *)
(* instruction to fold, no value unused, and no load that only stores of   *)
(* one constant reach.                                                     *)
(***************************************************************************)
Settled ==
  phase = "optimized" => \A i \in present :
    ~Foldable(i) /\ ~Dead(i) /\ ~(Is(i, "load") /\ Propagatable(i))

-----------------------------------------------------------------------------

\* The function as the backend reads it: what is still there, numbered anew.  It takes a
\* branch on a constant for one without operands, to one of two blocks.
Decided(i) == Is(i, "condbr") /\ IsConstant(args[i][1])

Place(v) == IF v <= 0 THEN v ELSE Cardinality({j \in present : j <= v})

Taken(i) == IF WordOf(args[i][1]) # 0 THEN "true" ELSE "false"

Renumbered(i) ==
  [prog[i] EXCEPT !.op = IF Decided(i) THEN "constbr" ELSE @,
                  !.sym = IF Decided(i) THEN Taken(i) ELSE @,
                  !.args = IF Decided(i) THEN <<>>
                           ELSE [k \in DOMAIN args[i] |-> Place(args[i][k])]]

Optimized ==
  [p \in 1 .. Cardinality(present) |-> Renumbered(CHOOSE i \in present : Place(i) = p)]

Backend == INSTANCE RegAlloc
  WITH Functions <- {}, Syms <- Syms \cup {"true", "false"}, Regs <- {1}, nullreg <- 0,
       none <- -1, fn <- prog, first <- bb, live_range <- args, reg_map <- args,
       available <- present

(***************************************************************************)
(* What alloc_registers relies on, in every function that optimize_ir      *)
(* hands over: a value is used in its block and after it, and every value  *)
(* has a use, so that every value has a live range.                        *)
(***************************************************************************)
FitsBackend == phase = "optimized" => Backend!WellFormed(Optimized)

(***************************************************************************)
(* What generate_code relies on, which looks at no more than the last cmp  *)
(* when it translates a branch: a comparison that is left is still right   *)
(* before the only branch on it, with its predicate, and the parameter is  *)
(* still only stored.                                                      *)
(***************************************************************************)
FitsCodegen == phase = "optimized" => Backend!Translatable(Optimized)

(***************************************************************************)
(* optimize_ir ends: what is replaced or folded in a round is erased in    *)
(* it, so the rounds that change something run out.                        *)
(***************************************************************************)
Optimizes == <>(phase = "optimized")
=============================================================================
