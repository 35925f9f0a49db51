------------------------------ MODULE IRProgram ------------------------------
(***************************************************************************)
(* A function of the intermediate representation while the optimizer       *)
(* rewrites it (optimizer.cpp).  What LLVM keeps for it: instructions      *)
(* in blocks, their operands, and which of them are still there.           *)
(*                                                                         *)
(* prog is the function as it was built.  An operand v > 0 is instruction  *)
(* v, 0 is the parameter and v < 0 the constant -v - 1.  sym is the alloca *)
(* of a load or store, the operation of an arith, the predicate of an      *)
(* icmp.  Blocks are numbered in layout order.                             *)
(***************************************************************************)
EXTENDS Integers, Sequences

CONSTANTS
  Programs,   \* the functions to optimize
  Syms

Ops == {"load", "arith", "icmp", "read", "store", "print", "br", "condbr", "ret"}

ValueOps == {"load", "arith", "icmp", "read"}
Terminators == {"br", "condbr", "ret"}

Instruction == [op : Ops, args : Seq(Int), sym : Syms, succ : Seq(Nat), bb : Nat]

\* Blocks are 1 .. n, contiguous; each ends in its only terminator, and branches go to blocks.
WellFormed(f) ==
  /\ f \in Seq(Instruction) \ {<<>>}
  /\ \A i, j \in DOMAIN f : i <= j => 1 <= f[i].bb /\ f[i].bb <= f[j].bb
  /\ \A b \in 1 .. f[Len(f)].bb : \E i \in DOMAIN f :
        f[i].bb = b /\ \A j \in 1 .. i - 1 : f[j].bb # b
  /\ \A i \in DOMAIN f :
        f[i].op \in Terminators <=> i = Len(f) \/ f[i + 1].bb # f[i].bb
  /\ \A i \in DOMAIN f : f[i].op \notin Terminators => f[i].succ = <<>>
  /\ \A i \in DOMAIN f : /\ f[i].op = "br" => Len(f[i].succ) = 1
                         /\ f[i].op = "condbr" => Len(f[i].succ) = 2
  /\ \A i \in DOMAIN f : \A k \in DOMAIN f[i].succ : f[i].succ[k] \in 1 .. f[Len(f)].bb
  /\ \A i \in DOMAIN f : f[i].op \in {"store", "print", "condbr"} => Len(f[i].args) = 1
  /\ \A i \in DOMAIN f : f[i].op \in {"arith", "icmp"} => Len(f[i].args) = 2

\* Values are used in the block that computes them, and after it.
ValuesStay(f) ==
  \A i \in DOMAIN f : \A k \in DOMAIN f[i].args :
     LET v == f[i].args[k] IN v > 0 => v < i /\ f[v].bb = f[i].bb /\ f[v].op \in ValueOps

\* read() stands on the right of an assignment only.
ReadsAreStored(f) ==
  \A i \in DOMAIN f : f[i].op = "read" =>
     \E j \in DOMAIN f : f[j].op = "store" /\ f[j].args = <<i>>

\* Comparisons of one block have the same predicate, as when there is only one.
ComparisonsAgree(f) ==
  \A i, j \in DOMAIN f :
     f[i].op = "icmp" /\ f[j].op = "icmp" /\ f[i].bb = f[j].bb => f[i].sym = f[j].sym

(***************************************************************************)
(* The parameter goes into its alloca at once and nowhere else.  A         *)
(* comparison is branched on by the next instruction and has no other use; *)
(* LLVM's builder makes one of two constants a constant.                   *)
(***************************************************************************)
Lowered(f) ==
  /\ \A i \in DOMAIN f : /\ f[i].op \in {"load", "read", "br"} => f[i].args = <<>>
                         /\ f[i].op = "ret" => Len(f[i].args) <= 1
  /\ \A i \in DOMAIN f : \A k \in DOMAIN f[i].args :
        LET v == f[i].args[k]
        IN  /\ v = 0 => f[i].op = "store"
            /\ v > 0 /\ f[v].op = "icmp" => f[i].op = "condbr"
  /\ \A i \in DOMAIN f : f[i].op = "icmp" => i < Len(f) /\ f[i + 1].op = "condbr"
  /\ \A i \in DOMAIN f : f[i].op = "condbr" =>
        f[i].args[1] < 0 \/ (i > 1 /\ f[i - 1].op = "icmp" /\ f[i].args = <<i - 1>>)

ASSUME ProgramsAssumption == \A f \in Programs : WellFormed(f)

VARIABLES
  prog,     \* the function as built
  args,     \* args[i]: the operands of instruction i now
  present   \* the instructions not erased yet

irvars == <<prog, args, present>>

Blocks == 1 .. prog[Len(prog)].bb

InstrsOf(b) == {i \in present : prog[i].bb = b}

FirstOf(b) ==
  CHOOSE i \in DOMAIN prog : prog[i].bb = b /\ \A j \in 1 .. i - 1 : prog[j].bb # b

Is(i, op) == prog[i].op = op

IsConstant(v) == v < 0

\* Only terminators have successors, and they are never erased.
Succs(b) ==
  UNION {{prog[i].succ[k] : k \in DOMAIN prog[i].succ} : i \in {j \in DOMAIN prog : prog[j].bb = b}}

\* LLVMReplaceAllUsesWith(i, v), on an assignment of operands.
Replaced(operands, i, v) ==
  [j \in DOMAIN operands |->
     [k \in DOMAIN operands[j] |-> IF operands[j][k] = i THEN v ELSE operands[j][k]]]

IRInit ==
  /\ prog \in Programs
  /\ args = [i \in DOMAIN prog |-> prog[i].args]
  /\ present = DOMAIN prog

IRTypeOK ==
  /\ WellFormed(prog)
  /\ args \in [DOMAIN prog -> Seq(Int)]
  /\ present \subseteq DOMAIN prog
=============================================================================
