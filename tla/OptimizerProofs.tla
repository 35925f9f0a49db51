--------------------------- MODULE OptimizerProofs ---------------------------
(***************************************************************************)
(* optimize_ir never leaves a use of something erased, whatever passes it  *)
(* has run and wherever it is in one.  The inductive invariant OptIInv     *)
(* goes through all passes; constant propagation keeps its own invariant,  *)
(* ReachIInv, inside the optimizer.  Progress says what each round has     *)
(* done so far, and so what is left at the end: nothing (Settled), in a    *)
(* form that the backend can work on (FitsBackend, FitsCodegen).           *)
(***************************************************************************)
EXTENDS OptimizedRun, ConstPropProofs

LocalPhases == {"fold", "cse", "dce", "refold", "redce"}
CPPhases == {"start", "flow", "enter", "sweep", "done"}

\* What constant propagation knows of its sets, at whatever phase.
SetsOK ==
  /\ SetsTypeOK /\ ShapeOK /\ RoundOK /\ Solved /\ SweepExact
  /\ phase \in {"flow", "enter", "sweep"} => SetsSound

\* A pass is at an instruction of its block that has not been erased.
PlaceOK == phase \in LocalPhases => pc \in InstrsOf(bb)

\* Only loads, computations and comparisons are ever erased.
KeptOK == \A i \in DOMAIN prog : ~Pure(i) => i \in present

\* Operands are values that are there, before the instruction and in its block; constants
\* are words.
OperandOK(i, v) ==
  /\ v > 0 => /\ v \in present /\ v < i /\ prog[v].bb = prog[i].bb
              /\ prog[v].op \in ValueOps
  /\ v < 0 => WordOf(v) \in Word

OperandsOK == \A i \in present : \A v \in ToSet(args[i]) : OperandOK(i, v)

\* CSE shares what it has seen in this walk over the block.
VisitedOK ==
  \A key \in DOMAIN visited :
    /\ phase = "cse"
    /\ visited[key] \in InstrsOf(bb) /\ visited[key] < pc /\ Pure(visited[key])

\* The loads to erase are those of the block that have been replaced everywhere.
MarkedOK ==
  \A i \in marked :
    /\ phase = "sweep" /\ Is(i, "load")
    /\ \A j \in DOMAIN prog : i \notin ToSet(args[j])

\* What is read is stored, and no pass replaces it.
ReadsOK ==
  \A i \in DOMAIN prog : Is(i, "read") =>
    \E j \in DOMAIN prog : Is(j, "store") /\ i \in ToSet(args[j])

OptIInv ==
  /\ prog \in Programs /\ IRTypeOK
  /\ phase \in LocalPhases \cup CPPhases \cup {"optimized", "run"}
  /\ SetsOK /\ PlaceOK /\ KeptOK /\ OperandsOK /\ VisitedOK /\ MarkedOK /\ ReadsOK
  /\ changes \in Nat /\ again \in BOOLEAN

-----------------------------------------------------------------------------

\* The minimum of a non-empty set of natural numbers is what Min says.
LEMMA MinFacts ==
  ASSUME NEW S \in SUBSET Nat, S # {}
  PROVE  Min(S) \in S /\ \A n \in S : Min(S) <= n
BY LeastExists DEF Min

\* There is a next instruction as long as something is left, and nothing in between.
LEMMA FollowingFacts ==
  ASSUME OptIInv, NEW i \in DOMAIN prog, NEW k \in present, i < k
  PROVE  /\ Following(i) \in present /\ i < Following(i) /\ Following(i) <= k
         /\ \A j \in present : j < Following(i) => j <= i
<1>1. present \subseteq Nat /\ DOMAIN prog \subseteq Nat
  BY ProgramFacts DEF OptIInv, IRTypeOK
<1> DEFINE S == {j \in present : j > i}
<1>2. S \in SUBSET Nat /\ k \in S
  BY <1>1
<1>3. Following(i) = Min(S)
  BY DEF Following
<1> HIDE DEF S
<1>4. Following(i) \in S /\ \A n \in S : Following(i) <= n
  BY <1>2, <1>3, MinFacts
<1> QED BY <1>1, <1>2, <1>4 DEF S

\* The blocks of the optimizer always have their terminators.
LEMMA TerminatorStays ==
  ASSUME OptIInv, NEW b \in Blocks
  PROVE  /\ EndOf(b) \in InstrsOf(b)
         /\ \A i \in DOMAIN prog : prog[i].bb = b => i <= EndOf(b)
<1>1. WellFormed(prog)
  BY DEF OptIInv, IRTypeOK
<1>2. /\ EndOf(b) \in DOMAIN prog /\ prog[EndOf(b)].bb = b /\ prog[EndOf(b)].op \in Terminators
      /\ \A i \in DOMAIN prog : prog[i].bb = b => i <= EndOf(b)
  BY <1>1, BlockFacts
<1>3. EndOf(b) \in present
  BY <1>2 DEF OptIInv, KeptOK, Pure, Terminators
<1> QED BY <1>2, <1>3 DEF InstrsOf

LEMMA FirstThere ==
  ASSUME OptIInv, NEW b \in Blocks
  PROVE  /\ Min(InstrsOf(b)) \in InstrsOf(b)
         /\ \A i \in InstrsOf(b) : Min(InstrsOf(b)) <= i
<1>1. InstrsOf(b) \in SUBSET Nat
  BY ProgramFacts DEF OptIInv, IRTypeOK, InstrsOf
<1> QED BY <1>1, TerminatorStays, MinFacts

\* What the operands are after a replacement.
LEMMA ReplacedOperands ==
  ASSUME args \in [DOMAIN prog -> Seq(Int)], NEW i, NEW v, NEW j \in DOMAIN prog
  PROVE  \A u : u \in ToSet(Replaced(args, i, v)[j]) <=>
           \/ u \in ToSet(args[j]) /\ u # i
           \/ u = v /\ i \in ToSet(args[j])
<1>1. DOMAIN args = DOMAIN prog
  OBVIOUS
<1>2. Replaced(args, i, v)[j] =
        [k \in DOMAIN args[j] |-> IF args[j][k] = i THEN v ELSE args[j][k]]
  BY <1>1 DEF Replaced
<1> QED BY <1>2 DEF ToSet

\* Replacing i by an operand that is allowed wherever i is.
LEMMA ReplacedStays ==
  ASSUME OptIInv, NEW i \in DOMAIN prog, Pure(i), NEW v \in Int, prog' = prog,
         present' = present,
         args' = Replaced(args, i, v),
         \A j \in present : OperandOK(j, i) /\ i \in ToSet(args[j]) => OperandOK(j, v)
  PROVE  /\ OperandsOK' /\ ReadsOK'
         /\ args' \in [DOMAIN prog -> Seq(Int)]
         /\ \A j \in DOMAIN prog : Len(args'[j]) = Len(args[j])
<1>1. args \in [DOMAIN prog -> Seq(Int)] /\ present \subseteq DOMAIN prog /\ OperandsOK
  BY DEF OptIInv, IRTypeOK
<1>2. /\ args' \in [DOMAIN prog -> Seq(Int)]
      /\ \A j \in DOMAIN prog : Len(args'[j]) = Len(args[j])
  BY <1>1, ReplacedFacts
<1>3. \A j, u : OperandOK(j, u)' = OperandOK(j, u)
  BY DEF OperandOK
<1>4. ASSUME NEW j \in present, NEW u \in ToSet(args'[j]) PROVE OperandOK(j, u)
  <2>1. \/ u \in ToSet(args[j]) /\ u # i
        \/ u = v /\ i \in ToSet(args[j])
    BY <1>1, <1>4, ReplacedOperands
  <2> QED BY <2>1, <1>1 DEF OperandsOK
<1>5. ReadsOK'
  BY <1>1, ReplacedOperands DEF OptIInv, ReadsOK, Pure, Is
<1> QED BY <1>2, <1>3, <1>4, <1>5 DEF OperandsOK

\* The sets of constant propagation while a local pass runs: nothing is claimed of them.
LEMMA SetsIdle ==
  ASSUME OptIInv, UNCHANGED <<prog, dataflow, changed, r, replaces>>,
         phase' \notin {"flow", "enter", "sweep"},
         bb' \in Blocks, pc' \in DOMAIN prog, marked' = marked,
         \A j \in DOMAIN prog : Len(args'[j]) = Len(args[j])
  PROVE  SetsOK'
<1>1. Blocks' = Blocks /\ StoreSet' = StoreSet
  BY DEF Blocks, StoreSet
<1>2. SetsTypeOK'
  BY <1>1 DEF OptIInv, SetsOK, SetsTypeOK, dataflow
<1>3. ShapeOK'
  BY <1>1 DEF OptIInv, SetsOK, ShapeOK, dataflow
<1> QED BY <1>2, <1>3 DEF SetsOK, RoundOK, Solved, SweepExact

\* On to the next instruction of the block.
LEMMA StepOnFacts ==
  ASSUME OptIInv, phase \in LocalPhases, StepOn, prog' = prog, present' \subseteq DOMAIN prog,
         NEW k \in present, pc < k, prog[k].bb = bb,
         \A j \in present : j > pc => j \in present'
  PROVE  /\ PlaceOK' /\ pc < pc' /\ pc' \in DOMAIN prog /\ bb' = bb /\ phase' = phase
         /\ \A j \in present : j < pc' => j <= pc
<1>1. /\ present \subseteq DOMAIN prog /\ WellFormed(prog) /\ DOMAIN prog \subseteq Nat
      /\ pc \in present /\ prog[pc].bb = bb
  BY ProgramFacts DEF OptIInv, IRTypeOK, PlaceOK, InstrsOf
<1>2. /\ pc' = Following(pc) /\ pc' \in present /\ pc < pc' /\ pc' <= k
      /\ \A j \in present : j < pc' => j <= pc
  BY <1>1, FollowingFacts DEF StepOn
<1>3. prog[pc'].bb = bb
  <2>1. pc \in DOMAIN prog /\ k \in DOMAIN prog /\ pc' \in DOMAIN prog
    BY <1>1, <1>2
  <2>2. pc <= pc'
    BY <1>1, <1>2, <2>1
  <2> QED BY <1>1, <1>2, <2>1, <2>2, BlockFacts
<1>4. pc' \in present'
  BY <1>1, <1>2
<1> QED BY <1>1, <1>2, <1>3, <1>4 DEF StepOn, PlaceOK, InstrsOf

\* What a pass does something with is not the last of its block.
LEMMA PureFollowed ==
  ASSUME OptIInv, phase \in LocalPhases, Pure(pc) \/ ~AtEnd
  PROVE  EndOf(bb) \in present /\ pc < EndOf(bb) /\ prog[EndOf(bb)].bb = bb
<1>1. /\ WellFormed(prog) /\ bb \in Blocks /\ pc \in DOMAIN prog /\ prog[pc].bb = bb
      /\ DOMAIN prog \subseteq Nat
  BY ProgramFacts DEF OptIInv, IRTypeOK, SetsOK, SetsTypeOK, PlaceOK, InstrsOf
<1>2. /\ EndOf(bb) \in InstrsOf(bb) /\ EndOf(bb) \in DOMAIN prog
      /\ prog[EndOf(bb)].op \in Terminators
      /\ \A i \in DOMAIN prog : prog[i].bb = bb => i <= EndOf(bb)
  BY <1>1, TerminatorStays, BlockFacts
<1>3. CASE Pure(pc)
  <2>1. pc # EndOf(bb)
    BY <1>2, <1>3 DEF Pure, Terminators
  <2> QED BY <1>1, <1>2, <2>1 DEF InstrsOf
<1>4. CASE ~AtEnd
  <2>1. PICK j \in DOMAIN prog : prog[j].bb = bb /\ ~(j <= pc)
    BY <1>4 DEF AtEnd
  <2>2. j <= EndOf(bb)
    BY <1>2, <2>1
  <2> QED BY <1>1, <1>2, <2>1, <2>2 DEF InstrsOf
<1> QED BY <1>3, <1>4

-----------------------------------------------------------------------------
(***************************************************************************)
(* The local passes                                                        *)
(***************************************************************************)

\* What holds in every step of a pass that goes on in its block.
LEMMA LocalStepIInv ==
  ASSUME OptIInv, phase \in LocalPhases, StepOn, Pure(pc) \/ ~AtEnd,
         UNCHANGED <<prog, dataflow, changed, r, marked, replaces>>,
         present' \subseteq present, \A j \in present \ present' : Pure(j) /\ j = pc,
         OperandsOK', ReadsOK', args' \in [DOMAIN prog -> Seq(Int)],
         \A j \in DOMAIN prog : Len(args'[j]) = Len(args[j]),
         pc < pc' /\ pc' \in Nat => VisitedOK', changes' \in Nat, again' \in BOOLEAN
  PROVE  OptIInv'
<1>1. /\ IRTypeOK /\ present' \subseteq DOMAIN prog /\ phase \notin CPPhases
      /\ pc \in DOMAIN prog /\ DOMAIN prog \subseteq Nat /\ bb \in Blocks
  BY ProgramFacts
     DEF OptIInv, IRTypeOK, PlaceOK, InstrsOf, LocalPhases, CPPhases, SetsOK, SetsTypeOK
<1>2. EndOf(bb) \in present /\ pc < EndOf(bb) /\ prog[EndOf(bb)].bb = bb
  BY PureFollowed
<1>3. \A j \in present : j > pc => j \in present'
  BY <1>1
<1>4. PlaceOK' /\ pc < pc' /\ pc' \in DOMAIN prog /\ bb' = bb /\ phase' = phase
  BY <1>1, <1>2, <1>3, StepOnFacts
<1>5. IRTypeOK'
  BY <1>1 DEF IRTypeOK
<1>6. Blocks' = Blocks
  BY DEF Blocks
<1>7. SetsOK'
  BY <1>1, <1>4, <1>6, SetsIdle DEF LocalPhases, CPPhases
<1>8. KeptOK'
  BY DEF OptIInv, KeptOK, Pure
<1>9. MarkedOK'
  BY <1>1, <1>4 DEF OptIInv, MarkedOK, CPPhases
<1>10. VisitedOK'
  BY <1>1, <1>4
<1> QED BY <1>4, <1>5, <1>7, <1>8, <1>9, <1>10 DEF OptIInv

\* Without a use that is left, an instruction leaves nothing behind when it goes.
LEMMA EraseIInv == OptIInv /\ EraseInstr => OptIInv'
<1> SUFFICES ASSUME OptIInv, EraseInstr PROVE OptIInv'
  OBVIOUS
<1>1. /\ Erasing /\ Dead(pc) /\ present' = present \ {pc} /\ again' = TRUE /\ StepOn
      /\ UNCHANGED <<prog, args, dataflow, changed, r, marked, replaces, visited, changes>>
  BY DEF EraseInstr
<1>2. phase \in LocalPhases /\ phase # "cse" /\ Pure(pc)
  BY <1>1 DEF Erasing, LocalPhases, Dead
<1>3. args \in [DOMAIN prog -> Seq(Int)] /\ changes \in Nat
  BY DEF OptIInv, IRTypeOK
<1>4. OperandsOK'
  <2>1. \A j \in present : pc \notin ToSet(args[j])
    BY <1>1 DEF Dead, Used
  <2> QED BY <1>1, <2>1 DEF OptIInv, OperandsOK, OperandOK
<1>5. VisitedOK' /\ ReadsOK'
  BY <1>1, <1>2 DEF OptIInv, VisitedOK, ReadsOK, Is
<1> QED BY <1>1, <1>2, <1>3, <1>4, <1>5, LocalStepIInv

\* Nothing happens to the function.
LEMMA SkipIInv == OptIInv /\ SkipInstr => OptIInv'
<1> SUFFICES ASSUME OptIInv, SkipInstr PROVE OptIInv'
  OBVIOUS
<1>1. /\ phase \in LocalPhases /\ ~AtEnd /\ StepOn
      /\ UNCHANGED <<prog, args, present, dataflow, changed, r, marked, replaces, visited,
                     again, changes>>
  BY DEF SkipInstr, Folding, Erasing, LocalPhases, irvars, localvars
<1>2. /\ args \in [DOMAIN prog -> Seq(Int)] /\ changes \in Nat /\ again \in BOOLEAN
      /\ OperandsOK /\ VisitedOK /\ pc \in Nat
  BY ProgramFacts DEF OptIInv, IRTypeOK, SetsOK, SetsTypeOK
<1>3. OperandsOK' /\ ReadsOK'
  BY <1>1, <1>2 DEF OperandsOK, OperandOK, OptIInv, ReadsOK, Is
<1>4. ASSUME pc < pc', pc' \in Nat PROVE VisitedOK'
  <2> SUFFICES ASSUME NEW key \in DOMAIN visited PROVE visited[key] < pc'
    BY <1>1, <1>2 DEF VisitedOK, InstrsOf, StepOn, Pure
  <2>1. visited[key] < pc /\ visited[key] \in Nat
    BY <1>2, ProgramFacts DEF VisitedOK, InstrsOf, OptIInv, IRTypeOK
  <2> QED BY <2>1, <1>2, <1>4
<1> QED BY <1>1, <1>2, <1>3, <1>4, LocalStepIInv

\* Words are closed under the arithmetic of i32.
LEMMA ArithWord ==
  ASSUME NEW sym \in Operations, NEW a \in Int, NEW b \in Int
  PROVE  Arith(sym, a, b) \in Word
<1>1. Modulus \in Nat \ {0}
  BY ModulusAssumption
<1>2. \A n \in Int : n % Modulus \in Word
  BY <1>1 DEF Word
<1>3. a + b \in Int /\ a - b + Modulus \in Int /\ a * b \in Int
  BY <1>1
<1> QED BY <1>2, <1>3 DEF Arith, Operations

\* The value of a foldable instruction is the operand of a word, wherever it may stand.
LEMMA FoldedWord ==
  ASSUME OptIInv, NEW i \in DOMAIN prog, Foldable(i)
  PROVE  /\ Pure(i) /\ Value(i) \in Int /\ Value(i) < 0 /\ WordOf(Value(i)) \in Word
         /\ \A j : OperandOK(j, Value(i))
<1>1. /\ WellFormed(prog) /\ InWords(prog)
      /\ args \in [DOMAIN prog -> Seq(Int)] /\ Len(args[i]) = Len(prog[i].args)
  BY WordsAssumption DEF OptIInv, IRTypeOK, SetsOK, ShapeOK
<1>2. prog[i].op = "arith" /\ Pure(i) /\ Len(args[i]) = 2
  BY <1>1 DEF Foldable, Is, Pure, WellFormed
<1>3. args[i][1] \in Int /\ args[i][2] \in Int
  <2>1. args[i] \in Seq(Int) /\ DOMAIN args[i] = 1 .. 2
    BY <1>1, <1>2
  <2> QED BY <2>1
<1>4. WordOf(args[i][1]) \in Int /\ WordOf(args[i][2]) \in Int
  BY <1>3 DEF WordOf
<1>5. prog[i].sym \in Operations
  BY <1>1, <1>2 DEF InWords
<1>6. Value(i) \in Int /\ Value(i) < 0 /\ WordOf(Value(i)) \in Word
  <2> DEFINE w == Arith(prog[i].sym, WordOf(args[i][1]), WordOf(args[i][2]))
  <2>1. w \in Word
    BY <1>4, <1>5, ArithWord
  <2>2. Value(i) = -w - 1
    BY DEF Value, Constant
  <2> HIDE DEF w
  <2>3. w \in Nat
    BY <2>1, ModulusAssumption DEF Word
  <2>4. WordOf(-w - 1) = w
    BY <2>3 DEF WordOf
  <2> QED BY <2>1, <2>2, <2>3, <2>4
<1> QED BY <1>2, <1>6 DEF OperandOK

\* What is folded is a word again.
LEMMA FoldIInv == OptIInv /\ FoldInstr => OptIInv'
<1> SUFFICES ASSUME OptIInv, FoldInstr PROVE OptIInv'
  OBVIOUS
<1>1. /\ phase \in LocalPhases /\ phase # "cse" /\ Foldable(pc) /\ StepOn
      /\ args' = Replaced(args, pc, Value(pc))
      /\ changes' \in {changes, changes + 1}
      /\ UNCHANGED <<prog, present, dataflow, changed, r, marked, replaces, visited, again>>
  BY DEF FoldInstr, Folding, LocalPhases
<1>2. /\ pc \in present /\ pc \in DOMAIN prog /\ changes \in Nat /\ again \in BOOLEAN
  BY <1>1 DEF OptIInv, IRTypeOK, PlaceOK, InstrsOf
<1>3. Pure(pc) /\ Value(pc) \in Int /\ \A j : OperandOK(j, Value(pc))
  BY <1>1, <1>2, FoldedWord
<1>4. /\ OperandsOK' /\ ReadsOK'
      /\ args' \in [DOMAIN prog -> Seq(Int)]
      /\ \A j \in DOMAIN prog : Len(args'[j]) = Len(args[j])
  BY <1>1, <1>2, <1>3, ReplacedStays
<1>5. VisitedOK'
  BY <1>1 DEF OptIInv, VisitedOK
<1>6. changes' \in Nat
  BY <1>1, <1>2
<1> QED BY <1>1, <1>2, <1>3, <1>4, <1>5, <1>6, LocalStepIInv

\* What is shared comes before the instruction that it replaces, in its block.
LEMMA ShareIInv == OptIInv /\ ShareInstr => OptIInv'
<1> SUFFICES ASSUME OptIInv, ShareInstr PROVE OptIInv'
  OBVIOUS
<1> DEFINE p == visited[Key(pc)]
<1>1. /\ phase = "cse" /\ phase \in LocalPhases /\ Pure(pc) /\ Key(pc) \in DOMAIN visited /\ StepOn
      /\ args' = Replaced(args, pc, p)
      /\ UNCHANGED <<prog, present, dataflow, changed, r, marked, replaces, visited, again,
                     changes>>
  BY DEF ShareInstr, Repeats, LocalPhases, localvars
<1>2. /\ WellFormed(prog) /\ pc \in InstrsOf(bb) /\ present \subseteq DOMAIN prog
      /\ DOMAIN prog = 1 .. Len(prog) /\ Len(prog) \in Nat
      /\ changes \in Nat /\ again \in BOOLEAN
  BY <1>1, ProgramFacts DEF OptIInv, IRTypeOK, PlaceOK
<1>3. p \in present /\ prog[p].bb = bb /\ p < pc /\ prog[p].op \in ValueOps
  BY <1>1 DEF OptIInv, VisitedOK, InstrsOf, Pure, ValueOps
<1> HIDE DEF p
<1>4. p \in Int /\ p > 0 /\ pc \in Int /\ pc > 0 /\ pc \in DOMAIN prog
  BY <1>2, <1>3 DEF InstrsOf
<1>5. /\ OperandsOK' /\ ReadsOK'
      /\ args' \in [DOMAIN prog -> Seq(Int)]
      /\ \A j \in DOMAIN prog : Len(args'[j]) = Len(args[j])
  <2>1. ASSUME NEW j \in present, OperandOK(j, pc) PROVE OperandOK(j, p)
    <3>1. pc < j /\ prog[j].bb = bb /\ j \in Int
      BY <1>2, <1>4, <2>1 DEF OperandOK, InstrsOf
    <3> QED BY <3>1, <1>3, <1>4 DEF OperandOK
  <2> QED BY <2>1, <1>1, <1>4, ReplacedStays
<1>6. ASSUME pc < pc', pc' \in Nat PROVE VisitedOK'
  <2> SUFFICES ASSUME NEW key \in DOMAIN visited PROVE visited[key] < pc'
    BY <1>1 DEF OptIInv, VisitedOK, InstrsOf, StepOn, Pure
  <2>1. visited[key] < pc /\ visited[key] \in Nat
    BY <1>2 DEF VisitedOK, InstrsOf, OptIInv
  <2> QED BY <2>1, <1>4, <1>6
<1> QED BY <1>1, <1>2, <1>5, <1>6, LocalStepIInv

\* And what is visited is behind the walk from now on.
LEMMA VisitIInv == OptIInv /\ VisitInstr => OptIInv'
<1> SUFFICES ASSUME OptIInv, VisitInstr PROVE OptIInv'
  OBVIOUS
<1>1. /\ phase = "cse" /\ phase \in LocalPhases /\ Pure(pc) /\ StepOn
      /\ visited' = [key \in DOMAIN visited \cup {Key(pc)} |->
                       IF key = Key(pc) THEN pc ELSE visited[key]]
      /\ UNCHANGED <<prog, args, present, dataflow, changed, r, marked, replaces, again, changes>>
  BY DEF VisitInstr, LocalPhases, irvars
<1>2. /\ WellFormed(prog) /\ pc \in InstrsOf(bb) /\ present \subseteq DOMAIN prog
      /\ DOMAIN prog = 1 .. Len(prog) /\ Len(prog) \in Nat
      /\ changes \in Nat /\ again \in BOOLEAN
      /\ args \in [DOMAIN prog -> Seq(Int)] /\ OperandsOK
  BY <1>1, ProgramFacts DEF OptIInv, IRTypeOK, PlaceOK
<1>3. OperandsOK' /\ ReadsOK'
  BY <1>1, <1>2 DEF OperandsOK, OperandOK, OptIInv, ReadsOK, Is
<1>4. ASSUME pc < pc', pc' \in Nat PROVE VisitedOK'
  <2>1. \A key \in DOMAIN visited' :
          visited'[key] = pc \/ (key \in DOMAIN visited /\ visited'[key] = visited[key])
    BY <1>1
  <2>2. \A key \in DOMAIN visited :
          visited[key] \in InstrsOf(bb) /\ visited[key] < pc /\ Pure(visited[key])
    BY DEF OptIInv, VisitedOK
  <2>3. \A i \in InstrsOf(bb) : i < pc \/ i = pc => i < pc'
    <3> SUFFICES ASSUME NEW i \in InstrsOf(bb), i < pc \/ i = pc PROVE i < pc'
      OBVIOUS
    <3>1. i \in Int /\ pc \in Int
      BY <1>2 DEF InstrsOf
    <3> QED BY <3>1, <1>4
  <2>4. InstrsOf(bb)' = InstrsOf(bb)
    BY <1>1 DEF InstrsOf, StepOn
  <2>5. \A i : Pure(i)' = Pure(i)
    BY <1>1 DEF Pure
  <2> QED BY <1>1, <1>2, <2>1, <2>2, <2>3, <2>4, <2>5 DEF VisitedOK, StepOn
<1> QED BY <1>1, <1>2, <1>3, <1>4, LocalStepIInv

LEMMA LocalIInv == OptIInv /\ LocalStep => OptIInv'
BY FoldIInv, ShareIInv, VisitIInv, EraseIInv, SkipIInv DEF LocalStep

\* The next pass or the next block: at its first instruction, with nothing visited.
LEMMA BeginIInv ==
  ASSUME OptIInv, phase \in LocalPhases \cup {"done"},
         NEW pass \in LocalPhases \cup {"start", "optimized"}, NEW b \in Blocks, Begin(pass, b),
         UNCHANGED <<irvars, dataflow, changed, r, marked, replaces>>, changes' \in Nat
  PROVE  OptIInv'
<1>1. /\ UNCHANGED <<prog, args, present, marked>> /\ marked = {}
      /\ phase' = pass /\ bb' = b /\ again' = FALSE /\ visited' = <<>>
      /\ pc' = IF pass = "start" THEN pc ELSE Min(InstrsOf(b))
  BY DEF Begin, irvars, OptIInv, MarkedOK, LocalPhases
<1>2. Min(InstrsOf(b)) \in InstrsOf(b) /\ InstrsOf(b) \subseteq DOMAIN prog /\ pc \in DOMAIN prog
  BY FirstThere DEF InstrsOf, OptIInv, IRTypeOK, SetsOK, SetsTypeOK
<1>3. PlaceOK'
  BY <1>1, <1>2 DEF PlaceOK, InstrsOf, LocalPhases
<1>4. SetsOK'
  <2>1. pc' \in DOMAIN prog /\ phase' \notin {"flow", "enter", "sweep"}
    BY <1>1, <1>2 DEF LocalPhases
  <2> QED BY <1>1, <2>1, SetsIdle
<1>5. VisitedOK' /\ MarkedOK'
  BY <1>1 DEF VisitedOK, MarkedOK
<1>6. IRTypeOK' /\ KeptOK' /\ OperandsOK' /\ ReadsOK'
  BY <1>1 DEF OptIInv, IRTypeOK, KeptOK, OperandsOK, OperandOK, ReadsOK, Is, Pure
<1> QED BY <1>1, <1>3, <1>4, <1>5, <1>6 DEF OptIInv, CPPhases

\* Whichever of them comes after a pass.
LEMMA EndIInv == OptIInv /\ EndOfBlock("start", AfterRound) => OptIInv'
<1> SUFFICES ASSUME OptIInv, EndOfBlock("start", AfterRound) PROVE OptIInv'
  OBVIOUS
<1>1. /\ UNCHANGED <<irvars, dataflow, changed, r, marked, replaces>> /\ changes' \in Nat
      /\ bb \in Blocks /\ WellFormed(prog)
  BY DEF EndOfBlock, OptIInv, SetsOK, SetsTypeOK, IRTypeOK
<1>2. 1 \in Blocks /\ (~LastBlock => bb + 1 \in Blocks)
  BY <1>1, ProgramFacts DEF LastBlock, N
<1>3. AfterRound \in {"start", "optimized"}
  BY DEF AfterRound
<1>4. PICK pass \in LocalPhases \cup {"start", "optimized"}, b \in Blocks :
        phase \in LocalPhases /\ Begin(pass, b)
  BY <1>1, <1>2, <1>3 DEF EndOfBlock, EndPass, LocalPhases
<1> QED BY <1>1, <1>4, BeginIInv

LEMMA CountIInv == OptIInv /\ CountReplaces => OptIInv'
<1> SUFFICES ASSUME OptIInv, CountReplaces PROVE OptIInv'
  OBVIOUS
<1>1. 1 \in Blocks /\ replaces \in Nat
  BY ProgramFacts DEF OptIInv, IRTypeOK, SetsOK, SetsTypeOK
<1> QED BY <1>1, BeginIInv DEF CountReplaces, LocalPhases

-----------------------------------------------------------------------------
(***************************************************************************)
(* Constant propagation                                                    *)
(***************************************************************************)

\* Inside constant propagation its own invariant holds.
LEMMA ReachInside == OptIInv /\ phase \in CPPhases => ReachIInv
<1> SUFFICES ASSUME OptIInv, phase \in CPPhases PROVE ReachIInv
  OBVIOUS
<1>1. CPTypeOK
  BY DEF OptIInv, SetsOK, CPTypeOK, CPPhases
<1>2. KeepsStores
  BY DEF OptIInv, KeptOK, MarkedOK, KeepsStores, StoreSet, Pure
<1> QED BY <1>1, <1>2 DEF OptIInv, SetsOK, IInv, ReachIInv

\* And gives back what the optimizer keeps of it.
LEMMA SetsInside == OptIInv /\ Propagate => IRTypeOK' /\ SetsOK' /\ phase' \in CPPhases
<1> SUFFICES ASSUME OptIInv, Propagate PROVE IRTypeOK' /\ SetsOK' /\ phase' \in CPPhases
  OBVIOUS
<1>1. phase \in CPPhases
  BY DEF Propagate, CPStart, FlowBlock, EnterSweep, SweepStore, ReplaceLoad, KeepLoad, SweepOther,
         Sweeping, CPPhases
<1>2. ReachIInv'
  BY <1>1, ReachInside, StartReach, FlowReach, EnterReach, SweepStepReach DEF Propagate
<1> QED BY <1>2 DEF ReachIInv, IInv, CPTypeOK, SetsOK, CPPhases

\* A step of the sweep erases marked loads only, and nothing uses them any more.
LEMMA AdvanceIInv ==
  ASSUME OptIInv, phase = "sweep", NEW loads, Advance(loads), prog' = prog,
         \A i \in present : \A v \in ToSet(args'[i]) : OperandOK(i, v),
         \A i \in loads : Is(i, "load") /\ \A j \in DOMAIN prog : i \notin ToSet(args'[j])
  PROVE  KeptOK' /\ OperandsOK' /\ MarkedOK'
<1>1. present \subseteq DOMAIN prog
  BY DEF OptIInv, IRTypeOK
<1>2. \/ present' = present /\ marked' = loads /\ phase' = "sweep"
      \/ present' = present \ loads /\ marked' = {}
  BY DEF Advance
<1>3. KeptOK'
  BY <1>2 DEF OptIInv, KeptOK, Pure, Is
<1>4. MarkedOK'
  BY <1>2 DEF MarkedOK, Is
<1>5. OperandsOK'
  <2> SUFFICES ASSUME NEW i \in present', NEW v \in ToSet(args'[i]) PROVE OperandOK(i, v)'
    BY DEF OperandsOK
  <2>1. i \in present /\ i \in DOMAIN prog /\ OperandOK(i, v) /\ v \notin loads
    BY <1>1, <1>2
  <2> QED BY <2>1, <1>2 DEF OperandOK
<1> QED BY <1>3, <1>4, <1>5

\* The constant of a store is a word, and it may stand wherever the load did.
LEMMA ReplaceOperands ==
  ASSUME OptIInv, ReplaceLoad
  PROVE  KeptOK' /\ OperandsOK' /\ MarkedOK' /\ ReadsOK'
<1>1. /\ phase = "sweep" /\ Is(pc, "load") /\ prog' = prog /\ pc \in present
      /\ Advance(marked \cup {pc})
  BY DEF ReplaceLoad, Sweeping
<1>2. PICK c \in Stored : AllStore(c) /\ args' = Replaced(args, pc, c)
  BY DEF ReplaceLoad
<1>3. PICK s \in Writes : c = args[s][1]
  BY <1>2 DEF Stored
<1>4. /\ args \in [DOMAIN prog -> Seq(Int)] /\ present \subseteq DOMAIN prog
      /\ WellFormed(prog) /\ s \in StoreSet /\ Len(args[s]) = Len(prog[s].args)
      /\ pc \in DOMAIN prog /\ DOMAIN prog = 1 .. Len(prog) /\ Len(prog) \in Nat
  BY <1>1, <1>3, ProgramFacts DEF OptIInv, IRTypeOK, SetsOK, ShapeOK, Writes, StoreSet
<1>5. s \in present /\ s \in DOMAIN prog /\ Len(args[s]) = 1
  BY <1>4, ProgramFacts DEF OptIInv, KeptOK, StoreSet, Pure
<1>6. c \in ToSet(args[s]) /\ c \in Int
  <2>1. args[s] \in Seq(Int) /\ 1 \in 1 .. Len(args[s]) /\ DOMAIN args[s] = 1 .. 1
    BY <1>4, <1>5
  <2> QED BY <2>1, <1>3 DEF ToSet
<1>7. c < 0 /\ WordOf(c) \in Word
  BY <1>2, <1>5, <1>6 DEF OptIInv, OperandsOK, OperandOK, AllStore, IsConstant
<1>8. \A j \in DOMAIN prog : \A u \in ToSet(args'[j]) : (u \in ToSet(args[j]) /\ u # pc) \/ u = c
  BY <1>2, <1>4, ReplacedOperands
<1>9. \A i \in present : \A v \in ToSet(args'[i]) : OperandOK(i, v)
  <2> SUFFICES ASSUME NEW i \in present, NEW v \in ToSet(args'[i]) PROVE OperandOK(i, v)
    OBVIOUS
  <2>1. CASE v \in ToSet(args[i])
    BY <2>1 DEF OptIInv, OperandsOK
  <2>2. CASE v = c
    BY <2>2, <1>6, <1>7 DEF OperandOK
  <2> QED BY <2>1, <2>2, <1>4, <1>8
<1>10. \A i \in marked \cup {pc} :
         Is(i, "load") /\ \A j \in DOMAIN prog : i \notin ToSet(args'[j])
  <2>1. marked \subseteq DOMAIN prog
    BY DEF OptIInv, SetsOK, SetsTypeOK
  <2>2. \A i \in marked \cup {pc} : i # c
    BY <2>1, <1>4, <1>7
  <2>3. \A i \in marked : Is(i, "load") /\ \A j \in DOMAIN prog : i \notin ToSet(args[j])
    BY DEF OptIInv, MarkedOK
  <2> QED BY <2>2, <2>3, <1>1, <1>8
<1>11. ReadsOK'
  BY <1>1, <1>2, <1>4, ReplacedOperands DEF OptIInv, ReadsOK, Is
<1> QED BY <1>1, <1>9, <1>10, <1>11, AdvanceIInv

\* Whatever constant propagation does.
LEMMA PropagateIInv == OptIInv /\ PropagateConstants => OptIInv'
<1> SUFFICES ASSUME OptIInv, Propagate, UNCHANGED localvars PROVE OptIInv'
  BY DEF PropagateConstants
<1>1. IRTypeOK' /\ SetsOK' /\ phase' \in CPPhases /\ UNCHANGED <<prog, visited, again, changes>>
  BY SetsInside
     DEF Propagate, CPStart, FlowBlock, EnterSweep, SweepStore, ReplaceLoad, KeepLoad, SweepOther,
         irvars, localvars
<1>2. phase # "cse"
  BY DEF Propagate, CPStart, FlowBlock, EnterSweep, SweepStore, ReplaceLoad, KeepLoad, SweepOther,
         Sweeping
<1>3. PlaceOK' /\ VisitedOK'
  BY <1>1, <1>2 DEF OptIInv, PlaceOK, VisitedOK, CPPhases, LocalPhases
<1>4. KeptOK' /\ OperandsOK' /\ MarkedOK' /\ ReadsOK'
  <2>1. CASE CPStart \/ FlowBlock \/ EnterSweep
    <3>1. UNCHANGED <<prog, args, present>> /\ marked' = {}
      BY <2>1 DEF CPStart, FlowBlock, EnterSweep, irvars, sweep, OptIInv, MarkedOK
    <3> QED BY <3>1
            DEF OptIInv, KeptOK, OperandsOK, OperandOK, MarkedOK, ReadsOK, Pure, Is
  <2>2. CASE SweepStore \/ KeepLoad \/ SweepOther
    <3>1. /\ UNCHANGED <<prog, args>> /\ phase = "sweep" /\ Advance(marked)
      BY <2>2 DEF SweepStore, KeepLoad, SweepOther, Sweeping
    <3>2. \A i \in present : \A v \in ToSet(args'[i]) : OperandOK(i, v)
      BY <3>1 DEF OptIInv, OperandsOK
    <3>3. \A i \in marked : Is(i, "load") /\ \A j \in DOMAIN prog : i \notin ToSet(args'[j])
      BY <3>1 DEF OptIInv, MarkedOK
    <3>4. KeptOK' /\ OperandsOK' /\ MarkedOK'
      BY <3>1, <3>2, <3>3, AdvanceIInv
    <3>5. ReadsOK'
      BY <3>1 DEF OptIInv, ReadsOK, Is
    <3> QED BY <3>4, <3>5
  <2>3. CASE ReplaceLoad
    BY <2>3, ReplaceOperands
  <2> QED BY <2>1, <2>2, <2>3 DEF Propagate
<1> QED BY <1>1, <1>3, <1>4 DEF OptIInv, CPPhases

-----------------------------------------------------------------------------

LEMMA InitOpt == ORInit => OptIInv
<1> SUFFICES ASSUME OptInit PROVE OptIInv
  BY DEF ORInit
<1>1. /\ prog \in Programs /\ args = [i \in DOMAIN prog |-> prog[i].args]
      /\ present = DOMAIN prog /\ WellFormed(prog)
  BY ProgramsAssumption DEF OptInit, IRInit
<1>2. 1 \in DOMAIN prog /\ 1 \in Blocks /\ IRTypeOK
  BY <1>1, ProgramFacts DEF IRTypeOK
<1>3. \A i \in DOMAIN prog : args[i] = prog[i].args /\ args[i] \in Seq(Int)
  BY <1>1, ProgramFacts
<1>4. SetsOK
  BY <1>1, <1>2, ProgramFacts
     DEF OptInit, SetsOK, SetsTypeOK, ShapeOK, RoundOK, Solved, SweepExact
<1>5. prog[1].bb = 1
  <2>1. FirstOf(1) \in DOMAIN prog /\ prog[FirstOf(1)].bb = 1 /\ prog[1].bb \in Nat
    BY <1>1, <1>2, ProgramFacts
  <2>2. 1 <= FirstOf(1)
    BY <2>1, <1>1, ProgramFacts
  <2>3. 1 <= prog[1].bb /\ prog[1].bb <= prog[FirstOf(1)].bb
    BY <2>1, <2>2, <1>1, <1>2 DEF WellFormed
  <2> QED BY <2>1, <2>3
<1>6. PlaceOK /\ KeptOK /\ VisitedOK /\ MarkedOK
  BY <1>1, <1>2, <1>5 DEF OptInit, PlaceOK, InstrsOf, KeptOK, VisitedOK, MarkedOK
<1>7. OperandsOK
  <2> SUFFICES ASSUME NEW i \in DOMAIN prog, NEW k \in DOMAIN prog[i].args
               PROVE  OperandOK(i, prog[i].args[k])
    BY <1>1, <1>3 DEF OperandsOK, ToSet
  <2>1. prog[i].args[k] \in Int /\ i \in Nat /\ DOMAIN prog = 1 .. Len(prog) /\ Len(prog) \in Nat
    BY <1>1, <1>3, ProgramFacts
  <2>2. prog[i].args[k] > 0 =>
          /\ prog[i].args[k] < i /\ prog[prog[i].args[k]].bb = prog[i].bb
          /\ prog[prog[i].args[k]].op \in ValueOps
    BY <1>1, ValuesStayInBlocks DEF ValuesStay
  <2>3. prog[i].args[k] < 0 => WordOf(prog[i].args[k]) \in Word
    BY <1>1, WordsAssumption DEF InWords, AreWords
  <2> QED BY <2>1, <2>2, <2>3, <1>1 DEF OperandOK
<1>8. ReadsOK
  <2> SUFFICES ASSUME NEW i \in DOMAIN prog, prog[i].op = "read"
               PROVE  \E j \in DOMAIN prog : prog[j].op = "store" /\ i \in ToSet(args[j])
    BY DEF ReadsOK, Is
  <2>1. PICK j \in DOMAIN prog : prog[j].op = "store" /\ prog[j].args = <<i>>
    BY <1>1, ValuesStayInBlocks DEF ReadsAreStored
  <2>2. i \in ToSet(args[j])
    BY <2>1, <1>3 DEF ToSet
  <2> QED BY <2>1, <2>2
<1> QED BY <1>1, <1>2, <1>4, <1>6, <1>7, <1>8 DEF OptInit, OptIInv, LocalPhases

\* The runs of the built and of the optimized function only look at it.
Looks ==
  /\ UNCHANGED <<irvars, dataflow, changed, sweep, bb, localvars>>
  /\ phase' = phase \/ (phase = "optimized" /\ phase' = "run")

LEMMA LookIInv == OptIInv /\ Looks => OptIInv'
<1> SUFFICES ASSUME OptIInv, Looks PROVE OptIInv'
  OBVIOUS
<1>1. /\ UNCHANGED <<prog, args, present, dataflow, changed, bb, pc, r, marked, replaces>>
      /\ UNCHANGED <<gen, kill, in, out, visited, again, changes>>
      /\ phase' = phase \/ (phase = "optimized" /\ phase' = "run")
  BY DEF Looks, irvars, dataflow, sweep, localvars
<1>2. Blocks' = Blocks /\ StoreSet' = StoreSet
  BY <1>1, SameProgram
<1>3. SetsOK'
  <2>1. SetsTypeOK' /\ ShapeOK'
    BY <1>1, <1>2 DEF OptIInv, SetsOK, SetsTypeOK, ShapeOK
  <2>2. CASE phase' = phase
    <3>1. \A b \in Blocks : JoinIn(b)' = JoinIn(b)
      BY <1>1, <1>2 DEF JoinIn, Preds, Succs
    <3>2. RoundOK' /\ Solved'
      BY <3>1, <2>2, <1>1, <1>2 DEF OptIInv, SetsOK, RoundOK, Solved, EquationsOf, Transfer
    <3>3. SweepExact'
      BY <2>2, <1>1, SameProgram DEF OptIInv, SetsOK, SweepExact
    <3>4. phase \in {"flow", "enter", "sweep"} => SetsSound'
      <4> SUFFICES ASSUME phase \in {"flow", "enter", "sweep"} PROVE SetsSound'
        OBVIOUS
      <4>1. SetsSound /\ KeepsStores /\ present \subseteq DOMAIN prog
        BY DEF OptIInv, SetsOK, IRTypeOK, KeepsStores, KeptOK, StoreSet, Pure, MarkedOK
      <4> QED BY <4>1, <1>1, SetsStay DEF KeepsStores
    <3> QED BY <2>1, <2>2, <3>2, <3>3, <3>4 DEF SetsOK
  <2>3. CASE phase' # phase
    BY <2>1, <2>3, <1>1 DEF SetsOK, RoundOK, Solved, SweepExact
  <2> QED BY <2>2, <2>3
<1>4. PlaceOK' /\ VisitedOK' /\ MarkedOK'
  BY <1>1 DEF OptIInv, PlaceOK, VisitedOK, MarkedOK, InstrsOf, Pure, Is, LocalPhases
<1>5. IRTypeOK' /\ KeptOK' /\ OperandsOK' /\ ReadsOK'
  BY <1>1 DEF OptIInv, IRTypeOK, KeptOK, OperandsOK, OperandOK, ReadsOK, Is, Pure
<1> QED BY <1>1, <1>3, <1>4, <1>5 DEF OptIInv

LEMMA RunLooks == Run \/ UNCHANGED allvars => Looks
<1> USE DEF Looks, allvars, optvars, vars, cpvars, irvars, dataflow, sweep, localvars, runvars
<1>1. UNCHANGED optvars => Looks
  OBVIOUS
<1>2. StartRun => Looks
  BY DEF StartRun
<1>3. RunPure \/ RunRead \/ RunStore \/ RunPrint \/ RunBr \/ RunCondBr \/ Stopped
        => UNCHANGED optvars
  BY DEF RunPure, RunRead, RunStore, RunPrint, RunBr, RunCondBr, Stopped
<1> QED BY <1>1, <1>2, <1>3 DEF Run

(***************************************************************************)
(* OptIInv is inductive.                                                   *)
(***************************************************************************)
THEOREM OptInductive == FairORSpec => []OptIInv
<1>1. OptIInv /\ [ORNext]_allvars => OptIInv'
  <2> SUFFICES ASSUME OptIInv, [ORNext]_allvars PROVE OptIInv'
    OBVIOUS
  <2>1. CASE Optimize
    BY <2>1, LocalIInv, EndIInv, PropagateIInv, CountIInv DEF Optimize, LocalPass
  <2>2. CASE Run \/ UNCHANGED allvars
    BY <2>2, RunLooks, LookIInv
  <2> QED BY <2>1, <2>2 DEF ORNext, OptimizeOnly
<1> QED BY InitOpt, <1>1, PTL DEF FairORSpec

(***************************************************************************)
(* Type correctness, for every function and every word size: every         *)
(* constant an operand becomes is a word, and no pass leaves the function. *)
(***************************************************************************)
THEOREM OptTypeOKTheorem == FairORSpec => []OptTypeOK
<1>1. OptIInv => OptTypeOK
  <2> SUFFICES ASSUME OptIInv PROVE OptTypeOK
    OBVIOUS
  <2>1. \A i \in present : \A v \in ToSet(args[i]) : IsConstant(v) => WordOf(v) \in Word
    BY DEF OptIInv, OperandsOK, OperandOK, IsConstant
  <2> QED BY <2>1 DEF OptIInv, OptTypeOK, SetsOK, SetsTypeOK, VisitedOK
<1> QED BY OptInductive, <1>1, PTL

(***************************************************************************)
(* No step of any pass erases an instruction that something uses, or       *)
(* leaves a use before the value (optimizer.cpp:31-140, 260-312).          *)
(***************************************************************************)
THEOREM UsesAreThereTheorem == FairORSpec => []UsesAreThere
<1>1. OptIInv => UsesAreThere
  BY DEF OptIInv, OperandsOK, OperandOK, UsesAreThere
<1> QED BY OptInductive, <1>1, PTL

-----------------------------------------------------------------------------
(***************************************************************************)
(* When the second loop stops                                              *)
(***************************************************************************)

Ended == phase \in {"optimized", "run"}

\* What folding has passed in this round.
Unfolded(i) ==
  \/ Ended
  \/ phase \in {"refold", "redce"} /\ prog[i].bb < bb
  \/ phase = "refold" /\ prog[i].bb = bb /\ i < pc
  \/ phase = "redce" /\ prog[i].bb = bb

FoldProgress == changes = 0 => \A i \in present : Unfolded(i) => ~Foldable(i)

\* What dead code elimination has passed without erasing anything after it.
Swept(i) ==
  \/ Ended
  \/ phase \in {"refold", "redce"} /\ prog[i].bb < bb
  \/ phase = "redce" /\ prog[i].bb = bb /\ i < pc /\ ~again

DeadProgress == \A i \in present : Swept(i) => ~Dead(i)

\* What constant propagation has passed, as long as nothing has been replaced since.
Visible(i) ==
  \/ phase \in {"enter", "sweep"} /\ replaces = 0 /\ prog[i].bb < bb
  \/ phase = "sweep" /\ replaces = 0 /\ prog[i].bb = bb /\ i < pc
  \/ phase = "done" /\ replaces = 0
  \/ phase \in {"refold", "redce", "optimized", "run"} /\ changes = 0

PropagateProgress ==
  \A i \in present : Visible(i) /\ Is(i, "load") => ~Propagatable(i)

Progress ==
  /\ Ended => changes = 0
  /\ FoldProgress /\ DeadProgress /\ PropagateProgress

\* The first loop and the analysis have passed nothing yet.
LEMMA NothingPassed ==
  ASSUME phase' \in {"fold", "cse", "dce", "start", "flow"}
  PROVE  Progress'
BY DEF Progress, Ended, FoldProgress, DeadProgress, PropagateProgress, Unfolded, Swept, Visible

\* The stores are never erased, so what a load can read changes with operands only.
LEMMA SamePropagatable ==
  ASSUME OptIInv, OptIInv', prog' = prog, args' = args, NEW i
  PROVE  Propagatable(i)' <=> Propagatable(i)
<1>1. Stores = StoreSet
  BY DEF OptIInv, IRTypeOK, KeptOK, Stores, StoreSet, Is, Pure
<1>2. Stores' = StoreSet'
  BY DEF OptIInv, IRTypeOK, KeptOK, Stores, StoreSet, Is, Pure
<1>3. Stores' = Stores /\ \A s : ReachedFrom(s)' = ReachedFrom(s)
  BY <1>1, <1>2, SameProgram
<1>4. {s \in Stores : SameVar(s, i) /\ i \in ReachedFrom(s)}' =
        {s \in Stores : SameVar(s, i) /\ i \in ReachedFrom(s)}
  BY <1>3 DEF SameVar
<1> QED BY <1>4 DEF Propagatable

\* Folding leaves the uses of the other instructions.
LEMMA FoldProgresses == OptIInv /\ Progress /\ FoldInstr => Progress'
<1> SUFFICES ASSUME OptIInv, Progress, FoldInstr PROVE Progress'
  OBVIOUS
<1>1. CASE phase = "fold"
  BY <1>1, NothingPassed DEF FoldInstr, StepOn
<1>2. CASE phase = "refold"
  <2>1. /\ phase' = "refold" /\ bb' = bb /\ UNCHANGED <<prog, present>>
        /\ args' = Replaced(args, pc, Value(pc)) /\ changes' = changes + 1 /\ changes' # 0
    BY <1>2 DEF FoldInstr, StepOn, OptIInv
  <2>2. prog[pc].bb = bb /\ args \in [DOMAIN prog -> Seq(Int)] /\ present \subseteq DOMAIN prog
    BY <1>2 DEF OptIInv, PlaceOK, LocalPhases, InstrsOf, IRTypeOK
  <2>3. bb \in Nat /\ \A i \in present : prog[i].bb \in Nat
    BY ProgramFacts DEF OptIInv, IRTypeOK, SetsOK, SetsTypeOK
  <2>4. DeadProgress'
    <3> SUFFICES ASSUME NEW i \in present, prog[i].bb < bb, Dead(i)' PROVE FALSE
      BY <2>1, <1>2 DEF DeadProgress, Swept, Ended
    <3>1. i # pc /\ Pure(i)
      BY <2>1, <2>2, <2>3 DEF Dead, Pure
    <3>2. ~Dead(i)
      BY <1>2 DEF Progress, DeadProgress, Swept
    <3>3. PICK j \in present : i \in ToSet(args[j])
      BY <3>1, <3>2 DEF Dead, Used
    <3>4. i \in ToSet(args'[j])
      BY <2>1, <2>2, <3>1, <3>3, ReplacedOperands
    <3> QED BY <3>3, <3>4, <2>1 DEF Dead, Used
  <2> QED BY <2>1, <2>4 DEF Progress, Ended, FoldProgress, PropagateProgress, Visible
<1> QED BY <1>1, <1>2 DEF FoldInstr, Folding

\* What is erased was used by nothing, and used only what is in its own block.
LEMMA EraseProgresses == OptIInv /\ OptIInv' /\ Progress /\ EraseInstr => Progress'
<1> SUFFICES ASSUME OptIInv, OptIInv', Progress, EraseInstr PROVE Progress'
  OBVIOUS
<1>1. CASE phase = "dce"
  BY <1>1, NothingPassed DEF EraseInstr, StepOn
<1>2. CASE phase = "redce"
  <2>1. /\ phase' = "redce" /\ bb' = bb /\ UNCHANGED <<prog, args, changes, replaces>>
        /\ again' = TRUE /\ present' = present \ {pc}
    BY <1>2 DEF EraseInstr, StepOn
  <2>2. prog[pc].bb = bb /\ present \subseteq DOMAIN prog /\ DOMAIN prog \subseteq Nat \ {0}
        /\ bb \in Nat /\ pc \in present /\ \A i \in present : prog[i].bb \in Nat
    BY <1>2, ProgramFacts
       DEF OptIInv, PlaceOK, LocalPhases, InstrsOf, IRTypeOK, SetsOK, SetsTypeOK
  <2>3. DeadProgress'
    <3> SUFFICES ASSUME NEW i \in present', prog[i].bb < bb, Dead(i)' PROVE FALSE
      BY <2>1, <1>2 DEF DeadProgress, Swept, Ended
    <3>1. i \in present /\ Pure(i)
      BY <2>1 DEF Dead, Pure
    <3>2. ~Dead(i)
      BY <3>1, <1>2 DEF Progress, DeadProgress, Swept
    <3>3. PICK j \in present : i \in ToSet(args[j])
      BY <3>1, <3>2 DEF Dead, Used
    <3>4. j = pc
      BY <2>1, <3>3 DEF Dead, Used
    <3>5. prog[i].bb = prog[pc].bb
      BY <3>1, <3>3, <3>4, <2>2 DEF OptIInv, OperandsOK, OperandOK
    <3> QED BY <3>1, <3>5, <2>2
  <2>4. FoldProgress'
    BY <2>1, <1>2 DEF Progress, FoldProgress, Unfolded, Foldable, Is, IsConstant, Ended
  <2>5. PropagateProgress'
    <3>1. \A i : Propagatable(i)' <=> Propagatable(i)
      BY <2>1, SamePropagatable
    <3> QED BY <3>1, <2>1, <1>2 DEF Progress, PropagateProgress, Visible, Is
  <2> QED BY <2>1, <2>3, <2>4, <2>5 DEF Progress, Ended
<1> QED BY <1>1, <1>2 DEF EraseInstr, Erasing

\* A pass goes past what it leaves as it is.
LEMMA SkipProgresses == OptIInv /\ OptIInv' /\ Progress /\ SkipInstr => Progress'
<1> SUFFICES ASSUME OptIInv, OptIInv', Progress, SkipInstr PROVE Progress'
  OBVIOUS
<1>1. /\ UNCHANGED <<phase, bb, prog, args, present, replaces, visited, again, changes>> /\ ~AtEnd
      /\ StepOn /\ phase \in LocalPhases
      /\ phase = "refold" => ~Foldable(pc)
      /\ phase = "redce" => ~Dead(pc)
  BY DEF SkipInstr, StepOn, irvars, localvars, Folding, Erasing, LocalPhases
<1>2. \A j \in present : j < pc' => j < pc \/ j = pc
  <2>1. present \subseteq DOMAIN prog /\ DOMAIN prog \subseteq Nat /\ pc \in Nat
    BY ProgramFacts DEF OptIInv, IRTypeOK, SetsOK, SetsTypeOK
  <2>2. EndOf(bb) \in present /\ pc < EndOf(bb) /\ prog[EndOf(bb)].bb = bb
    BY <1>1, PureFollowed
  <2>3. \A j \in present : j < pc' => j <= pc
    BY <1>1, <2>1, <2>2, StepOnFacts
  <2> QED BY <2>1, <2>3
<1>3. \A i : (Foldable(i)' <=> Foldable(i)) /\ (Dead(i)' <=> Dead(i))
  BY <1>1 DEF Foldable, Dead, Pure, Used, Is
<1>4. FoldProgress'
  BY <1>1, <1>2, <1>3 DEF Progress, FoldProgress, Unfolded, Ended
<1>5. DeadProgress'
  BY <1>1, <1>2, <1>3 DEF Progress, DeadProgress, Swept, Ended
<1>6. PropagateProgress'
  <2>1. \A i : Propagatable(i)' <=> Propagatable(i)
    BY <1>1, SamePropagatable
  <2> QED BY <2>1, <1>1 DEF Progress, PropagateProgress, Visible, Is, LocalPhases
<1> QED BY <1>1, <1>4, <1>5, <1>6 DEF Progress, Ended

\* Every instruction is in a block up to the last one; those of a block end at its end.
LEMMA PassedBlocks ==
  ASSUME WellFormed(prog), bb \in Blocks
  PROVE  /\ LastBlock => \A i \in DOMAIN prog : prog[i].bb <= bb
         /\ \A i \in DOMAIN prog : prog[i].bb < bb + 1 => prog[i].bb < bb \/ prog[i].bb = bb
         /\ \A i \in DOMAIN prog : prog[i].bb <= bb => prog[i].bb < bb \/ prog[i].bb = bb
         /\ \A i \in DOMAIN prog : ~(prog[i].bb < 1)
<1>1. bb \in Nat /\ N \in Nat /\ Blocks = 1 .. N /\ \A i \in DOMAIN prog : prog[i].bb \in 1 .. N
  BY ProgramFacts
<1> QED BY <1>1 DEF LastBlock, N

\* The end of a walk over a block, with nothing erased in it, passes the block.
LEMMA EndProgresses ==
  OptIInv /\ OptIInv' /\ Progress /\ EndOfBlock("start", AfterRound) => Progress'
<1> SUFFICES ASSUME OptIInv, OptIInv', Progress, EndOfBlock("start", AfterRound) PROVE Progress'
  OBVIOUS
<1>1. /\ UNCHANGED <<prog, args, present, replaces, changes>> /\ AtEnd /\ again' = FALSE
      /\ WellFormed(prog) /\ present \subseteq DOMAIN prog /\ bb \in Blocks
      /\ pc \in InstrsOf(bb) /\ changes \in Nat
  BY DEF EndOfBlock, EndPass, Begin, OptIInv, IRTypeOK, irvars, SetsOK, SetsTypeOK, PlaceOK,
         LocalPhases
<1>2. \A i : /\ Foldable(i)' <=> Foldable(i)
             /\ Dead(i)' <=> Dead(i)
             /\ Propagatable(i)' <=> Propagatable(i)
  BY <1>1, SamePropagatable DEF Foldable, Dead, Pure, Used, Is
<1>3. EndOf(bb) \in DOMAIN prog /\ prog[EndOf(bb)].bb = bb /\ prog[EndOf(bb)].op \in Terminators
      /\ \A i \in DOMAIN prog : prog[i].bb = bb => i <= EndOf(bb)
  BY <1>1, BlockFacts
<1>4. pc = EndOf(bb) /\ DOMAIN prog \subseteq Nat
  BY <1>1, <1>3, ProgramFacts DEF AtEnd, InstrsOf
<1>5. ~Foldable(pc) /\ ~Dead(pc)
  BY <1>3, <1>4 DEF Foldable, Dead, Pure, Is, Terminators
<1>6. \A i \in present : prog[i].bb = bb => i < pc \/ i = pc
  BY <1>1, <1>3, <1>4
<1>7. CASE phase \in {"fold", "cse", "dce"}
  BY <1>7, NothingPassed DEF EndOfBlock, EndPass, Begin
<1>8. CASE phase = "refold"
  <2>1. phase' = "redce" /\ bb' = bb
    BY <1>8 DEF EndOfBlock, Begin
  <2>2. FoldProgress'
    BY <2>1, <1>8, <1>1, <1>2, <1>5, <1>6 DEF Progress, FoldProgress, Unfolded, Ended
  <2>3. DeadProgress'
    <3> SUFFICES ASSUME NEW i \in present, Swept(i)' PROVE ~Dead(i)
      BY <1>1, <1>2 DEF DeadProgress
    <3>1. CASE prog[i].bb < bb
      BY <3>1, <1>8 DEF Progress, DeadProgress, Swept
    <3>2. CASE prog[i].bb = bb /\ i < pc'
      <4>1. pc' = Min(InstrsOf(bb)) /\ i \in InstrsOf(bb)
        BY <3>2, <1>8 DEF EndOfBlock, Begin, InstrsOf
      <4>2. pc' <= i /\ pc' \in DOMAIN prog
        BY <4>1, <1>1, FirstThere DEF InstrsOf
      <4> QED BY <4>2, <3>2, <1>1, <1>4
    <3> QED BY <3>1, <3>2, <2>1, <1>1 DEF Swept, Ended
  <2>4. PropagateProgress'
    BY <2>1, <1>8, <1>1, <1>2 DEF Progress, PropagateProgress, Visible, Is
  <2> QED BY <2>1, <2>2, <2>3, <2>4 DEF Progress, Ended
<1>9. CASE phase = "redce"
  <2>1. CASE again
    <3>1. phase' = "redce" /\ bb' = bb /\ pc' = Min(InstrsOf(bb))
      BY <1>9, <2>1 DEF EndOfBlock, EndPass, Begin
    <3>2. FoldProgress'
      BY <3>1, <1>9, <1>1, <1>2 DEF Progress, FoldProgress, Unfolded, Ended
    <3>3. \A i \in present : prog[i].bb = bb => ~(i < pc')
      <4> SUFFICES ASSUME NEW i \in present, prog[i].bb = bb PROVE ~(i < pc')
        OBVIOUS
      <4>1. pc' <= i /\ pc' \in DOMAIN prog
        BY <3>1, <1>1, FirstThere DEF InstrsOf
      <4> QED BY <4>1, <1>1, <1>4
    <3>4. DeadProgress'
      BY <3>1, <3>3, <1>9, <1>1, <1>2 DEF Progress, DeadProgress, Swept, Ended
    <3>5. PropagateProgress'
      BY <3>1, <1>9, <1>1, <1>2 DEF Progress, PropagateProgress, Visible, Is
    <3> QED BY <3>1, <3>2, <3>4, <3>5 DEF Progress, Ended
  <2>2. CASE ~again /\ LastBlock
    <3>1. phase' = AfterRound
      BY <1>9, <2>2 DEF EndOfBlock, EndPass, Begin
    <3>2. CASE changes > 0
      BY <3>1, <3>2, NothingPassed DEF AfterRound
    <3>3. CASE ~(changes > 0)
      <4>1. phase' = "optimized" /\ changes = 0
        BY <3>1, <3>3, <1>1 DEF AfterRound
      <4>2. \A i \in present : prog[i].bb < bb \/ prog[i].bb = bb
        BY <2>2, <1>1, PassedBlocks
      <4>3. FoldProgress'
        BY <4>1, <4>2, <1>1, <1>2, <1>9 DEF Progress, FoldProgress, Unfolded
      <4>4. DeadProgress'
        BY <4>1, <4>2, <1>1, <1>2, <1>5, <1>6, <1>9, <2>2 DEF Progress, DeadProgress, Swept
      <4>5. PropagateProgress'
        BY <4>1, <1>1, <1>2, <1>9 DEF Progress, PropagateProgress, Visible, Is
      <4> QED BY <4>1, <4>3, <4>4, <4>5, <1>1 DEF Progress
    <3> QED BY <3>2, <3>3
  <2>3. CASE ~again /\ ~LastBlock
    <3>1. phase' = "refold" /\ bb' = bb + 1 /\ pc' = Min(InstrsOf(bb + 1))
      BY <1>9, <2>3 DEF EndOfBlock, EndPass, Begin
    <3>2. \A i \in present : prog[i].bb < bb' => prog[i].bb < bb \/ prog[i].bb = bb
      BY <3>1, <1>1, PassedBlocks
    <3>3. bb + 1 \in Blocks
      BY <2>3, <1>1, ProgramFacts DEF LastBlock, N
    <3>4. \A i \in present : prog[i].bb = bb' => ~(i < pc')
      <4> SUFFICES ASSUME NEW i \in present, prog[i].bb = bb + 1 PROVE ~(i < pc')
        BY <3>1
      <4>1. pc' <= i /\ pc' \in DOMAIN prog
        BY <3>1, <3>3, <1>1, FirstThere DEF InstrsOf
      <4> QED BY <4>1, <1>1, <1>4
    <3>5. FoldProgress'
      BY <3>1, <3>2, <3>4, <1>9, <1>1, <1>2 DEF Progress, FoldProgress, Unfolded, Ended
    <3>6. DeadProgress'
      BY <3>1, <3>2, <1>9, <2>3, <1>1, <1>2, <1>5, <1>6 DEF Progress, DeadProgress, Swept, Ended
    <3>7. PropagateProgress'
      BY <3>1, <1>9, <1>1, <1>2 DEF Progress, PropagateProgress, Visible, Is
    <3> QED BY <3>1, <3>5, <3>6, <3>7 DEF Progress, Ended
  <2> QED BY <2>1, <2>2, <2>3
<1> QED BY <1>7, <1>8, <1>9 DEF EndOfBlock

LEMMA ShareProgresses == OptIInv /\ Progress /\ (ShareInstr \/ VisitInstr) => Progress'
BY NothingPassed DEF ShareInstr, VisitInstr, StepOn

\* The loads that constant propagation has not replaced in a whole sweep.
LEMMA CountProgresses == OptIInv /\ OptIInv' /\ Progress /\ CountReplaces => Progress'
<1> SUFFICES ASSUME OptIInv, OptIInv', Progress, CountReplaces PROVE Progress'
  OBVIOUS
<1>1. /\ UNCHANGED <<prog, args, present, replaces>> /\ phase = "done" /\ phase' = "refold"
      /\ changes' = replaces /\ bb' = 1 /\ pc' = Min(InstrsOf(1))
      /\ WellFormed(prog) /\ 1 \in Blocks /\ bb \in Blocks /\ present \subseteq DOMAIN prog
      /\ DOMAIN prog \subseteq Nat
  BY ProgramFacts DEF CountReplaces, Begin, irvars, OptIInv, IRTypeOK, SetsOK, SetsTypeOK
<1>2. \A i \in present : ~(prog[i].bb < 1)
  BY <1>1, PassedBlocks
<1>3. \A i \in present : prog[i].bb = 1 => ~(i < pc')
  <2> SUFFICES ASSUME NEW i \in present, prog[i].bb = 1 PROVE ~(i < pc')
    OBVIOUS
  <2>1. pc' <= i /\ pc' \in DOMAIN prog
    BY <1>1, FirstThere DEF InstrsOf
  <2> QED BY <2>1, <1>1
<1>4. \A i : Propagatable(i)' <=> Propagatable(i)
  BY <1>1, SamePropagatable
<1>5. FoldProgress' /\ DeadProgress'
  BY <1>1, <1>2, <1>3 DEF FoldProgress, DeadProgress, Unfolded, Swept, Ended
<1>6. PropagateProgress'
  BY <1>1, <1>4 DEF Progress, PropagateProgress, Visible, Is
<1> QED BY <1>1, <1>5, <1>6 DEF Progress, Ended

\* Outside the second loop nothing is claimed of folding and dead code.
LEMMA OutsideLoop ==
  ASSUME phase' \in {"enter", "sweep", "done"}, PropagateProgress'
  PROVE  Progress'
BY DEF Progress, Ended, FoldProgress, DeadProgress, Unfolded, Swept

\* A load is kept when no constant is stored by all the stores that reach it.
LEMMA KeptLoad == OptIInv /\ KeepLoad => ~Propagatable(pc)
<1> SUFFICES ASSUME OptIInv, KeepLoad, Propagatable(pc) PROVE FALSE
  OBVIOUS
<1>1. phase = "sweep" /\ \A c \in Stored : ~AllStore(c)
  BY DEF KeepLoad, Sweeping
<1>2. Stores = StoreSet
  BY DEF OptIInv, IRTypeOK, KeptOK, Stores, StoreSet, Is, Pure
<1>3. Writes = {s \in Stores : SameVar(s, pc) /\ pc \in ReachedFrom(s)}
  BY <1>1, <1>2 DEF OptIInv, SetsOK, SweepExact, Writes
<1>4. PICK c \in {args[s][1] : s \in Writes} :
        IsConstant(c) /\ \A s \in Writes : args[s][1] = c
  BY <1>3 DEF Propagatable
<1>5. c \in Stored /\ AllStore(c)
  BY <1>4 DEF Stored, AllStore
<1> QED BY <1>1, <1>5

\* A step of the sweep that replaces nothing adds the instruction to what it has passed.
LEMMA SweepProgresses ==
  ASSUME OptIInv, OptIInv', Progress, phase = "sweep", NEW loads, Advance(loads),
         UNCHANGED <<prog, args, replaces>>, pc \in present /\ Is(pc, "load") => ~Propagatable(pc)
  PROVE  Progress'
<1>1. /\ WellFormed(prog) /\ present \subseteq DOMAIN prog /\ pc \in DOMAIN prog /\ bb \in Blocks
      /\ DOMAIN prog = 1 .. Len(prog) /\ Len(prog) \in Nat /\ prog[pc].bb = bb
  BY ProgramFacts DEF OptIInv, IRTypeOK, SetsOK, SetsTypeOK, ShapeOK
<1>2. \A i : Propagatable(i)' <=> Propagatable(i)
  BY SamePropagatable
<1>3. \A i \in present : prog[i].bb < bb /\ replaces = 0 /\ Is(i, "load") => ~Propagatable(i)
  BY DEF Progress, PropagateProgress, Visible
<1>4. \A i \in present :
        prog[i].bb = bb /\ (i < pc \/ i = pc) /\ replaces = 0 /\ Is(i, "load") => ~Propagatable(i)
  BY DEF Progress, PropagateProgress, Visible
<1>5. CASE pc + 1 \in DOMAIN prog /\ prog[pc + 1].bb = bb
  <2>1. phase' = "sweep" /\ bb' = bb /\ present' = present /\ pc' = pc + 1
    BY <1>5 DEF Advance
  <2>2. \A i \in present : i < pc' => i < pc \/ i = pc
    BY <2>1, <1>1
  <2>3. PropagateProgress'
    BY <2>1, <2>2, <1>2, <1>3, <1>4 DEF PropagateProgress, Visible, Is
  <2> QED BY <2>1, <2>3, OutsideLoop
<1>6. CASE ~(pc + 1 \in DOMAIN prog /\ prog[pc + 1].bb = bb)
  <2>1. /\ present' \subseteq present
        /\ \/ LastBlock /\ phase' = "done"
           \/ ~LastBlock /\ phase' = "enter" /\ bb' = bb + 1
    BY <1>6 DEF Advance
  <2>2. prog[pc].op \in Terminators
    BY <1>1, <1>6 DEF WellFormed
  <2>3. \A i \in present : prog[i].bb = bb => i < pc \/ i = pc
    <3>1. \A i \in present : prog[i].bb = bb => i <= pc
      BY <2>2, <1>1, BlockFacts
    <3> QED BY <3>1, <1>1
  <2>4. \A i \in present :
          prog[i].bb = bb /\ replaces = 0 /\ Is(i, "load") => ~Propagatable(i)
    BY <2>3, <1>4
  <2>5. LastBlock => \A i \in present : prog[i].bb < bb \/ prog[i].bb = bb
    BY <1>1, PassedBlocks
  <2>6. \A i \in present : prog[i].bb < bb + 1 => prog[i].bb < bb \/ prog[i].bb = bb
    BY <1>1, PassedBlocks
  <2>7. PropagateProgress'
    BY <2>1, <2>4, <2>5, <2>6, <1>2, <1>3 DEF PropagateProgress, Visible, Is
  <2> QED BY <2>1, <2>7, OutsideLoop
<1> QED BY <1>5, <1>6

LEMMA PropagateProgresses == OptIInv /\ OptIInv' /\ Progress /\ PropagateConstants => Progress'
<1> SUFFICES ASSUME OptIInv, OptIInv', Progress, Propagate, UNCHANGED localvars PROVE Progress'
  BY DEF PropagateConstants
<1>1. /\ WellFormed(prog) /\ present \subseteq DOMAIN prog /\ bb \in Blocks /\ 1 \in Blocks
      /\ DOMAIN prog \subseteq Nat /\ replaces \in Nat
  BY ProgramFacts DEF OptIInv, IRTypeOK, SetsOK, SetsTypeOK
<1>2. CASE CPStart
  BY <1>2, NothingPassed DEF CPStart
<1>3. CASE FlowBlock
  <2>1. CASE phase' = "flow"
    BY <2>1, NothingPassed
  <2>2. CASE phase' # "flow"
    <3>1. phase' = "enter" /\ bb' = 1 /\ UNCHANGED <<prog, present>>
      BY <1>3, <2>2 DEF FlowBlock, irvars
    <3>2. \A i \in present : ~(prog[i].bb < 1)
      BY <1>1, PassedBlocks
    <3>3. PropagateProgress'
      BY <3>1, <3>2 DEF PropagateProgress, Visible
    <3> QED BY <3>1, <3>3, OutsideLoop
  <2> QED BY <2>1, <2>2
<1>4. CASE EnterSweep
  <2>1. /\ UNCHANGED <<prog, args, present, bb, replaces>> /\ phase = "enter" /\ phase' = "sweep"
        /\ pc' = FirstOf(bb)
    BY <1>4 DEF EnterSweep, irvars
  <2>2. \A i \in present : prog[i].bb = bb => ~(i < pc')
    <3> SUFFICES ASSUME NEW i \in present, prog[i].bb = bb PROVE ~(i < FirstOf(bb))
      BY <2>1
    <3>1. FirstOf(bb) <= i /\ FirstOf(bb) \in DOMAIN prog
      BY <1>1, BlockFacts, ProgramFacts
    <3> QED BY <3>1, <1>1
  <2>3. \A i : Propagatable(i)' <=> Propagatable(i)
    BY <2>1, SamePropagatable
  <2>4. PropagateProgress'
    BY <2>1, <2>2, <2>3 DEF Progress, PropagateProgress, Visible, Is
  <2> QED BY <2>1, <2>4, OutsideLoop
<1>5. CASE SweepStore
  <2>1. ~Is(pc, "load")
    BY <1>5 DEF SweepStore, Sweeping, Is
  <2> QED BY <1>5, <2>1, SweepProgresses DEF SweepStore, Sweeping
<1>6. CASE KeepLoad
  BY <1>6, KeptLoad, SweepProgresses DEF KeepLoad, Sweeping
<1>7. CASE SweepOther
  BY <1>7, SweepProgresses DEF SweepOther, Sweeping
<1>8. CASE ReplaceLoad
  <2>1. phase = "sweep" /\ replaces' = replaces + 1 /\ replaces' # 0
    BY <1>8, <1>1 DEF ReplaceLoad, Sweeping
  <2>2. phase' \in {"sweep", "enter", "done"}
    BY <1>8, <2>1 DEF ReplaceLoad, Advance
  <2>3. PropagateProgress'
    BY <2>1, <2>2 DEF PropagateProgress, Visible
  <2> QED BY <2>2, <2>3, OutsideLoop
<1> QED BY <1>2, <1>3, <1>4, <1>5, <1>6, <1>7, <1>8 DEF Propagate

LEMMA LookProgresses == OptIInv /\ OptIInv' /\ Progress /\ Looks => Progress'
<1> SUFFICES ASSUME OptIInv, OptIInv', Progress, Looks PROVE Progress'
  OBVIOUS
<1>1. /\ UNCHANGED <<prog, args, present, bb, pc, replaces, again, changes>>
      /\ phase' = phase \/ (phase = "optimized" /\ phase' = "run")
  BY DEF Looks, irvars, sweep, localvars
<1>2. \A i : /\ Foldable(i)' <=> Foldable(i)
             /\ Dead(i)' <=> Dead(i)
             /\ Propagatable(i)' <=> Propagatable(i)
  BY <1>1, SamePropagatable DEF Foldable, Dead, Pure, Used, Is
<1>3. Ended' <=> Ended
  BY <1>1 DEF Ended
<1>4. \A i : /\ Unfolded(i)' <=> Unfolded(i)
             /\ Swept(i)' <=> Swept(i)
             /\ Visible(i)' <=> Visible(i)
  BY <1>1, <1>3 DEF Unfolded, Swept, Visible
<1> QED BY <1>1, <1>2, <1>3, <1>4
        DEF Progress, FoldProgress, DeadProgress, PropagateProgress, Is

THEOREM Progresses == FairORSpec => [](OptIInv /\ Progress)
<1>1. ORInit => Progress
  BY DEF ORInit, OptInit, Progress, Ended, FoldProgress, DeadProgress, PropagateProgress, Unfolded,
         Swept, Visible
<1>2. OptIInv /\ OptIInv' /\ Progress /\ [ORNext]_allvars => Progress'
  <2> SUFFICES ASSUME OptIInv, OptIInv', Progress, [ORNext]_allvars PROVE Progress'
    OBVIOUS
  <2>1. CASE Optimize
    BY <2>1, FoldProgresses, ShareProgresses, EraseProgresses, SkipProgresses, EndProgresses,
       PropagateProgresses, CountProgresses
       DEF Optimize, LocalPass, LocalStep
  <2>2. CASE Run \/ UNCHANGED allvars
    BY <2>2, RunLooks, LookProgresses
  <2> QED BY <2>1, <2>2 DEF ORNext, OptimizeOnly
<1> QED BY OptInductive, <1>1, <1>2, PTL DEF FairORSpec

(***************************************************************************)
(* When the loop of optimize_ir (optimizer.cpp:324-340) stops, no pass has *)
(* anything left to do, although the last round has run each of them once  *)
(* only and looked at no block again.                                      *)
(***************************************************************************)
THEOREM SettledTheorem == FairORSpec => []Settled
<1>1. OptIInv /\ Progress => Settled
  BY DEF Progress, FoldProgress, DeadProgress, PropagateProgress, Unfolded, Swept, Visible, Ended,
         Settled
<1> QED BY Progresses, <1>1, PTL

-----------------------------------------------------------------------------
(***************************************************************************)
(* What the backend gets                                                   *)
(***************************************************************************)

Kept == Cardinality(present)
InstrAt(p) == CHOOSE i \in present : Place(i) = p

\* Numbering anew keeps the order and leaves no gap.
LEMMA PlaceFacts ==
  ASSUME WellFormed(prog), present \subseteq DOMAIN prog
  PROVE  /\ Kept \in Nat
         /\ \A i \in present : Place(i) \in 1 .. Kept /\ InstrAt(Place(i)) = i
         /\ \A i, j \in present : i < j => Place(i) < Place(j)
         /\ \A p \in 1 .. Kept : InstrAt(p) \in present /\ Place(InstrAt(p)) = p
<1>1. DOMAIN prog = 1 .. Len(prog) /\ Len(prog) \in Nat /\ present \subseteq Nat \ {0}
  BY ProgramFacts
<1>2. IsFiniteSet(present) /\ Kept \in Nat
  <2>1. IsFiniteSet(DOMAIN prog)
    BY <1>1, FS_Interval
  <2> QED BY <2>1, FS_Subset, FS_CardinalityType DEF Kept
<1> DEFINE Upto(i) == {j \in present : j <= i}
<1>3. \A i : /\ IsFiniteSet(Upto(i)) /\ Cardinality(Upto(i)) \in Nat
             /\ Cardinality(Upto(i)) <= Kept
  BY <1>2, FS_Subset, FS_CardinalityType DEF Kept
<1>4. \A i \in present : Place(i) = Cardinality(Upto(i))
  BY <1>1 DEF Place
<1>5. \A i \in present : i \in Upto(i)
  BY <1>1
<1>6. \A i, j \in present : i < j => Upto(i) \subseteq Upto(j) /\ j \notin Upto(i)
  BY <1>1
<1> HIDE DEF Upto
<1>7. \A i \in present : Place(i) \in 1 .. Kept
  <2> SUFFICES ASSUME NEW i \in present PROVE Place(i) \in 1 .. Kept
    OBVIOUS
  <2>1. Cardinality(Upto(i)) # 0
    BY <1>3, <1>5, FS_EmptySet
  <2> QED BY <2>1, <1>2, <1>3, <1>4
<1>8. \A i, j \in present : i < j => Place(i) < Place(j)
  <2> SUFFICES ASSUME NEW i \in present, NEW j \in present, i < j PROVE Place(i) < Place(j)
    OBVIOUS
  <2>1. Upto(i) \in SUBSET Upto(j) /\ Upto(i) # Upto(j)
    BY <1>5, <1>6
  <2>2. Cardinality(Upto(i)) <= Cardinality(Upto(j)) /\ Cardinality(Upto(i)) # Cardinality(Upto(j))
    BY <2>1, <1>3, FS_Subset
  <2> QED BY <2>2, <1>3, <1>4
<1>9. \A i, j \in present : Place(i) = Place(j) => i = j
  <2> SUFFICES ASSUME NEW i \in present, NEW j \in present, Place(i) = Place(j) PROVE i = j
    OBVIOUS
  <2>1. i \in Nat /\ j \in Nat /\ Place(i) \in Nat /\ Place(j) \in Nat
    BY <1>1, <1>7
  <2>2. ~(i < j) /\ ~(j < i)
    BY <2>1, <1>8
  <2> QED BY <2>1, <2>2
<1>10. \A p \in 1 .. Kept : \E i \in present : Place(i) = p
  <2> DEFINE f == [i \in present |-> Place(i)]
  <2>1. f \in Injection(present, 1 .. Kept)
    BY <1>7, <1>9 DEF Injection, IsInjective
  <2>2. IsFiniteSet(1 .. Kept) /\ Cardinality(1 .. Kept) = Kept
    BY <1>2, FS_Interval
  <2> HIDE DEF f
  <2>3. f \in Surjection(present, 1 .. Kept)
    BY <2>1, <2>2, FS_Injection DEF Kept
  <2> QED BY <2>3 DEF Surjection, f
<1> QED BY <1>2, <1>7, <1>8, <1>9, <1>10 DEF InstrAt

\* What stands at place p of the optimized function.
LEMMA OptimizedFacts ==
  ASSUME OptIInv
  PROVE  /\ Optimized = [p \in 1 .. Kept |-> Renumbered(InstrAt(p))]
         /\ \A i \in present :
              /\ Renumbered(i) \in Backend!Instr
              /\ Renumbered(i).bb = prog[i].bb
              /\ Renumbered(i).op = IF Decided(i) THEN "constbr" ELSE prog[i].op
              /\ Renumbered(i).args = IF Decided(i) THEN <<>>
                                      ELSE [k \in DOMAIN args[i] |-> Place(args[i][k])]
<1>1. Optimized = [p \in 1 .. Kept |-> Renumbered(InstrAt(p))]
  BY DEF Optimized, Kept, InstrAt
<1>2. /\ WellFormed(prog) /\ present \subseteq DOMAIN prog /\ args \in [DOMAIN prog -> Seq(Int)]
      /\ prog \in Seq(Instruction)
  BY DEF OptIInv, IRTypeOK, WellFormed
<1>3. ASSUME NEW i \in present
      PROVE  /\ Renumbered(i) \in Backend!Instr
             /\ Renumbered(i).bb = prog[i].bb
             /\ Renumbered(i).op = IF Decided(i) THEN "constbr" ELSE prog[i].op
             /\ Renumbered(i).args = IF Decided(i) THEN <<>>
                                     ELSE [k \in DOMAIN args[i] |-> Place(args[i][k])]
  <2> DEFINE a == IF Decided(i) THEN <<>> ELSE [k \in DOMAIN args[i] |-> Place(args[i][k])]
  <2> DEFINE o == IF Decided(i) THEN "constbr" ELSE prog[i].op
  <2> DEFINE s == IF Decided(i) THEN Taken(i) ELSE prog[i].sym
  <2>1. prog[i] \in Instruction
    BY <1>2
  <2>2. prog[i] \in [op : Ops, args : Seq(Int), sym : Syms, succ : Seq(Nat), bb : Nat]
    BY <2>1 DEF Instruction
  <2>3. \A v \in Int : Place(v) \in Int
    <3> SUFFICES ASSUME NEW v \in Int, v > 0 PROVE Place(v) \in Int
      BY DEF Place
    <3>0. DOMAIN prog = 1 .. Len(prog) /\ Len(prog) \in Nat
      BY <1>2, ProgramFacts
    <3>1. IsFiniteSet(DOMAIN prog)
      BY <3>0, FS_Interval
    <3>2. IsFiniteSet({j \in present : j <= v})
      BY <3>1, <1>2, FS_Subset
    <3> QED BY <3>2, FS_CardinalityType DEF Place
  <2>4. a \in Seq(Int)
    <3>1. args[i] \in Seq(Int)
      BY <1>2
    <3>2. DOMAIN args[i] = 1 .. Len(args[i]) /\ Len(args[i]) \in Nat
          /\ \A k \in DOMAIN args[i] : args[i][k] \in Int
      BY <3>1
    <3> DEFINE n == Len(args[i])
    <3> DEFINE t == [k \in 1 .. n |-> Place(args[i][k])]
    <3>3. \A k \in 1 .. n : Place(args[i][k]) \in Int
      BY <3>2, <2>3
    <3>4. t \in [1 .. n -> Int] /\ n \in Nat
      BY <3>2, <3>3
    <3>5. t = [k \in DOMAIN args[i] |-> Place(args[i][k])]
      BY <3>2
    <3> HIDE DEF t, n
    <3>6. t \in Seq(Int)
      BY <3>4
    <3> QED BY <3>5, <3>6
  <2>5. Renumbered(i) = [prog[i] EXCEPT !.op = o, !.sym = s, !.args = a]
    BY <2>2 DEF Renumbered
  <2>6. o \in Backend!ValueOps \cup Backend!SinkOps
    BY <2>2 DEF Backend!ValueOps, Backend!SinkOps, Ops
  <2>8. s \in Syms \cup {"true", "false"}
    BY <2>2 DEF Taken
  <2> HIDE DEF a, o, s
  <2>7. /\ Renumbered(i) \in Backend!Instr
        /\ Renumbered(i).bb = prog[i].bb /\ Renumbered(i).op = o /\ Renumbered(i).args = a
    BY <2>2, <2>4, <2>5, <2>6, <2>8 DEF Backend!Instr
  <2> QED BY <2>7 DEF a, o
<1> QED BY <1>1, <1>3

\* Each of the values that is left has a use that is left, not one of a decided branch.
LEMMA ValuesUsed ==
  ASSUME OptIInv, DeadProgress, Ended, NEW i \in present, prog[i].op \in ValueOps
  PROVE  \E j \in present : ~Decided(j) /\ i \in ToSet(args[j])
<1>1. \E j \in present : i \in ToSet(args[j])
  <2>1. CASE Is(i, "read")
    BY <2>1 DEF OptIInv, IRTypeOK, ReadsOK, KeptOK, Pure, Is
  <2>2. CASE ~Is(i, "read")
    <3>1. Pure(i)
      BY <2>2 DEF Pure, ValueOps, Is
    <3> QED BY <3>1 DEF DeadProgress, Swept, Dead, Used
  <2> QED BY <2>1, <2>2
<1>2. PICK j \in present : i \in ToSet(args[j])
  BY <1>1
<1>3. /\ WellFormed(prog) /\ j \in DOMAIN prog /\ i \in DOMAIN prog /\ args[j] \in Seq(Int)
      /\ Len(args[j]) = Len(prog[j].args) /\ i \in Int /\ i > 0
  BY ProgramFacts DEF OptIInv, IRTypeOK, SetsOK, ShapeOK
<1>4. ~Decided(j)
  <2> SUFFICES ASSUME Is(j, "condbr"), args[j][1] < 0 PROVE FALSE
    BY DEF Decided, IsConstant
  <2>1. Len(args[j]) = 1
    BY <1>3 DEF WellFormed, Is
  <2>2. DOMAIN args[j] = 1 .. 1
    BY <2>1, <1>3
  <2>3. i = args[j][1]
    BY <2>2, <1>2 DEF ToSet
  <2> QED BY <2>3, <1>3
<1> QED BY <1>2, <1>4

(***************************************************************************)
(* Every function that optimize_ir hands over is one that alloc_registers  *)
(* can work on: it gives each value a live range in its block, and reads   *)
(* only operands that have one (backend.cpp:12-60).                        *)
(***************************************************************************)
THEOREM FitsBackendTheorem == FairORSpec => []FitsBackend
<1>1. OptIInv /\ Progress => FitsBackend
  <2> SUFFICES ASSUME OptIInv, Progress, phase = "optimized" PROVE Backend!WellFormed(Optimized)
    BY DEF FitsBackend
  <2> DEFINE f == Optimized
  <2>1. /\ WellFormed(prog) /\ present \subseteq DOMAIN prog /\ args \in [DOMAIN prog -> Seq(Int)]
        /\ DOMAIN prog = 1 .. Len(prog) /\ Len(prog) \in Nat
        /\ \A i \in DOMAIN prog : Len(args[i]) = Len(prog[i].args)
    BY ProgramFacts DEF OptIInv, IRTypeOK, SetsOK, ShapeOK
  <2>2. /\ f = [p \in 1 .. Kept |-> Renumbered(InstrAt(p))]
        /\ Kept \in Nat
        /\ \A p \in 1 .. Kept : InstrAt(p) \in present /\ Place(InstrAt(p)) = p
        /\ \A i \in present : Place(i) \in 1 .. Kept /\ InstrAt(Place(i)) = i
        /\ \A i, j \in present : i < j => Place(i) < Place(j)
    BY <2>1, OptimizedFacts, PlaceFacts
  <2>3. \A i \in present :
          /\ Renumbered(i) \in Backend!Instr
          /\ Renumbered(i).bb = prog[i].bb
          /\ Renumbered(i).op = IF Decided(i) THEN "constbr" ELSE prog[i].op
          /\ Renumbered(i).args = IF Decided(i) THEN <<>>
                                  ELSE [k \in DOMAIN args[i] |-> Place(args[i][k])]
    BY OptimizedFacts
  <2>4. \A p \in DOMAIN f : p \in 1 .. Kept /\ f[p] = Renumbered(InstrAt(p))
    BY <2>2
  <2>5. \A i \in present : Place(i) \in DOMAIN f /\ f[Place(i)] = Renumbered(i)
    BY <2>2
  <2>6. f \in Seq(Backend!Instr) \ {<<>>}
    <3>1. \A p \in 1 .. Kept : Renumbered(InstrAt(p)) \in Backend!Instr
      BY <2>2, <2>3
    <3>2. f \in Seq(Backend!Instr)
      BY <3>1, <2>2
    <3>3. 1 \in Blocks
      BY <2>1, ProgramFacts
    <3>4. EndOf(1) \in present
      BY <3>3, TerminatorStays DEF InstrsOf
    <3>5. Place(EndOf(1)) \in DOMAIN f
      BY <3>4, <2>5
    <3> QED BY <3>2, <3>5
  <2> HIDE DEF f
  <2>7. \A p, q \in DOMAIN f : p <= q => f[p].bb <= f[q].bb
    <3> SUFFICES ASSUME NEW p \in DOMAIN f, NEW q \in DOMAIN f, p <= q PROVE f[p].bb <= f[q].bb
      OBVIOUS
    <3>1. /\ p \in 1 .. Kept /\ q \in 1 .. Kept
          /\ InstrAt(p) \in present /\ InstrAt(q) \in present
          /\ Place(InstrAt(p)) = p /\ Place(InstrAt(q)) = q
          /\ f[p].bb = prog[InstrAt(p)].bb /\ f[q].bb = prog[InstrAt(q)].bb
      BY <2>2, <2>3, <2>4
    <3>2. ~(InstrAt(q) < InstrAt(p))
      BY <3>1, <2>2
    <3>3. InstrAt(p) <= InstrAt(q) /\ InstrAt(p) \in DOMAIN prog /\ InstrAt(q) \in DOMAIN prog
      BY <3>1, <3>2, <2>1
    <3> QED BY <3>1, <3>3, <2>1 DEF WellFormed
  <2>8. \A p \in DOMAIN f : f[p].op \in Backend!ArithOps => Len(f[p].args) = 2
    <3> SUFFICES ASSUME NEW p \in DOMAIN f, f[p].op = "arith" PROVE Len(f[p].args) = 2
      BY DEF Backend!ArithOps
    <3> DEFINE i == InstrAt(p)
    <3>1. i \in present /\ i \in DOMAIN prog /\ f[p] = Renumbered(i)
      BY <2>1, <2>2, <2>4
    <3>2. prog[i].op = "arith" /\ f[p].args = [k \in DOMAIN args[i] |-> Place(args[i][k])]
      BY <3>1, <2>3
    <3>3. Len(args[i]) = 2 /\ args[i] \in Seq(Int)
      BY <3>1, <3>2, <2>1 DEF WellFormed
    <3> HIDE DEF i
    <3>4. DOMAIN args[i] = 1 .. 2
      BY <3>3
    <3> QED BY <3>2, <3>4
  <2>9. \A p \in DOMAIN f : \A v \in Backend!ArgsOf(f, p) :
          v > 0 => v < p /\ f[v].bb = f[p].bb /\ f[v].op \in Backend!ValueOps
    <3> SUFFICES ASSUME NEW p \in DOMAIN f, NEW v \in Backend!ArgsOf(f, p), v > 0
                 PROVE  v < p /\ f[v].bb = f[p].bb /\ f[v].op \in Backend!ValueOps
      OBVIOUS
    <3> DEFINE i == InstrAt(p)
    <3>1. i \in present /\ i \in DOMAIN prog /\ f[p] = Renumbered(i) /\ Place(i) = p
      BY <2>1, <2>2, <2>4
    <3> HIDE DEF i
    <3>2. PICK k \in DOMAIN f[p].args : v = f[p].args[k]
      BY DEF Backend!ArgsOf
    <3>3. ~Decided(i)
      <4> SUFFICES ASSUME Decided(i) PROVE FALSE
        OBVIOUS
      <4>1. f[p].args = <<>>
        BY <3>1, <2>3
      <4>2. k \in DOMAIN <<>>
        BY <4>1, <3>2
      <4> QED BY <4>2
    <3>4. f[p].args = [h \in DOMAIN args[i] |-> Place(args[i][h])]
      BY <3>1, <3>3, <2>3
    <3> DEFINE u == args[i][k]
    <3>5. k \in DOMAIN args[i] /\ v = Place(u)
      BY <3>2, <3>4
    <3>6. u \in ToSet(args[i]) /\ u \in Int
      <4>1. args[i] \in Seq(Int)
        BY <3>1, <2>1
      <4> QED BY <4>1, <3>5 DEF ToSet
    <3> HIDE DEF u
    <3>7. u > 0
      BY <3>5, <3>6 DEF Place
    <3>8. u \in present /\ u < i /\ prog[u].bb = prog[i].bb /\ prog[u].op \in ValueOps
      BY <3>1, <3>6, <3>7 DEF OptIInv, OperandsOK, OperandOK
    <3>9. v < p /\ f[v] = Renumbered(u)
      BY <3>1, <3>5, <3>8, <2>2, <2>5
    <3>10. ~Decided(u)
      BY <3>8 DEF Decided, Is, ValueOps
    <3> QED BY <3>1, <3>8, <3>9, <3>10, <2>3 DEF Backend!ValueOps, ValueOps
  <2>10. \A p \in DOMAIN f : f[p].op \in Backend!ValueOps =>
           \E q \in DOMAIN f : p \in Backend!ArgsOf(f, q)
    <3> SUFFICES ASSUME NEW p \in DOMAIN f, f[p].op \in Backend!ValueOps
                 PROVE  \E q \in DOMAIN f : p \in Backend!ArgsOf(f, q)
      OBVIOUS
    <3> DEFINE i == InstrAt(p)
    <3>1. i \in present /\ i \in DOMAIN prog /\ f[p] = Renumbered(i) /\ Place(i) = p
      BY <2>1, <2>2, <2>4
    <3> HIDE DEF i
    <3>2. prog[i].op \in ValueOps
      BY <3>1, <2>3 DEF Backend!ValueOps, ValueOps
    <3>3. PICK j \in present : ~Decided(j) /\ i \in ToSet(args[j])
      BY <3>1, <3>2, ValuesUsed DEF Progress, Ended
    <3>4. PICK k \in DOMAIN args[j] : i = args[j][k]
      BY <3>3 DEF ToSet
    <3>5. f[Place(j)].args = [h \in DOMAIN args[j] |-> Place(args[j][h])] /\ Place(j) \in DOMAIN f
      BY <3>3, <2>3, <2>5
    <3>6. p \in Backend!ArgsOf(f, Place(j))
      BY <3>1, <3>4, <3>5 DEF Backend!ArgsOf
    <3> QED BY <3>5, <3>6
  <2> QED BY <2>6, <2>7, <2>8, <2>9, <2>10 DEF Backend!WellFormed, f
<1> QED BY Progresses, <1>1, PTL

-----------------------------------------------------------------------------
(***************************************************************************)
(* What the code generator gets                                            *)
(***************************************************************************)


\* No pass moves a comparison away from its branch, or the parameter into another instruction.
BranchesOK ==
  /\ \A j \in DOMAIN prog : \A u \in ToSet(args[j]) :
       /\ u = 0 => Is(j, "store")
       /\ u > 0 /\ Is(u, "icmp") => Is(j, "condbr")
  /\ \A j \in DOMAIN prog : Is(j, "condbr") =>
       args[j][1] < 0 \/ (j > 1 /\ Is(j - 1, "icmp") /\ args[j] = <<j - 1>>)

\* What has been visited has the opcode of its key.
OpcodesOK == \A key \in DOMAIN visited : prog[visited[key]].op = key[1]

\* An instruction goes out for a constant or for an earlier one with its opcode.
ReplacedBy(v) ==
  /\ pc \in DOMAIN prog /\ Pure(pc) /\ v \in Int
  /\ args' = Replaced(args, pc, v)
  /\ v < 0 \/ /\ v > 0 /\ v < pc /\ prog[v].bb = prog[pc].bb /\ prog[v].op = prog[pc].op

\* Operands change in no other way.
LEMMA Rewrites ==
  ASSUME OptIInv, OpcodesOK, [ORNext]_allvars
  PROVE  prog' = prog /\ OpcodesOK' /\ (args' = args \/ \E v : ReplacedBy(v))
<1>1. CASE FoldInstr
  <2>1. /\ Folding /\ Foldable(pc) /\ args' = Replaced(args, pc, Value(pc))
        /\ UNCHANGED <<prog, visited>>
    BY <1>1 DEF FoldInstr
  <2>2. pc \in DOMAIN prog
    BY <2>1 DEF Folding, OptIInv, IRTypeOK, PlaceOK, LocalPhases, InstrsOf
  <2>3. ReplacedBy(Value(pc))
    BY <2>1, <2>2, FoldedWord DEF ReplacedBy
  <2> QED BY <2>1, <2>3 DEF OpcodesOK
<1>2. CASE ShareInstr
  <2> DEFINE p == visited[Key(pc)]
  <2>1. /\ phase = "cse" /\ Pure(pc) /\ Key(pc) \in DOMAIN visited
        /\ args' = Replaced(args, pc, p) /\ UNCHANGED <<prog, visited>>
    BY <1>2 DEF ShareInstr, Repeats, localvars
  <2>2. pc \in InstrsOf(bb) /\ p \in InstrsOf(bb) /\ p < pc
    BY <2>1 DEF OptIInv, PlaceOK, LocalPhases, VisitedOK
  <2>3. prog[p].op = prog[pc].op
    BY <2>1 DEF OpcodesOK, Key
  <2> HIDE DEF p
  <2>4. pc \in DOMAIN prog /\ p \in Int /\ p > 0 /\ prog[p].bb = prog[pc].bb
    BY <2>2, ProgramFacts DEF OptIInv, IRTypeOK, InstrsOf
  <2>5. ReplacedBy(p)
    BY <2>1, <2>2, <2>3, <2>4 DEF ReplacedBy
  <2> QED BY <2>1, <2>5 DEF OpcodesOK
<1>3. CASE VisitInstr
  <2>1. /\ UNCHANGED <<prog, args>>
        /\ visited' = [key \in DOMAIN visited \cup {Key(pc)} |->
                         IF key = Key(pc) THEN pc ELSE visited[key]]
    BY <1>3 DEF VisitInstr, irvars
  <2>2. Key(pc)[1] = prog[pc].op
    BY DEF Key
  <2> QED BY <2>1, <2>2 DEF OpcodesOK
<1>4. CASE EraseInstr \/ SkipInstr
  BY <1>4 DEF EraseInstr, SkipInstr, irvars, localvars, OpcodesOK
<1>5. CASE EndOfBlock("start", AfterRound)
  <2>1. UNCHANGED <<prog, args>> /\ visited' = <<>>
    BY <1>5 DEF EndOfBlock, EndPass, Begin, irvars
  <2> QED BY <2>1 DEF OpcodesOK
<1>6. CASE CountReplaces
  <2>1. UNCHANGED <<prog, args>> /\ visited' = <<>>
    BY <1>6 DEF CountReplaces, Begin, irvars
  <2> QED BY <2>1 DEF OpcodesOK
<1>7. CASE ReplaceLoad /\ UNCHANGED localvars
  <2>1. Is(pc, "load") /\ pc \in present /\ UNCHANGED <<prog, visited>>
    BY <1>7 DEF ReplaceLoad, Sweeping, localvars
  <2>2. PICK c \in Stored : AllStore(c) /\ args' = Replaced(args, pc, c)
    BY <1>7 DEF ReplaceLoad
  <2>3. PICK s \in Writes : c = args[s][1]
    BY <2>2 DEF Stored
  <2>4. /\ args \in [DOMAIN prog -> Seq(Int)] /\ present \subseteq DOMAIN prog
        /\ WellFormed(prog) /\ s \in StoreSet /\ Len(args[s]) = Len(prog[s].args)
        /\ pc \in DOMAIN prog
    BY <2>1, <2>3, ProgramFacts DEF OptIInv, IRTypeOK, SetsOK, ShapeOK, Writes, StoreSet
  <2>5. Len(args[s]) = 1 /\ args[s] \in Seq(Int)
    BY <2>4, ProgramFacts DEF StoreSet
  <2>6. c \in Int
    BY <2>3, <2>5
  <2>7. c < 0 /\ Pure(pc)
    BY <2>1, <2>2 DEF AllStore, IsConstant, Pure, Is
  <2>8. ReplacedBy(c)
    BY <2>2, <2>4, <2>6, <2>7 DEF ReplacedBy
  <2> QED BY <2>1, <2>8 DEF OpcodesOK
<1>8. CASE PropagateConstants /\ ~ReplaceLoad
  BY <1>8 DEF PropagateConstants, Propagate, CPStart, FlowBlock, EnterSweep, SweepStore, KeepLoad,
              SweepOther, Sweeping, irvars, localvars, OpcodesOK
<1>9. CASE Run \/ UNCHANGED allvars
  BY <1>9, RunLooks DEF Looks, irvars, localvars, OpcodesOK
<1> QED BY <1>1, <1>2, <1>3, <1>4, <1>5, <1>6, <1>7, <1>8, <1>9
        DEF ORNext, OptimizeOnly, Optimize, LocalPass, LocalStep, PropagateConstants, Propagate

\* A comparison goes out for a constant only: no other one is in its block.
LEMMA ReplacedBranches ==
  ASSUME OptIInv, BranchesOK, Lowered(prog), NEW v, ReplacedBy(v), prog' = prog
  PROVE  BranchesOK'
<1>1. /\ args \in [DOMAIN prog -> Seq(Int)] /\ WellFormed(prog) /\ v \in Int /\ Pure(pc)
      /\ DOMAIN prog = 1 .. Len(prog) /\ Len(prog) \in Nat /\ pc \in DOMAIN prog
      /\ args' = Replaced(args, pc, v)
      /\ \A j \in DOMAIN prog : Len(args[j]) = Len(prog[j].args)
  BY ProgramFacts DEF OptIInv, IRTypeOK, SetsOK, ShapeOK, ReplacedBy
<1>2. v < 0 \/ (/\ v > 0 /\ v < pc /\ prog[v].bb = prog[pc].bb /\ prog[v].op = prog[pc].op)
  BY DEF ReplacedBy
<1>3. ASSUME Is(pc, "icmp") PROVE v < 0
  <2> SUFFICES ASSUME v > 0, v < pc, prog[v].bb = prog[pc].bb, prog[v].op = prog[pc].op
               PROVE  FALSE
    BY <1>2
  <2>0. PICK w \in Int : w = v + 1
    BY <1>1
  <2>1. v \in DOMAIN prog /\ w \in DOMAIN prog /\ v <= w /\ w <= pc
    BY <1>1, <2>0
  <2>2. prog[w].op = "condbr"
    BY <1>3, <2>0, <2>1 DEF Lowered, Is
  <2>3. prog[w].bb = prog[v].bb
    BY <2>1, <1>1, BlockFacts
  <2>4. pc <= w
    BY <2>1, <2>2, <2>3, <1>1, BlockFacts DEF Terminators
  <2>5. pc = w
    BY <2>1, <2>4, <1>1
  <2> QED BY <2>2, <2>5, <1>3 DEF Is
<1>4. ASSUME NEW j \in DOMAIN prog, NEW u \in ToSet(args'[j])
      PROVE  /\ u = 0 => Is(j, "store")
             /\ u > 0 /\ Is(u, "icmp") => Is(j, "condbr")
  <2>1. \/ u \in ToSet(args[j])
        \/ u = v /\ pc \in ToSet(args[j])
    BY <1>1, <1>4, ReplacedOperands
  <2>2. CASE u \in ToSet(args[j])
    BY <2>2 DEF BranchesOK
  <2>3. CASE u = v
    BY <2>3, <1>1, <1>2, <1>3 DEF Is
  <2> QED BY <2>1, <2>2, <2>3
<1>5. ASSUME NEW j \in DOMAIN prog, Is(j, "condbr")
      PROVE  args'[j][1] < 0 \/ (j > 1 /\ Is(j - 1, "icmp") /\ args'[j] = <<j - 1>>)
  <2>1. Len(args[j]) = 1 /\ args[j] \in Seq(Int)
    BY <1>1, <1>5 DEF WellFormed, Is
  <2>2. DOMAIN args[j] = {1} /\ args[j][1] \in Int
    BY <2>1
  <2>3. args'[j] = [k \in {1} |-> IF args[j][k] = pc THEN v ELSE args[j][k]]
    BY <1>1, <2>2 DEF Replaced
  <2>4. CASE args[j][1] < 0
    <3>1. args[j][1] # pc
      BY <2>4, <1>1
    <3> QED BY <3>1, <2>3, <2>4
  <2>5. CASE args[j][1] = pc
    <3>1. args[j] = <<j - 1>> /\ Is(j - 1, "icmp")
      BY <2>5, <1>1, <1>5 DEF BranchesOK
    <3>2. Is(pc, "icmp")
      BY <3>1, <2>5
    <3>3. v < 0
      BY <3>2, <1>3
    <3> QED BY <3>3, <2>3, <2>5
  <2>6. CASE args[j][1] # pc /\ ~(args[j][1] < 0)
    <3>1. args'[j] = args[j]
      BY <2>6, <2>2, <2>3, <2>1
    <3> QED BY <3>1, <2>6, <1>5 DEF BranchesOK
  <2> QED BY <2>4, <2>5, <2>6
<1> QED BY <1>4, <1>5 DEF BranchesOK, Is

\* Nothing has been replaced yet.
LEMMA BuiltBranches ==
  ASSUME ORInit, \A f \in Programs : Lowered(f)
  PROVE  BranchesOK /\ OpcodesOK
<1>1. /\ prog \in Programs /\ args = [i \in DOMAIN prog |-> prog[i].args] /\ visited = <<>>
      /\ WellFormed(prog) /\ Lowered(prog)
  BY ProgramsAssumption DEF ORInit, OptInit, IRInit
<1>2. \A i \in DOMAIN prog : args[i] = prog[i].args /\ args[i] \in Seq(Int)
  BY <1>1, ProgramFacts
<1>3. ASSUME NEW j \in DOMAIN prog, NEW u \in ToSet(args[j])
      PROVE  /\ u = 0 => Is(j, "store")
             /\ u > 0 /\ Is(u, "icmp") => Is(j, "condbr")
  <2>1. PICK k \in DOMAIN args[j] : u = args[j][k]
    BY <1>3 DEF ToSet
  <2> QED BY <2>1, <1>1, <1>2 DEF Lowered, Is
<1>4. \A j \in DOMAIN prog : Is(j, "condbr") =>
        args[j][1] < 0 \/ (j > 1 /\ Is(j - 1, "icmp") /\ args[j] = <<j - 1>>)
  BY <1>1, <1>2 DEF Lowered, Is
<1>5. OpcodesOK
  BY <1>1 DEF OpcodesOK
<1> QED BY <1>3, <1>4, <1>5 DEF BranchesOK

\* g has operands in the number of its kind, the parameter only if it is a store, a
\* predicate if it is a comparison and the block to go to if it is decided.
Handed(g) ==
  /\ Len(g.args) \in
       CASE g.op \in {"load", "read", "br", "constbr"} -> {0}
         [] g.op \in {"store", "print", "condbr"} -> {1}
         [] g.op \in {"arith", "icmp"} -> {2}
         [] g.op = "ret" -> {0, 1}
  /\ 0 \in {g.args[k] : k \in DOMAIN g.args} => g.op = "store"
  /\ g.op = "icmp" => g.sym \in Predicates
  /\ g.op = "constbr" => g.sym \in {"true", "false"}

\* The instruction that is handed over at place p is of that kind.
LEMMA HandedOver ==
  ASSUME OptIInv, BranchesOK, Lowered(prog),
         NEW p \in 1 .. Kept, NEW i \in present, i = InstrAt(p), NEW g, g = Renumbered(i)
  PROVE  Handed(g) /\ g.succ = prog[i].succ
<1>1. /\ WellFormed(prog) /\ present \subseteq DOMAIN prog /\ args \in [DOMAIN prog -> Seq(Int)]
      /\ i \in DOMAIN prog /\ Len(args[i]) = Len(prog[i].args) /\ args[i] \in Seq(Int)
      /\ prog[i] \in Instruction
  <2>1. /\ WellFormed(prog) /\ present \subseteq DOMAIN prog /\ args \in [DOMAIN prog -> Seq(Int)]
        /\ \A j \in DOMAIN prog : Len(args[j]) = Len(prog[j].args)
    BY DEF OptIInv, IRTypeOK, SetsOK, ShapeOK
  <2>2. prog \in Seq(Instruction)
    BY <2>1 DEF WellFormed
  <2> QED BY <2>1, <2>2
<1>2. /\ g.op = IF Decided(i) THEN "constbr" ELSE prog[i].op
      /\ g.args = IF Decided(i) THEN <<>> ELSE [k \in DOMAIN args[i] |-> Place(args[i][k])]
  BY OptimizedFacts
<1>3. g.sym = (IF Decided(i) THEN Taken(i) ELSE prog[i].sym) /\ g.succ = prog[i].succ
  BY <1>1 DEF Renumbered, Instruction
<1>4. CASE Decided(i)
  BY <1>2, <1>3, <1>4 DEF Taken, Handed
<1>5. CASE ~Decided(i)
  <2>1. g.op = prog[i].op /\ g.args = [k \in DOMAIN args[i] |-> Place(args[i][k])]
    BY <1>2, <1>5
  <2>2. DOMAIN args[i] = 1 .. Len(args[i]) /\ Len(args[i]) \in Nat
    BY <1>1
  <2>3. Len(g.args) = Len(prog[i].args)
    BY <2>1, <2>2, <1>1
  <2>4. prog[i].op \in Ops
    BY <1>1 DEF Instruction
  <2>5. Len(prog[i].args) \in
          CASE prog[i].op \in {"load", "read", "br", "constbr"} -> {0}
            [] prog[i].op \in {"store", "print", "condbr"} -> {1}
            [] prog[i].op \in {"arith", "icmp"} -> {2}
            [] prog[i].op = "ret" -> {0, 1}
    <3>1. prog[i].op \in {"load", "read", "br"} => Len(prog[i].args) = 0
      BY <1>1 DEF Lowered
    <3>2. prog[i].op \in {"store", "print", "condbr"} => Len(prog[i].args) = 1
      BY <1>1 DEF WellFormed
    <3>3. prog[i].op \in {"arith", "icmp"} => Len(prog[i].args) = 2
      BY <1>1 DEF WellFormed
    <3>4. prog[i].op = "ret" => Len(prog[i].args) \in {0, 1}
      <4>1. prog[i].op = "ret" => Len(prog[i].args) <= 1
        BY <1>1 DEF Lowered
      <4>2. PICK n \in Nat : n = Len(prog[i].args)
        BY <1>1, <2>2
      <4>3. n <= 1 => n \in {0, 1}
        OBVIOUS
      <4> QED BY <4>1, <4>2, <4>3
    <3> QED BY <3>1, <3>2, <3>3, <3>4, <2>4 DEF Ops
  <2>6. ASSUME NEW k \in DOMAIN g.args, g.args[k] = 0 PROVE prog[i].op = "store"
    <3>1. k \in DOMAIN args[i] /\ Place(args[i][k]) = 0
      BY <2>1, <2>6
    <3>2. PICK u \in Int : u = args[i][k]
      BY <3>1, <1>1, <2>2
    <3>3. u \in ToSet(args[i])
      BY <3>1, <3>2 DEF ToSet
    <3>4. CASE u > 0
      <4>1. u \in present
        BY <3>3, <3>4 DEF OptIInv, OperandsOK, OperandOK
      <4>2. Place(u) # 0
        BY <4>1, <1>1, PlaceFacts
      <4> QED BY <4>2, <3>1, <3>2
    <3>5. CASE ~(u > 0)
      <4>1. u = 0
        BY <3>1, <3>2, <3>5 DEF Place
      <4> QED BY <4>1, <3>3, <1>1 DEF BranchesOK, Is
    <3> QED BY <3>4, <3>5
  <2>7. prog[i].op = "icmp" => prog[i].sym \in Predicates
    BY <1>1, WordsAssumption DEF InWords, OptIInv
  <2>8. g.op # "constbr"
    BY <2>1, <2>4 DEF Ops
  <2> QED BY <2>1, <2>3, <2>5, <2>6, <2>7, <2>8, <1>3, <1>5 DEF Handed
<1> QED BY <1>4, <1>5

(***************************************************************************)
(* Every function that optimize_ir hands over is one that generate_code    *)
(* can translate (backend.cpp:244-547): the flags that a branch tests are  *)
(* those of the comparison right before it.  For all functions that are as *)
(* genIRStmt makes them, with a comparison for every branch.               *)
(***************************************************************************)
THEOREM FitsCodegenTheorem ==
  ASSUME \A f \in Programs : Lowered(f)
  PROVE  FairORSpec => []FitsCodegen
<1> DEFINE Inv == Lowered(prog) /\ BranchesOK /\ OpcodesOK
<1>1. ORInit => Inv
  BY BuiltBranches DEF ORInit, OptInit, IRInit
<1>2. OptIInv /\ Inv /\ [ORNext]_allvars => Inv'
  <2> SUFFICES ASSUME OptIInv, Inv, [ORNext]_allvars PROVE Inv'
    OBVIOUS
  <2>1. prog' = prog /\ OpcodesOK' /\ (args' = args \/ \E v : ReplacedBy(v))
    BY Rewrites
  <2>2. Lowered(prog)'
    BY <2>1 DEF Lowered
  <2>3. CASE args' = args
    BY <2>1, <2>2, <2>3 DEF BranchesOK, Is
  <2>4. CASE \E v : ReplacedBy(v)
    BY <2>1, <2>2, <2>4, ReplacedBranches
  <2> QED BY <2>1, <2>3, <2>4
<1>3. OptIInv /\ Inv => FitsCodegen
  <2> SUFFICES ASSUME OptIInv, Lowered(prog), BranchesOK, phase = "optimized"
               PROVE  Backend!Translatable(Optimized)
    BY DEF FitsCodegen
  <2> DEFINE f == Optimized
  <2>1. /\ WellFormed(prog) /\ present \subseteq DOMAIN prog /\ args \in [DOMAIN prog -> Seq(Int)]
        /\ DOMAIN prog = 1 .. Len(prog) /\ Len(prog) \in Nat \ {0}
        /\ \A i \in DOMAIN prog : Len(args[i]) = Len(prog[i].args)
    BY ProgramFacts DEF OptIInv, IRTypeOK, SetsOK, ShapeOK
  <2>2. /\ f = [p \in 1 .. Kept |-> Renumbered(InstrAt(p))]
        /\ Kept \in Nat
        /\ \A p \in 1 .. Kept : InstrAt(p) \in present /\ Place(InstrAt(p)) = p
        /\ \A i \in present : Place(i) \in 1 .. Kept /\ InstrAt(Place(i)) = i
        /\ \A i, j \in present : i < j => Place(i) < Place(j)
    BY <2>1, OptimizedFacts, PlaceFacts
  <2>3. DOMAIN f = 1 .. Kept /\ Len(f) = Kept
    BY <2>2
  <2>4. \A p \in DOMAIN f : f[p] = Renumbered(InstrAt(p))
    BY <2>2
  <2>5. \A i \in present : Place(i) \in DOMAIN f /\ f[Place(i)] = Renumbered(i)
    BY <2>2
  <2> HIDE DEF f
  <2>6. \A p \in DOMAIN f :
          /\ Len(f[p].args) \in
               CASE f[p].op \in {"load", "read", "br", "constbr"} -> {0}
                 [] f[p].op \in {"store", "print", "condbr"} -> {1}
                 [] f[p].op \in {"arith", "icmp"} -> {2}
                 [] f[p].op = "ret" -> {0, 1}
          /\ 0 \in Backend!ArgsOf(f, p) => f[p].op = "store"
          /\ f[p].op = "icmp" => f[p].sym \in Predicates
          /\ (f[p].op = "constbr" => f[p].sym \in {"true", "false"})
          /\ f[p].succ = prog[InstrAt(p)].succ
    <3> SUFFICES ASSUME NEW p \in DOMAIN f
                 PROVE  /\ Len(f[p].args) \in
                             CASE f[p].op \in {"load", "read", "br", "constbr"} -> {0}
                               [] f[p].op \in {"store", "print", "condbr"} -> {1}
                               [] f[p].op \in {"arith", "icmp"} -> {2}
                               [] f[p].op = "ret" -> {0, 1}
                        /\ 0 \in Backend!ArgsOf(f, p) => f[p].op = "store"
                        /\ f[p].op = "icmp" => f[p].sym \in Predicates
                        /\ (f[p].op = "constbr" => f[p].sym \in {"true", "false"})
                        /\ f[p].succ = prog[InstrAt(p)].succ
      OBVIOUS
    <3>1. PICK i \in present : i = InstrAt(p)
      BY <2>2, <2>3
    <3>2. p \in 1 .. Kept /\ f[p] = Renumbered(i)
      BY <2>3, <2>4, <3>1
    <3>3. PICK g : g = f[p]
      OBVIOUS
    <3>4. Handed(g) /\ g.succ = prog[i].succ
      BY <3>1, <3>2, <3>3, HandedOver
    <3> QED BY <3>1, <3>3, <3>4 DEF Backend!ArgsOf, Handed
  <2>7. \A i \in present :
          /\ Renumbered(i).bb = prog[i].bb
          /\ Renumbered(i).op = IF Decided(i) THEN "constbr" ELSE prog[i].op
          /\ Renumbered(i).args = IF Decided(i) THEN <<>>
                                  ELSE [k \in DOMAIN args[i] |-> Place(args[i][k])]
    BY OptimizedFacts
  <2>8. ASSUME NEW p \in DOMAIN f, f[p].op = "icmp",
               NEW q \in DOMAIN f, p \in Backend!ArgsOf(f, q)
        PROVE  f[q].op = "condbr"
    <3> DEFINE i == InstrAt(p)
    <3> DEFINE j == InstrAt(q)
    <3>1. /\ i \in present /\ Place(i) = p /\ f[p] = Renumbered(i) /\ p > 0
          /\ j \in present /\ f[q] = Renumbered(j) /\ j \in DOMAIN prog
      BY <2>1, <2>2, <2>3, <2>4
    <3> HIDE DEF i, j
    <3>2. Is(i, "icmp")
      BY <2>7, <2>8, <3>1 DEF Is
    <3>3. PICK k \in DOMAIN f[q].args : p = f[q].args[k]
      BY <2>8 DEF Backend!ArgsOf
    <3>4. ~Decided(j)
      <4> SUFFICES ASSUME Decided(j) PROVE FALSE
        OBVIOUS
      <4>1. k \in DOMAIN <<>>
        BY <2>7, <3>1, <3>3
      <4> QED BY <4>1
    <3>5. k \in DOMAIN args[j] /\ p = Place(args[j][k]) /\ f[q].op = prog[j].op
      <4>1. /\ f[q].args = [h \in DOMAIN args[j] |-> Place(args[j][h])]
            /\ f[q].op = prog[j].op
        BY <2>7, <3>1, <3>4
      <4> QED BY <4>1, <3>3
    <3>6. PICK u \in Int : u = args[j][k]
      <4>1. args[j] \in Seq(Int)
        BY <2>1, <3>1
      <4> QED BY <4>1, <3>5
    <3>7. u \in ToSet(args[j]) /\ u > 0
      BY <3>1, <3>5, <3>6 DEF ToSet, Place
    <3>8. u \in present
      BY <3>1, <3>7 DEF OptIInv, OperandsOK, OperandOK
    <3>9. u = i
      <4>1. InstrAt(Place(u)) = u /\ InstrAt(Place(i)) = i /\ Place(u) = Place(i)
        BY <2>2, <3>1, <3>5, <3>6, <3>8
      <4> QED BY <4>1
    <3> QED BY <3>1, <3>2, <3>5, <3>7, <3>9 DEF BranchesOK, Is
  <2>9. ASSUME NEW p \in DOMAIN f, f[p].op = "condbr"
        PROVE  p > 1 /\ f[p - 1].op = "icmp" /\ f[p].args = <<p - 1>>
    <3> DEFINE i == InstrAt(p)
    <3>1. /\ i \in present /\ Place(i) = p /\ f[p] = Renumbered(i) /\ i \in DOMAIN prog
          /\ p \in 1 .. Kept
      BY <2>1, <2>2, <2>3, <2>4
    <3> HIDE DEF i
    <3>2. Is(i, "condbr") /\ ~Decided(i)
      BY <2>7, <2>9, <3>1 DEF Is, Decided
    <3>3. i > 1 /\ Is(i - 1, "icmp") /\ args[i] = <<i - 1>>
      BY <3>1, <3>2 DEF BranchesOK, Decided, IsConstant
    <3>4. PICK h \in Nat : h = i - 1 /\ h > 0
      BY <3>1, <3>3, <2>1
    <3>5. h \in ToSet(args[i])
      BY <3>3, <3>4 DEF ToSet
    <3>6. h \in present
      BY <3>1, <3>4, <3>5 DEF OptIInv, OperandsOK, OperandOK
    <3>7. Place(h) \in 1 .. Kept /\ Place(h) < p
      BY <2>1, <2>2, <3>1, <3>4, <3>6
    <3>8. PICK q \in 1 .. Kept : q = p - 1
      BY <2>2, <3>1, <3>7
    <3>9. Place(h) = q
      <4> SUFFICES ASSUME Place(h) < q PROVE FALSE
        BY <3>1, <3>7, <3>8
      <4>1. PICK j \in present : Place(j) = q
        BY <2>2, <3>8
      <4>2. j \in Nat /\ i \in Nat /\ q \in Nat /\ p \in Nat /\ Place(h) \in Nat
        BY <2>1, <2>2, <3>1, <3>7, <3>8, <4>1
      <4>3. j < i
        <5>1. ~(i < j)
          BY <2>2, <3>1, <3>8, <4>1, <4>2
        <5>2. i # j
          BY <3>1, <3>8, <4>1, <4>2
        <5> QED BY <5>1, <5>2, <4>2
      <4>4. h < j
        <5>1. ~(j < h)
          BY <2>2, <3>6, <4>1, <4>2
        <5>2. h # j
          BY <4>1, <4>2
        <5> QED BY <5>1, <5>2, <4>2
      <4> QED BY <4>2, <4>3, <4>4, <3>4
    <3>10. f[q] = Renumbered(h) /\ f[q].op = "icmp"
      <4>1. ~Decided(h)
        BY <3>3, <3>4 DEF Decided, Is
      <4> QED BY <4>1, <2>5, <2>7, <3>3, <3>4, <3>6, <3>9 DEF Is
    <3>11. f[p].args = <<q>>
      <4>1. f[p].args = [k \in DOMAIN args[i] |-> Place(args[i][k])]
        BY <2>7, <3>1, <3>2
      <4> QED BY <4>1, <3>3, <3>4, <3>9
    <3> QED BY <3>1, <3>8, <3>10, <3>11
  <2>10. \A p \in DOMAIN f : /\ f[p].op = "br" => Len(f[p].succ) = 1
                             /\ f[p].op \in {"condbr", "constbr"} => Len(f[p].succ) = 2
    <3> SUFFICES ASSUME NEW p \in DOMAIN f
                 PROVE  /\ f[p].op = "br" => Len(f[p].succ) = 1
                        /\ f[p].op \in {"condbr", "constbr"} => Len(f[p].succ) = 2
      OBVIOUS
    <3> DEFINE i == InstrAt(p)
    <3>1. /\ i \in present /\ f[p] = Renumbered(i) /\ i \in DOMAIN prog
          /\ f[p].succ = prog[i].succ
      BY <2>1, <2>2, <2>3, <2>4, <2>6
    <3> HIDE DEF i
    <3>2. /\ f[p].op = "br" => prog[i].op = "br"
          /\ f[p].op \in {"condbr", "constbr"} => prog[i].op = "condbr"
      <4>1. prog[i].op # "constbr"
        <5>1. prog \in Seq(Instruction)
          BY <2>1 DEF WellFormed
        <5>2. prog[i] \in Instruction
          BY <5>1, <3>1
        <5> QED BY <5>2 DEF Instruction, Ops
      <4> QED BY <4>1, <2>7, <3>1 DEF Decided, Is
    <3> QED BY <3>1, <3>2, <2>1 DEF WellFormed
  <2>11. \A p \in DOMAIN f : \A k \in DOMAIN f[p].succ :
           \E q \in DOMAIN f : f[q].bb = f[p].succ[k]
    <3> SUFFICES ASSUME NEW p \in DOMAIN f, NEW k \in DOMAIN f[p].succ
                 PROVE  \E q \in DOMAIN f : f[q].bb = f[p].succ[k]
      OBVIOUS
    <3>1. InstrAt(p) \in DOMAIN prog /\ f[p].succ = prog[InstrAt(p)].succ
      BY <2>1, <2>2, <2>3, <2>6
    <3>2. PICK b \in Blocks : b = f[p].succ[k]
      BY <3>1, <2>1 DEF WellFormed, Blocks
    <3>3. EndOf(b) \in present /\ prog[EndOf(b)].bb = b
      BY TerminatorStays DEF InstrsOf
    <3>4. PICK q \in DOMAIN f : f[q] = Renumbered(EndOf(b))
      BY <3>3, <2>5
    <3>5. f[q].bb = b
      BY <3>3, <3>4, <2>7
    <3> QED BY <3>2, <3>5
  <2>12. f[Len(f)].op \in {"br", "condbr", "constbr", "ret"}
    <3>1. PICK e \in DOMAIN prog : e = Len(prog)
      BY <2>1
    <3>2. prog[e].op \in Terminators
      BY <2>1, <3>1 DEF WellFormed
    <3>3. e \in present
      BY <3>2 DEF OptIInv, KeptOK, Pure, Terminators
    <3>4. Place(e) \in 1 .. Kept /\ Kept \in 1 .. Kept
      BY <2>2, <3>3
    <3>5. PICK j \in present : Place(j) = Kept
      BY <2>2, <3>4
    <3>6. j = e
      <4>1. j \in Nat /\ e \in Nat /\ j <= e
        BY <2>1, <3>1, <3>5
      <4>2. ~(j < e)
        BY <2>2, <3>3, <3>4, <3>5
      <4> QED BY <4>1, <4>2
    <3>7. f[Len(f)] = Renumbered(e)
      BY <2>3, <2>5, <3>5, <3>6
    <3> QED BY <2>7, <3>2, <3>3, <3>7 DEF Terminators
  <2>13. \A p \in DOMAIN f : f[p].op = "icmp" =>
           /\ f[p].sym \in Backend!Predicates
           /\ \A q \in DOMAIN f : p \in Backend!ArgsOf(f, q) => f[q].op = "condbr"
    BY <2>6, <2>8 DEF Predicates, Backend!Predicates
  <2>14. \A p \in DOMAIN f : f[p].op = "condbr" =>
           p > 1 /\ f[p - 1].op = "icmp" /\ f[p].args = <<p - 1>>
    BY <2>9
  <2> QED BY <2>6, <2>10, <2>11, <2>12, <2>13, <2>14 DEF Backend!Translatable, f
<1> QED BY OptInductive, <1>1, <1>2, <1>3, PTL DEF FairORSpec

-----------------------------------------------------------------------------
(***************************************************************************)
(* The optimized function does what the built one did.  Whatever the       *)
(* passes have done, the operands are those of the function as built under *)
(* one substitution of values, and each value that the substitution        *)
(* changes is justified: folded, shared with an earlier computation of     *)
(* the same operands, or a load of one constant.  The justifications are   *)
(* about the operands as they are now, and later replacements keep them.   *)
(* With them the two runs are compared instruction by instruction.         *)
(***************************************************************************)

Subst(s, v) == IF v > 0 THEN s[v] ELSE v

OperandsBy(s) ==
  \A i \in DOMAIN prog : \A k \in DOMAIN prog[i].args : args[i][k] = Subst(s, prog[i].args[k])

FoldedTo(s, v) == Foldable(v) /\ s[v] = Value(v)

\* No store of the block between the two writes the variable, if they load one.
NoStoreBetween(p, v) ==
  Is(v, "load") => \A t \in StoreSet : p < t /\ t < v => ~SameVar(t, v)

SharedWith(s, v, p) ==
  /\ p < v /\ prog[p].bb = prog[v].bb /\ Pure(v)
  /\ prog[p].op = prog[v].op /\ prog[p].sym = prog[v].sym /\ args[p] = args[v]
  /\ NoStoreBetween(p, v)
  /\ s[v] = s[p]

LoadsConstant(s, v) ==
  /\ Is(v, "load") /\ IsConstant(s[v])
  /\ \A t \in StoreSet : SameVar(t, v) /\ v \in ReachedFrom(t) => args[t][1] = s[v]

Justified(s, v) ==
  \/ s[v] = v
  \/ FoldedTo(s, v)
  \/ \E p \in DOMAIN prog : SharedWith(s, v, p)
  \/ LoadsConstant(s, v)

\* The substitution leads back in the function, and once is enough.
Settles(s) ==
  \A v \in DOMAIN prog : s[v] <= v /\ (s[v] > 0 => s[v] \in DOMAIN prog /\ s[s[v]] = s[v])

SubstOK(s) ==
  /\ OperandsBy(s)
  /\ \A v \in DOMAIN prog : Justified(s, v)
  /\ Settles(s)

\* In the first loop: what CSE finds has been replaced if it is foldable, and only then.
FreshOK(s) ==
  \A i \in DOMAIN prog :
    /\ phase \in {"fold", "cse", "dce"} /\ prog[i].bb > bb => s[i] = i
    /\ phase = "fold" /\ prog[i].bb = bb =>
         /\ s[i] = i \/ Foldable(i)
         /\ Foldable(i) /\ i < pc /\ i \in present => s[i] # i
    /\ phase = "cse" /\ prog[i].bb = bb =>
         /\ i >= pc => s[i] = i \/ Foldable(i)
         /\ Foldable(i) /\ i \in present => s[i] # i

KeysOK(s) ==
  \A key \in DOMAIN visited :
    /\ Key(visited[key]) = key
    /\ s[visited[key]] = visited[key] \/ Foldable(visited[key])

Substitution(s) ==
  s \in [DOMAIN prog -> Int] /\ SubstOK(s) /\ FreshOK(s) /\ KeysOK(s)

-----------------------------------------------------------------------------

\* Operands come before the instruction, whether it is still there or not.
LEMMA OperandsBefore ==
  ASSUME OptIInv, NEW s \in [DOMAIN prog -> Int], SubstOK(s),
         NEW i \in DOMAIN prog, NEW u \in ToSet(args[i])
  PROVE  u \in Int /\ u < i
<1>1. /\ WellFormed(prog) /\ ValuesStay(prog) /\ args[i] \in Seq(Int) /\ prog[i].args \in Seq(Int)
      /\ Len(args[i]) = Len(prog[i].args) /\ DOMAIN prog = 1 .. Len(prog) /\ Len(prog) \in Nat
  BY ProgramFacts, ValuesStayInBlocks DEF OptIInv, IRTypeOK, SetsOK, ShapeOK
<1>2. PICK k \in DOMAIN args[i] : u = args[i][k]
  BY DEF ToSet
<1>3. k \in DOMAIN prog[i].args /\ u \in Int
  BY <1>1, <1>2
<1> DEFINE w == prog[i].args[k]
<1>4. w \in Int /\ u = Subst(s, w) /\ (w > 0 => w < i)
  BY <1>1, <1>2, <1>3 DEF SubstOK, OperandsBy, ValuesStay
<1> HIDE DEF w
<1>5. CASE w > 0
  <2>1. w \in DOMAIN prog /\ w < i
    BY <1>1, <1>4, <1>5
  <2>2. u = s[w] /\ s[w] <= w
    BY <2>1, <1>4, <1>5 DEF Subst, SubstOK, Settles
  <2> QED BY <2>1, <2>2, <1>1, <1>3
<1>6. CASE ~(w > 0)
  BY <1>1, <1>4, <1>6 DEF Subst
<1> QED BY <1>5, <1>6

\* A replacement keeps constant operands, and operands that were the same.
LEMMA ReplacedKeeps ==
  ASSUME OptIInv, NEW i \in DOMAIN prog, NEW c, prog' = prog, args' = Replaced(args, i, c)
  PROVE  /\ \A j \in DOMAIN prog :
              /\ Len(args'[j]) = Len(args[j]) /\ DOMAIN args'[j] = DOMAIN args[j]
              /\ \A k \in DOMAIN args[j] : args'[j][k] = IF args[j][k] = i THEN c ELSE args[j][k]
         /\ \A j \in DOMAIN prog : \A k \in DOMAIN args[j] :
              args[j][k] < 0 => args'[j][k] = args[j][k]
         /\ \A j, p \in DOMAIN prog : args[j] = args[p] => args'[j] = args'[p]
         /\ \A j \in DOMAIN prog : i \notin ToSet(args[j]) => args'[j] = args[j]
<1>1. /\ args \in [DOMAIN prog -> Seq(Int)] /\ i \in Nat \ {0}
  BY ProgramFacts DEF OptIInv, IRTypeOK
<1>2. \A j \in DOMAIN prog : args'[j] =
        [k \in DOMAIN args[j] |-> IF args[j][k] = i THEN c ELSE args[j][k]]
  BY <1>1 DEF Replaced
<1>3. \A j \in DOMAIN prog : args[j] \in Seq(Int) /\ DOMAIN args[j] = 1 .. Len(args[j])
                            /\ Len(args[j]) \in Nat
  BY <1>1
<1>4. \A j \in DOMAIN prog :
        /\ DOMAIN args'[j] = DOMAIN args[j]
        /\ \A k \in DOMAIN args[j] : args'[j][k] = IF args[j][k] = i THEN c ELSE args[j][k]
  BY <1>2
<1>5. ASSUME NEW j \in DOMAIN prog PROVE Len(args'[j]) = Len(args[j])
  <2>1. args'[j] = [k \in 1 .. Len(args[j]) |-> IF args[j][k] = i THEN c ELSE args[j][k]]
    BY <1>2, <1>3
  <2> QED BY <2>1, <1>3
<1>6. ASSUME NEW j \in DOMAIN prog, i \notin ToSet(args[j]) PROVE args'[j] = args[j]
  <2>1. \A k \in DOMAIN args[j] : args[j][k] # i
    BY <1>6 DEF ToSet
  <2>2. args'[j] = [k \in DOMAIN args[j] |-> args[j][k]]
    BY <2>1, <1>2
  <2> QED BY <2>2, <1>3
<1>7. \A j \in DOMAIN prog : \A k \in DOMAIN args[j] :
        args[j][k] < 0 => args'[j][k] = args[j][k]
  BY <1>1, <1>4
<1>8. ASSUME NEW j \in DOMAIN prog, NEW p \in DOMAIN prog, args[j] = args[p]
      PROVE  args'[j] = args'[p]
  <2>1. /\ args'[j] = [k \in DOMAIN args[j] |-> IF args[j][k] = i THEN c ELSE args[j][k]]
        /\ args'[p] = [k \in DOMAIN args[p] |-> IF args[p][k] = i THEN c ELSE args[p][k]]
    BY <1>2
  <2> QED BY <2>1, <1>8
<1> QED BY <1>4, <1>5, <1>6, <1>7, <1>8

\* What is folded stays foldable, to the same value.
LEMMA FoldableStays ==
  ASSUME OptIInv, NEW i \in DOMAIN prog, NEW c, prog' = prog, args' = Replaced(args, i, c),
         NEW v \in DOMAIN prog, Foldable(v)
  PROVE  Foldable(v)' /\ Value(v)' = Value(v)
<1>1. WellFormed(prog) /\ args[v] \in Seq(Int) /\ Len(args[v]) = Len(prog[v].args)
  BY DEF OptIInv, IRTypeOK, SetsOK, ShapeOK
<1>2. Len(args[v]) = 2 /\ args[v][1] < 0 /\ args[v][2] < 0
  BY <1>1 DEF Foldable, Is, WellFormed, IsConstant
<1>3. 1 \in DOMAIN args[v] /\ 2 \in DOMAIN args[v]
  BY <1>1, <1>2
<1>4. args'[v][1] = args[v][1] /\ args'[v][2] = args[v][2]
  BY <1>2, <1>3, ReplacedKeeps
<1> QED BY <1>4 DEF Foldable, Value, Is

\* A justified replacement everywhere: operands and substitution change in the same way.
LEMMA SubstStep ==
  ASSUME OptIInv, NEW s \in [DOMAIN prog -> Int], SubstOK(s),
         NEW i \in DOMAIN prog, NEW c \in Int, prog' = prog, args' = Replaced(args, i, c),
         c < 0 \/ (c \in DOMAIN prog /\ c < i /\ (s[i] = i => s[c] = c)),
         NEW t \in [DOMAIN prog -> Int],
         \A u \in DOMAIN prog : t[u] = IF s[u] = i THEN c ELSE s[u],
         s[i] = i => Justified(t, i)'
  PROVE  SubstOK(t)'
<1>1. /\ WellFormed(prog) /\ ValuesStay(prog) /\ args \in [DOMAIN prog -> Seq(Int)]
      /\ \A j \in DOMAIN prog : Len(args[j]) = Len(prog[j].args) /\ prog[j].args \in Seq(Int)
      /\ DOMAIN prog = 1 .. Len(prog) /\ Len(prog) \in Nat
  BY ProgramFacts, ValuesStayInBlocks DEF OptIInv, IRTypeOK, SetsOK, ShapeOK
<1>2. \A j \in DOMAIN prog : \A k \in DOMAIN args[j] :
        args'[j][k] = IF args[j][k] = i THEN c ELSE args[j][k]
  BY ReplacedKeeps
<1>3. OperandsBy(t)'
  <2> SUFFICES ASSUME NEW j \in DOMAIN prog, NEW k \in DOMAIN prog[j].args,
                      NEW w, w = prog[j].args[k]
               PROVE  args'[j][k] = Subst(t, w)
    BY DEF OperandsBy, Subst
  <2>1. k \in DOMAIN args[j] /\ w \in Int /\ (w > 0 => w < j)
    BY <1>1 DEF ValuesStay
  <2>2. args[j][k] = Subst(s, w)
    BY DEF SubstOK, OperandsBy
  <2>3. args'[j][k] = IF Subst(s, w) = i THEN c ELSE Subst(s, w)
    BY <2>1, <2>2, <1>2
  <2>4. CASE w > 0
    <3>1. j \in 1 .. Len(prog) /\ Len(prog) \in Nat /\ DOMAIN prog = 1 .. Len(prog)
      BY <1>1
    <3>2. w \in DOMAIN prog
      BY <3>1, <2>1, <2>4
    <3> QED BY <3>2, <2>3, <2>4 DEF Subst
  <2>5. CASE ~(w > 0)
    <3>1. w # i
      BY <2>1, <2>5, <1>1
    <3> QED BY <3>1, <2>3, <2>5 DEF Subst
  <2> QED BY <2>4, <2>5
<1>4. ASSUME NEW v \in DOMAIN prog PROVE Justified(t, v)'
  <2>1. CASE s[v] = v /\ v = i
    BY <2>1
  <2>2. CASE s[v] = v /\ v # i
    BY <2>2 DEF Justified
  <2>3. CASE FoldedTo(s, v)
    <3>1. Foldable(v)' /\ Value(v)' = Value(v)
      BY <2>3, FoldableStays DEF FoldedTo
    <3>2. s[v] # i
      <4>1. Value(v) < 0
        BY <2>3, FoldedWord DEF FoldedTo
      <4> QED BY <4>1, <2>3, <1>1 DEF FoldedTo
    <3>3. t[v] = s[v]
      BY <3>2
    <3> QED BY <3>1, <3>3, <2>3 DEF FoldedTo, Justified
  <2>4. CASE \E p \in DOMAIN prog : SharedWith(s, v, p)
    <3>1. PICK p \in DOMAIN prog : SharedWith(s, v, p)
      BY <2>4
    <3>2. args'[p] = args'[v] /\ t[v] = t[p]
      BY <3>1, ReplacedKeeps DEF SharedWith
    <3>3. NoStoreBetween(p, v)'
      BY <3>1, SameProgram DEF SharedWith, NoStoreBetween, Is, SameVar
    <3>4. SharedWith(t, v, p)'
      BY <3>1, <3>2, <3>3 DEF SharedWith, Pure
    <3> QED BY <3>4 DEF Justified
  <2>5. CASE LoadsConstant(s, v)
    <3>1. t[v] = s[v] /\ s[v] < 0 /\ Is(v, "load")
      BY <2>5, <1>1 DEF LoadsConstant, IsConstant
    <3>2. ASSUME NEW q \in StoreSet, SameVar(q, v), v \in ReachedFrom(q) PROVE args'[q][1] = s[v]
      <4>1. args[q][1] = s[v]
        BY <2>5, <3>2 DEF LoadsConstant
      <4>2. q \in DOMAIN prog /\ Len(args[q]) = 1 /\ args[q] \in Seq(Int)
        BY <1>1, ProgramFacts DEF StoreSet
      <4>3. 1 \in DOMAIN args[q]
        BY <4>2
      <4> QED BY <4>1, <4>2, <4>3, <3>1, ReplacedKeeps
    <3>3. LoadsConstant(t, v)'
      BY <3>1, <3>2, SameProgram DEF LoadsConstant, IsConstant, Is, SameVar
    <3> QED BY <3>3 DEF Justified
  <2>6. Justified(s, v)
    BY DEF SubstOK
  <2> QED BY <2>1, <2>2, <2>3, <2>4, <2>5, <2>6 DEF Justified
<1>5. Settles(t)'
  <2>1. \A u \in DOMAIN prog :
          s[u] <= u /\ (s[u] > 0 => s[u] \in DOMAIN prog /\ s[s[u]] = s[u])
    BY DEF SubstOK, Settles
  <2> SUFFICES ASSUME NEW u \in DOMAIN prog
               PROVE  t[u] <= u /\ (t[u] > 0 => t[u] \in DOMAIN prog /\ t[t[u]] = t[u])
    BY DEF Settles
  <2>2. CASE s[u] = i
    <3>1. s[i] = i
      BY <2>1, <2>2, <1>1
    <3>2. t[u] = c /\ i <= u
      BY <2>1, <2>2
    <3>3. CASE c < 0
      BY <3>2, <3>3, <1>1
    <3>4. CASE c \in DOMAIN prog /\ c < i /\ s[c] = c
      <4>1. c \in Nat /\ i \in Nat /\ u \in Nat
        BY <1>1, <3>4
      <4>2. c <= u /\ c # i
        BY <4>1, <3>2, <3>4
      <4>3. t[c] = c
        BY <4>2, <3>4
      <4> QED BY <4>2, <4>3, <3>2, <3>4
    <3> QED BY <3>1, <3>3, <3>4
  <2>3. CASE s[u] # i
    BY <2>1, <2>3
  <2> QED BY <2>2, <2>3
<1> QED BY <1>3, <1>4, <1>5 DEF SubstOK

\* With the operands as they are, the substitution stays as good as it is.
LEMMA SubstSame ==
  ASSUME prog' = prog, args' = args, NEW s, SubstOK(s)
  PROVE  SubstOK(s)'
<1>1. \A v : /\ Foldable(v)' <=> Foldable(v)
             /\ Value(v)' = Value(v)
  BY DEF Foldable, Is, Value
<1>2. \A v : FoldedTo(s, v)' <=> FoldedTo(s, v)
  BY <1>1 DEF FoldedTo
<1>3. \A v, p : SharedWith(s, v, p)' <=> SharedWith(s, v, p)
  BY SameProgram DEF SharedWith, NoStoreBetween, Is, SameVar, Pure
<1>4. \A v : LoadsConstant(s, v)' <=> LoadsConstant(s, v)
  BY SameProgram DEF LoadsConstant, Is, SameVar
<1>5. \A v : Justified(s, v)' <=> Justified(s, v)
  BY <1>2, <1>3, <1>4 DEF Justified
<1>6. OperandsBy(s)' /\ Settles(s)'
  BY DEF SubstOK, OperandsBy, Settles
<1> QED BY <1>5, <1>6 DEF SubstOK

\* Nothing is claimed of the first loop outside it, nor of keys outside CSE.
LEMMA OutsideFirst ==
  ASSUME OptIInv', phase' \notin {"fold", "cse", "dce"}, NEW s
  PROVE  FreshOK(s)' /\ KeysOK(s)'
BY DEF FreshOK, KeysOK, OptIInv, VisitedOK

\* An instruction that has been substituted stands for nothing any more.
LEMMA NothingLeft ==
  ASSUME NEW s \in [DOMAIN prog -> Int], SubstOK(s), WellFormed(prog),
         NEW i \in DOMAIN prog, s[i] # i
  PROVE  \A u \in DOMAIN prog : s[u] # i
<1> SUFFICES ASSUME NEW u \in DOMAIN prog, s[u] = i PROVE FALSE
  OBVIOUS
<1>1. i > 0
  BY ProgramFacts
<1> QED BY <1>1 DEF SubstOK, Settles

\* Folding an instruction, in either loop.
LEMMA FoldSubst ==
  ASSUME OptIInv, OptIInv', FoldInstr, NEW s, Substitution(s)
  PROVE  \E t : Substitution(t)'
<1>1. /\ Foldable(pc) /\ args' = Replaced(args, pc, Value(pc)) /\ StepOn
      /\ UNCHANGED <<prog, present, visited, phase, bb>> /\ phase \in {"fold", "refold"}
  BY DEF FoldInstr, StepOn, Folding
<1>2. PICK i \in DOMAIN prog : i = pc
  BY DEF OptIInv, SetsOK, SetsTypeOK
<1>3. /\ pc \in present /\ prog[pc].bb = bb /\ present \subseteq DOMAIN prog /\ WellFormed(prog)
      /\ DOMAIN prog = 1 .. Len(prog) /\ Len(prog) \in Nat
      /\ s \in [DOMAIN prog -> Int] /\ SubstOK(s) /\ FreshOK(s)
  BY <1>1, ProgramFacts
     DEF OptIInv, IRTypeOK, PlaceOK, LocalPhases, InstrsOf, Substitution
<1>0. ~(bb > bb)
  <2>1. bb \in Nat
    BY <1>3, ProgramFacts DEF OptIInv, SetsOK, SetsTypeOK
  <2> QED BY <2>1
<1>4. PICK c \in Int : c = Value(pc) /\ c < 0
  BY <1>1, <1>2, FoldedWord
<1>5. PICK t \in [DOMAIN prog -> Int] :
        \A u \in DOMAIN prog : t[u] = IF s[u] = i THEN c ELSE s[u]
  <2>1. [u \in DOMAIN prog |-> IF s[u] = i THEN c ELSE s[u]] \in [DOMAIN prog -> Int]
    BY <1>3
  <2> QED BY <2>1
<1>6. Foldable(i)' /\ Value(i)' = c
  BY <1>1, <1>2, <1>4, FoldableStays
<1>7. SubstOK(t)'
  <2>1. s[i] = i => Justified(t, i)'
    BY <1>5, <1>6 DEF Justified, FoldedTo
  <2>2. prog' = prog /\ args' = Replaced(args, i, c)
    BY <1>1, <1>2, <1>4
  <2>3. s \in [DOMAIN prog -> Int] /\ SubstOK(s)
    BY <1>3
  <2>4. OptIInv /\ c \in Int /\ c < 0
    BY <1>4
  <2> QED BY <2>1, <2>2, <2>3, <2>4, <1>5, SubstStep
<1>8. FreshOK(t)'
  <2> SUFFICES ASSUME phase = "fold", NEW u \in DOMAIN prog
               PROVE  /\ prog[u].bb > bb => t[u] = u
                      /\ prog[u].bb = bb =>
                           /\ t[u] = u \/ Foldable(u)'
                           /\ Foldable(u)' /\ u < pc' /\ u \in present => t[u] # u
    BY <1>1 DEF FreshOK
  <2>1. Foldable(u) => Foldable(u)'
    BY <1>1, <1>2, FoldableStays
  <2>2. CASE prog[u].bb > bb
    <3>1. s[u] = u /\ prog[u].bb # bb
      BY <2>2, <1>0, <1>3 DEF FreshOK
    <3>2. t[u] = u
      BY <3>1, <1>2, <1>3, <1>5
    <3> QED BY <3>1, <3>2
  <2>3. CASE prog[u].bb = bb
    <3>1. t[u] = u \/ Foldable(u)'
      BY <2>1, <2>3, <1>3, <1>5, <1>6 DEF FreshOK
    <3>2. ASSUME Foldable(u)', u < pc', u \in present PROVE t[u] # u
      <4>1. u < pc \/ u = pc
        <5>1. EndOf(bb) \in present /\ pc < EndOf(bb) /\ prog[EndOf(bb)].bb = bb
          BY <1>1, <1>2, FoldedWord, PureFollowed DEF LocalPhases
        <5>2. u <= pc
          BY <1>1, <1>3, <3>2, <5>1, StepOnFacts DEF LocalPhases
        <5> QED BY <5>2, <1>3
      <4>2. CASE u = pc
        BY <4>2, <1>2, <1>3, <1>4, <1>5
      <4>3. CASE u < pc
        <5>1. i \notin ToSet(args[u])
          <6>1. \A v \in ToSet(args[u]) : v \in Int /\ v < u
            BY <1>3, OperandsBefore
          <6> QED BY <6>1, <4>3, <1>2, <1>3
        <5>2. args'[u] = args[u]
          BY <5>1, <1>1, <1>2, ReplacedKeeps
        <5>3. Foldable(u)
          BY <5>2, <3>2, <1>1 DEF Foldable, Is
        <5>4. s[u] # u
          BY <5>3, <4>3, <3>2, <2>3, <1>3 DEF FreshOK
        <5> QED BY <5>4, <1>3, <1>4, <1>5
      <4> QED BY <4>1, <4>2, <4>3
    <3>3. ~(prog[u].bb > bb)
      BY <2>3, <1>0
    <3> QED BY <3>1, <3>2, <3>3
  <2> QED BY <2>2, <2>3
<1>9. KeysOK(t)'
  BY <1>1 DEF KeysOK, OptIInv, VisitedOK
<1>10. t \in [DOMAIN prog' -> Int]
  BY <1>1
<1> QED BY <1>7, <1>8, <1>9, <1>10 DEF Substitution

\* What CSE has seen depends on operands before it only, which a replacement at pc keeps.
LEMMA KeptBefore ==
  ASSUME OptIInv, NEW s \in [DOMAIN prog -> Int], SubstOK(s), NEW i \in DOMAIN prog, NEW c,
         prog' = prog, args' = Replaced(args, i, c), NEW q \in DOMAIN prog, q <= i
  PROVE  args'[q] = args[q] /\ Key(q)' = Key(q) /\ (Foldable(q)' <=> Foldable(q))
<1>1. DOMAIN prog \subseteq Nat
  BY ProgramFacts DEF OptIInv, IRTypeOK
<1>2. i \notin ToSet(args[q])
  <2>1. \A v \in ToSet(args[q]) : v \in Int /\ v < q
    BY OperandsBefore
  <2> QED BY <1>1, <2>1
<1>3. args'[q] = args[q]
  BY <1>2, ReplacedKeeps
<1> QED BY <1>3 DEF Key, Foldable, Is

\* An instruction that repeats an earlier one of its block is shared with it.
LEMMA RepeatIsShared ==
  ASSUME OptIInv, phase = "cse", Pure(pc), Repeats(pc), ComparisonsAgree(prog),
         NEW p, p = visited[Key(pc)], Key(p) = Key(pc)
  PROVE  /\ p \in present /\ p < pc /\ prog[p].bb = bb /\ prog[pc].bb = bb
         /\ prog[p].op = prog[pc].op /\ prog[p].sym = prog[pc].sym /\ args[p] = args[pc]
         /\ NoStoreBetween(p, pc)
<1>1. /\ WellFormed(prog) /\ pc \in InstrsOf(bb) /\ present \subseteq DOMAIN prog /\ KeptOK
      /\ p \in InstrsOf(bb) /\ p < pc /\ Safe(p, pc)
  BY DEF OptIInv, IRTypeOK, PlaceOK, LocalPhases, VisitedOK, Repeats
<1>2. p \in present /\ prog[p].bb = bb /\ pc \in present /\ prog[pc].bb = bb
  BY <1>1 DEF InstrsOf
<1>3. /\ prog[p].op = prog[pc].op /\ args[p] = args[pc]
      /\ prog[pc].op # "icmp" => prog[p].sym = prog[pc].sym
  BY DEF Key, Is
<1>4. prog[p].sym = prog[pc].sym
  BY <1>1, <1>2, <1>3 DEF ComparisonsAgree
<1>5. NoStoreBetween(p, pc)
  <2> SUFFICES ASSUME Is(pc, "load"), NEW t \in StoreSet, p < t, t < pc, SameVar(t, pc)
               PROVE  FALSE
    BY DEF NoStoreBetween
  <2>1. t \in DOMAIN prog /\ Is(t, "store")
    BY DEF StoreSet, Is
  <2>2. p \in Nat /\ t \in Nat /\ pc \in Nat /\ p \in DOMAIN prog /\ pc \in DOMAIN prog
    BY <1>1, <1>2, <2>1, ProgramFacts
  <2>3. prog[t].bb = bb
    BY <1>1, <1>2, <2>1, <2>2, BlockFacts
  <2>4. t \in InstrsOf(bb)
    BY <1>1, <2>1, <2>3 DEF KeptOK, Pure, Is, InstrsOf
  <2> QED BY <1>1, <2>1, <2>4 DEF Safe
<1> QED BY <1>1, <1>2, <1>3, <1>4, <1>5

\* Sharing an instruction with an earlier one.
LEMMA ShareSubst ==
  ASSUME OptIInv, OptIInv', ShareInstr, NEW s, Substitution(s), ComparisonsAgree(prog)
  PROVE  \E t : Substitution(t)'
<1> DEFINE p == visited[Key(pc)]
<1>1. /\ phase = "cse" /\ Pure(pc) /\ Repeats(pc) /\ Key(pc) \in DOMAIN visited /\ StepOn
      /\ args' = Replaced(args, pc, p) /\ UNCHANGED <<prog, present, visited, phase, bb>>
  BY DEF ShareInstr, Repeats, StepOn, localvars
<1>2. PICK i \in DOMAIN prog : i = pc
  BY DEF OptIInv, SetsOK, SetsTypeOK
<1>3. PICK c \in DOMAIN prog : c = p
  BY <1>1 DEF OptIInv, IRTypeOK, VisitedOK, InstrsOf
<1>4. /\ s \in [DOMAIN prog -> Int] /\ SubstOK(s) /\ FreshOK(s) /\ KeysOK(s)
      /\ WellFormed(prog) /\ DOMAIN prog = 1 .. Len(prog) /\ Len(prog) \in Nat
      /\ i \in present /\ phase \in LocalPhases
  BY <1>1, <1>2, ProgramFacts
     DEF Substitution, OptIInv, IRTypeOK, PlaceOK, LocalPhases, InstrsOf
<1>5. Key(p) = Key(pc) /\ (s[c] = c \/ Foldable(c))
  BY <1>1, <1>3, <1>4 DEF KeysOK
<1>6. /\ c \in present /\ c < i /\ prog[c].bb = bb /\ prog[i].bb = bb
      /\ prog[c].op = prog[i].op /\ prog[c].sym = prog[i].sym /\ args[c] = args[i]
      /\ NoStoreBetween(c, i)
  BY <1>1, <1>2, <1>3, <1>5, RepeatIsShared
<1> HIDE DEF p
<1>7. args' = Replaced(args, i, c) /\ prog' = prog /\ Pure(i)
  BY <1>1, <1>2, <1>3
<1>8. s[i] = i => s[c] = c
  <2> SUFFICES ASSUME s[i] = i PROVE s[c] = c
    OBVIOUS
  <2>1. ~Foldable(i)
    BY <1>1, <1>4, <1>6 DEF FreshOK
  <2>2. ~Foldable(c)
    BY <2>1, <1>6 DEF Foldable, Is
  <2> QED BY <2>2, <1>5
<1>9. PICK t \in [DOMAIN prog -> Int] :
        \A u \in DOMAIN prog : t[u] = IF s[u] = i THEN c ELSE s[u]
  <2>1. [u \in DOMAIN prog |-> IF s[u] = i THEN c ELSE s[u]] \in [DOMAIN prog -> Int]
    BY <1>4
  <2> QED BY <2>1
<1>10. c \in Int /\ i \in Int /\ i > 0 /\ c > 0
  BY <1>4
<1>11. s[i] = i => Justified(t, i)'
  <2> SUFFICES ASSUME s[i] = i PROVE SharedWith(t, i, c)'
    BY <1>7 DEF Justified
  <2>1. t[i] = c /\ t[c] = c
    BY <1>8, <1>9, <1>6, <1>10
  <2>2. args'[c] = args'[i]
    BY <1>6, <1>7, ReplacedKeeps
  <2>3. NoStoreBetween(c, i)'
    BY <1>6, <1>7, SameProgram DEF NoStoreBetween, Is, SameVar
  <2> QED BY <1>6, <1>7, <2>1, <2>2, <2>3 DEF SharedWith, Pure
<1>12. SubstOK(t)'
  <2>1. c \in DOMAIN prog /\ c < i /\ (s[i] = i => s[c] = c)
    BY <1>6, <1>8
  <2>2. args' = Replaced(args, i, c) /\ prog' = prog /\ c \in Int
    BY <1>7, <1>10
  <2>3. s \in [DOMAIN prog -> Int] /\ SubstOK(s)
    BY <1>4
  <2> QED BY <2>1, <2>2, <2>3, <1>9, <1>11, SubstStep
<1>13. \A q \in DOMAIN prog : q <= i =>
          args'[q] = args[q] /\ Key(q)' = Key(q) /\ (Foldable(q)' <=> Foldable(q))
  BY <1>4, <1>7, KeptBefore
<1>14. FreshOK(t)'
  <2> SUFFICES ASSUME NEW u \in DOMAIN prog
               PROVE  /\ prog[u].bb > bb => t[u] = u
                      /\ prog[u].bb = bb =>
                           /\ u >= pc' => t[u] = u \/ Foldable(u)'
                           /\ Foldable(u)' /\ u \in present => t[u] # u
    BY <1>1 DEF FreshOK
  <2>1. Foldable(u) => Foldable(u)'
    BY <1>7, FoldableStays
  <2>2. Foldable(u)' => Foldable(u)
    <3> SUFFICES ASSUME Foldable(u)' PROVE Foldable(u)
      OBVIOUS
    <3>1. args[u] \in Seq(Int) /\ Len(args[u]) = Len(prog[u].args) /\ prog[u].op = "arith"
      BY <1>7 DEF OptIInv, IRTypeOK, SetsOK, ShapeOK, Foldable, Is
    <3>2. Len(args[u]) = 2
      BY <3>1, <1>4 DEF WellFormed
    <3>3. 1 \in DOMAIN args[u] /\ 2 \in DOMAIN args[u]
      BY <3>1, <3>2
    <3>4. \A k \in DOMAIN args[u] : args'[u][k] = IF args[u][k] = i THEN c ELSE args[u][k]
      BY <1>7, ReplacedKeeps
    <3>5. args'[u][1] < 0 /\ args'[u][2] < 0
      BY DEF Foldable, IsConstant
    <3>6. args[u][1] < 0 /\ args[u][2] < 0
      BY <3>3, <3>4, <3>5, <1>10
    <3> QED BY <3>1, <3>6 DEF Foldable, Is, IsConstant
  <2>3. CASE prog[u].bb > bb
    <3>1. s[u] = u
      BY <1>1, <1>4, <2>3 DEF FreshOK
    <3>2. bb \in Nat
      BY <1>4, ProgramFacts DEF OptIInv, SetsOK, SetsTypeOK
    <3>3. prog[u].bb # bb
      BY <2>3, <3>2
    <3> QED BY <3>1, <3>3, <1>6, <1>9
  <2>4. CASE prog[u].bb = bb
    <3>0. bb \in Nat
      BY <1>4, ProgramFacts DEF OptIInv, SetsOK, SetsTypeOK
    <3>1. ASSUME u >= pc' PROVE t[u] = u \/ Foldable(u)'
      <4>1. u >= pc /\ u # i
        <5>1. EndOf(bb) \in present /\ pc < EndOf(bb) /\ prog[EndOf(bb)].bb = bb
          BY <1>1, <1>4, PureFollowed
        <5>2. pc < pc' /\ pc' \in DOMAIN prog
          BY <1>1, <1>4, <5>1, StepOnFacts DEF OptIInv, IRTypeOK
        <5> QED BY <3>1, <5>2, <1>2, <1>4
      <4>2. s[u] = u \/ Foldable(u)
        BY <4>1, <1>1, <1>4, <2>4 DEF FreshOK
      <4> QED BY <4>1, <4>2, <2>1, <1>9
    <3>2. ASSUME Foldable(u)', u \in present PROVE t[u] # u
      <4>1. s[u] # u
        BY <2>2, <3>2, <1>1, <1>4, <2>4 DEF FreshOK
      <4>2. s[u] = i => c # u
        <5>1. s[u] <= u
          BY <1>4 DEF SubstOK, Settles
        <5> QED BY <5>1, <1>6, <1>10, <1>4
      <4> QED BY <4>1, <4>2, <1>9
    <3>3. ~(prog[u].bb > bb)
      BY <2>4, <3>0
    <3> QED BY <3>1, <3>2, <3>3
  <2>5. CASE ~(prog[u].bb > bb) /\ prog[u].bb # bb
    BY <2>5
  <2> QED BY <2>3, <2>4, <2>5
<1>15. KeysOK(t)'
  <2> SUFFICES ASSUME NEW key \in DOMAIN visited, NEW q, q = visited[key]
               PROVE  Key(q)' = key /\ (t[q] = q \/ Foldable(q)')
    BY <1>1 DEF KeysOK
  <2>1. q \in DOMAIN prog /\ q < i
    BY <1>2 DEF OptIInv, IRTypeOK, VisitedOK, InstrsOf
  <2>2. Key(q) = key /\ (s[q] = q \/ Foldable(q))
    BY <1>4 DEF KeysOK
  <2>3. q # i /\ q <= i
    BY <2>1, <1>4
  <2> QED BY <2>1, <2>2, <2>3, <1>9, <1>13
<1> QED BY <1>1, <1>12, <1>14, <1>15 DEF Substitution

\* The same substitution for the same operands, and the same is foldable.
LEMMA SameOperands ==
  ASSUME prog' = prog, args' = args
  PROVE  \A i : /\ Foldable(i)' <=> Foldable(i)
                /\ Key(i)' = Key(i)
BY DEF Foldable, Is, Key

\* A walk goes on, and nothing is replaced.
LEMMA WalkSubst ==
  ASSUME OptIInv, OptIInv', StepOn, UNCHANGED <<prog, args>>, phase \in LocalPhases,
         Pure(pc) \/ ~AtEnd, present' \subseteq present,
         \A j \in present : j > pc => j \in present',
         phase = "fold" => ~Foldable(pc),
         NEW s, s \in [DOMAIN prog -> Int], SubstOK(s), FreshOK(s)
  PROVE  SubstOK(s)' /\ FreshOK(s)' /\ s \in [DOMAIN prog' -> Int]
<1>1. /\ WellFormed(prog) /\ present \subseteq DOMAIN prog /\ DOMAIN prog \subseteq Nat
      /\ pc \in DOMAIN prog
  BY ProgramFacts DEF OptIInv, IRTypeOK, SetsOK, SetsTypeOK
<1>2. EndOf(bb) \in present /\ pc < EndOf(bb) /\ prog[EndOf(bb)].bb = bb
  BY PureFollowed
<1>3. /\ pc < pc' /\ pc' \in DOMAIN prog /\ bb' = bb /\ phase' = phase
      /\ \A j \in present : j < pc' => j <= pc
  BY <1>1, <1>2, StepOnFacts
<1>4. SubstOK(s)'
  BY SubstSame
<1>5. FreshOK(s)'
  <2> SUFFICES ASSUME NEW u \in DOMAIN prog
               PROVE  /\ phase \in {"fold", "cse", "dce"} /\ prog[u].bb > bb => s[u] = u
                      /\ phase = "fold" /\ prog[u].bb = bb =>
                           /\ s[u] = u \/ Foldable(u)
                           /\ Foldable(u) /\ u < pc' /\ u \in present' => s[u] # u
                      /\ phase = "cse" /\ prog[u].bb = bb =>
                           /\ u >= pc' => s[u] = u \/ Foldable(u)
                           /\ Foldable(u) /\ u \in present' => s[u] # u
    BY <1>3, SameOperands DEF FreshOK
  <2>1. u >= pc' => u >= pc
    BY <1>1, <1>3
  <2>2. phase = "fold" /\ Foldable(u) /\ u < pc' /\ u \in present' => u < pc
    BY <1>1, <1>3
  <2>3. u \in present' => u \in present
    OBVIOUS
  <2> QED BY <2>1, <2>2, <2>3 DEF FreshOK
<1> QED BY <1>4, <1>5

\* Nothing to do, or something to erase, which has no operand to replace any more.
LEMMA IdleSubst ==
  ASSUME OptIInv, OptIInv', SkipInstr \/ EraseInstr, NEW s, Substitution(s)
  PROVE  Substitution(s)'
<1>1. /\ StepOn /\ UNCHANGED <<prog, args, visited>> /\ phase \in LocalPhases
      /\ Pure(pc) \/ ~AtEnd
      /\ present' \subseteq present
      /\ present' \in {present, present \ {pc}}
      /\ phase = "fold" => ~Foldable(pc)
  BY DEF SkipInstr, EraseInstr, Folding, Erasing, Dead, LocalPhases, irvars, localvars
<1>2. \A j \in present : j > pc => j \in present'
  <2>1. pc \in Nat
    BY ProgramFacts DEF OptIInv, IRTypeOK, SetsOK, SetsTypeOK
  <2> QED BY <1>1, <2>1
<1>3. s \in [DOMAIN prog -> Int] /\ SubstOK(s) /\ FreshOK(s) /\ KeysOK(s)
  BY DEF Substitution
<1>4. Pure(pc) \/ ~AtEnd
  BY <1>1
<1>5. SubstOK(s)' /\ FreshOK(s)' /\ s \in [DOMAIN prog' -> Int]
  BY <1>1, <1>2, <1>3, <1>4, WalkSubst
<1>6. KeysOK(s)'
  BY <1>1, <1>3, SameOperands DEF KeysOK
<1> QED BY <1>5, <1>6 DEF Substitution

\* What CSE sees for the first time has not been replaced, unless it was folded.
LEMMA VisitSubst ==
  ASSUME OptIInv, OptIInv', VisitInstr, NEW s, Substitution(s)
  PROVE  Substitution(s)'
<1>1. /\ StepOn /\ UNCHANGED <<prog, args, present>> /\ phase = "cse" /\ phase \in LocalPhases
      /\ Pure(pc)
      /\ visited' = [key \in DOMAIN visited \cup {Key(pc)} |->
                       IF key = Key(pc) THEN pc ELSE visited[key]]
  BY DEF VisitInstr, LocalPhases, irvars
<1>2. s \in [DOMAIN prog -> Int] /\ SubstOK(s) /\ FreshOK(s) /\ KeysOK(s)
  BY DEF Substitution
<1>3. SubstOK(s)' /\ FreshOK(s)' /\ s \in [DOMAIN prog' -> Int]
  BY <1>1, <1>2, WalkSubst
<1>4. s[pc] = pc \/ Foldable(pc)
  <2>1. pc \in DOMAIN prog /\ prog[pc].bb = bb /\ pc \in Nat
    BY <1>1, ProgramFacts DEF OptIInv, IRTypeOK, PlaceOK, InstrsOf
  <2>2. pc >= pc
    BY <2>1
  <2> QED BY <2>1, <2>2, <1>1, <1>2 DEF FreshOK
<1>5. KeysOK(s)'
  <2> SUFFICES ASSUME NEW key \in DOMAIN visited', NEW q, q = visited'[key]
               PROVE  Key(q) = key /\ (s[q] = q \/ Foldable(q))
    BY <1>1, SameOperands DEF KeysOK
  <2>1. CASE key = Key(pc)
    BY <1>1, <1>4, <2>1
  <2>2. CASE key # Key(pc)
    BY <1>1, <1>2, <2>2 DEF KeysOK
  <2> QED BY <2>1, <2>2
<1> QED BY <1>3, <1>5 DEF Substitution

\* From one pass or block to the next.
LEMMA EndSubst ==
  ASSUME OptIInv, OptIInv', EndOfBlock("start", AfterRound), NEW s, Substitution(s)
  PROVE  Substitution(s)'
<1>1. /\ AtEnd /\ UNCHANGED <<prog, args, present>> /\ visited' = <<>>
      /\ phase \in LocalPhases
  BY DEF EndOfBlock, EndPass, Begin, irvars, LocalPhases
<1>2. /\ WellFormed(prog) /\ present \subseteq DOMAIN prog /\ DOMAIN prog \subseteq Nat
      /\ pc \in DOMAIN prog /\ bb \in Blocks /\ bb \in Nat
      /\ \A u \in DOMAIN prog : prog[u].bb \in Nat
  BY ProgramFacts DEF OptIInv, IRTypeOK, SetsOK, SetsTypeOK
<1>3. s \in [DOMAIN prog -> Int] /\ SubstOK(s) /\ FreshOK(s)
  BY DEF Substitution
<1>4. SubstOK(s)'
  BY <1>1, <1>3, SubstSame
<1>5. KeysOK(s)'
  BY <1>1 DEF KeysOK
<1>6. FreshOK(s)'
  <2>1. CASE phase = "fold"
    <3>1. phase' = "cse" /\ bb' = bb
      BY <2>1 DEF EndOfBlock, Begin
    <3>2. \A u \in DOMAIN prog : Foldable(u) /\ prog[u].bb = bb => u < pc
      <4> SUFFICES ASSUME NEW u \in DOMAIN prog, Foldable(u), prog[u].bb = bb PROVE u < pc
        OBVIOUS
      <4>1. u <= pc
        BY <1>1 DEF AtEnd
      <4>2. EndOf(bb) \in DOMAIN prog /\ prog[EndOf(bb)].bb = bb
            /\ prog[EndOf(bb)].op \in Terminators
            /\ \A i \in DOMAIN prog : prog[i].bb = bb => i <= EndOf(bb)
        BY <1>2, BlockFacts, TerminatorStays
      <4>3. EndOf(bb) <= pc
        BY <4>2, <1>1 DEF AtEnd
      <4>4. prog[pc].bb = bb
        BY <1>1 DEF OptIInv, PlaceOK, InstrsOf
      <4>5. pc = EndOf(bb)
        BY <4>2, <4>3, <4>4, <1>2
      <4>6. u # pc
        BY <4>2, <4>5 DEF Foldable, Is, Terminators
      <4> QED BY <4>1, <4>6, <1>2
    <3> QED BY <3>1, <3>2, <2>1, <1>1, <1>3, SameOperands DEF FreshOK
  <2>2. CASE phase = "cse"
    <3>1. phase' = "dce" /\ bb' = bb
      BY <2>2 DEF EndOfBlock, Begin
    <3> QED BY <3>1, <2>2, <1>1, <1>3 DEF FreshOK
  <2>3. CASE phase = "dce" /\ again
    <3>1. phase' = "dce" /\ bb' = bb
      BY <2>3 DEF EndOfBlock, EndPass, Begin
    <3> QED BY <3>1, <2>3, <1>1, <1>3 DEF FreshOK
  <2>4. CASE phase = "dce" /\ ~again /\ ~LastBlock
    <3>1. phase' = "fold" /\ bb' = bb + 1 /\ pc' = Min(InstrsOf(bb + 1))
      BY <2>4 DEF EndOfBlock, EndPass, Begin
    <3>2. bb + 1 \in Blocks
      BY <2>4, <1>2, ProgramFacts DEF LastBlock, N
    <3>3. \A u \in present : prog[u].bb = bb + 1 => ~(u < pc')
      <4>1. \A u \in InstrsOf(bb + 1) : pc' <= u
        BY <3>1, <3>2, FirstThere
      <4>2. pc' \in InstrsOf(bb + 1)
        BY <3>1, <3>2, FirstThere
      <4>3. \A u \in InstrsOf(bb + 1) : u \in Nat
        BY <1>2 DEF InstrsOf
      <4> QED BY <4>1, <4>2, <4>3 DEF InstrsOf
    <3>4. \A u \in DOMAIN prog :
            prog[u].bb > bb + 1 \/ prog[u].bb = bb + 1 => prog[u].bb > bb
      BY <1>2
    <3>5. \A u \in DOMAIN prog : prog[u].bb > bb => s[u] = u
      BY <2>4, <1>3 DEF FreshOK
    <3> QED BY <3>1, <3>3, <3>4, <3>5, <1>1 DEF FreshOK
  <2>5. CASE phase \in {"refold", "redce"} \/ (phase = "dce" /\ ~again /\ LastBlock)
    <3>1. phase' \notin {"fold", "cse", "dce"}
      BY <2>5 DEF EndOfBlock, EndPass, Begin, AfterRound
    <3> QED BY <3>1, OutsideFirst
  <2> QED BY <1>1, <2>1, <2>2, <2>3, <2>4, <2>5 DEF LocalPhases
<1> QED BY <1>1, <1>3, <1>4, <1>5, <1>6 DEF Substitution

\* A load that only stores of one constant reach.
LEMMA LoadSubst ==
  ASSUME OptIInv, OptIInv', ReplaceLoad, NEW s, Substitution(s)
  PROVE  \E t : Substitution(t)'
<1>1. phase = "sweep" /\ Is(pc, "load") /\ prog' = prog
  BY DEF ReplaceLoad, Sweeping
<1>2. PICK i \in DOMAIN prog : i = pc
  BY DEF OptIInv, SetsOK, SetsTypeOK
<1>3. PICK w \in Stored : AllStore(w) /\ args' = Replaced(args, pc, w)
  BY DEF ReplaceLoad
<1>4. /\ args \in [DOMAIN prog -> Seq(Int)] /\ WellFormed(prog) /\ StoreSet \subseteq DOMAIN prog
      /\ \A q \in StoreSet : Len(args[q]) = 1
      /\ r = {q \in StoreSet : pc \in ReachedFrom(q)}
      /\ s \in [DOMAIN prog -> Int] /\ SubstOK(s)
  BY <1>1, ProgramFacts
     DEF OptIInv, IRTypeOK, SetsOK, ShapeOK, SweepExact, Substitution, StoreSet
<1>5. \A q \in StoreSet : args[q] \in Seq(Int) /\ 1 \in DOMAIN args[q] /\ args[q][1] \in Int
  <2> SUFFICES ASSUME NEW q \in StoreSet
               PROVE  args[q] \in Seq(Int) /\ 1 \in DOMAIN args[q] /\ args[q][1] \in Int
    OBVIOUS
  <2>1. args[q] \in Seq(Int) /\ Len(args[q]) = 1
    BY <1>4
  <2>2. 1 \in DOMAIN args[q]
    BY <2>1
  <2> QED BY <2>1, <2>2
<1>6. PICK c \in Int : c = w /\ c < 0
  BY <1>3, <1>4, <1>5 DEF Stored, Writes, AllStore, IsConstant
<1>7. PICK t \in [DOMAIN prog -> Int] :
        \A u \in DOMAIN prog : t[u] = IF s[u] = i THEN c ELSE s[u]
  <2>1. [u \in DOMAIN prog |-> IF s[u] = i THEN c ELSE s[u]] \in [DOMAIN prog -> Int]
    BY <1>4, <1>6
  <2> QED BY <2>1
<1>8. args' = Replaced(args, i, c)
  BY <1>2, <1>3, <1>6
<1>9. s[i] = i => Justified(t, i)'
  <2> SUFFICES ASSUME s[i] = i PROVE LoadsConstant(t, i)'
    BY DEF Justified
  <2>1. t[i] = c
    BY <1>7
  <2>2. ASSUME NEW q \in StoreSet, SameVar(q, i), i \in ReachedFrom(q) PROVE args'[q][1] = c
    <3>1. q \in Writes
      BY <2>2, <1>2, <1>4 DEF Writes
    <3>2. args[q][1] = c
      BY <3>1, <1>3, <1>6 DEF AllStore
    <3>3. q \in DOMAIN prog /\ 1 \in DOMAIN args[q]
      BY <1>4, <1>5
    <3> QED BY <3>2, <3>3, <1>1, <1>6, <1>8, ReplacedKeeps
  <2> QED BY <2>1, <2>2, <1>1, <1>2, <1>6, SameProgram DEF LoadsConstant, Is, IsConstant, SameVar
<1>10. SubstOK(t)'
  <2>1. c \in Int /\ c < 0 /\ prog' = prog /\ args' = Replaced(args, i, c)
    BY <1>1, <1>6, <1>8
  <2>2. s \in [DOMAIN prog -> Int] /\ SubstOK(s)
    BY <1>4
  <2> QED BY <2>1, <2>2, <1>7, <1>9, SubstStep
<1>11. phase' \notin {"fold", "cse", "dce"}
  BY <1>1 DEF ReplaceLoad, Advance
<1> QED BY <1>1, <1>7, <1>10, <1>11, OutsideFirst DEF Substitution

LEMMA InitSubst == ORInit => \E s : Substitution(s)
<1> SUFFICES ASSUME ORInit PROVE \E s : Substitution(s)
  OBVIOUS
<1>1. /\ prog \in Programs /\ args = [i \in DOMAIN prog |-> prog[i].args] /\ WellFormed(prog)
      /\ phase = "fold" /\ pc = 1 /\ visited = <<>> /\ ValuesStay(prog)
      /\ DOMAIN prog = 1 .. Len(prog) /\ Len(prog) \in Nat
  BY ProgramFacts, ProgramsAssumption, ValuesStayInBlocks DEF ORInit, OptInit, IRInit
<1>2. PICK s \in [DOMAIN prog -> Int] : \A v \in DOMAIN prog : s[v] = v
  <2>1. [v \in DOMAIN prog |-> v] \in [DOMAIN prog -> Int]
    BY <1>1
  <2> QED BY <2>1
<1>3. OperandsBy(s)
  <2> SUFFICES ASSUME NEW i \in DOMAIN prog, NEW k \in DOMAIN prog[i].args,
                      NEW w, w = prog[i].args[k]
               PROVE  w = Subst(s, w)
    BY <1>1 DEF OperandsBy
  <2>1. w \in Int /\ (w > 0 => w < i)
    BY <1>1, ProgramFacts DEF ValuesStay
  <2>2. w > 0 => w \in DOMAIN prog
    BY <2>1, <1>1
  <2> QED BY <2>2, <1>2 DEF Subst
<1>4. Settles(s) /\ \A v \in DOMAIN prog : Justified(s, v)
  BY <1>1, <1>2 DEF Settles, Justified
<1>5. FreshOK(s)
  <2>1. \A i \in DOMAIN prog : ~(i < 1)
    BY <1>1
  <2> QED BY <2>1, <1>1, <1>2 DEF FreshOK
<1>6. KeysOK(s)
  BY <1>1 DEF KeysOK
<1> QED BY <1>2, <1>3, <1>4, <1>5, <1>6 DEF Substitution, SubstOK

\* Constant propagation but for its replacements, and the runs.
LEMMA OtherSubst ==
  ASSUME OptIInv', UNCHANGED <<prog, args>>, phase' \notin {"fold", "cse", "dce"},
         NEW s, Substitution(s)
  PROVE  Substitution(s)'
BY SubstSame, OutsideFirst DEF Substitution

\* Whatever the optimizer does.
LEMMA OptimizeSubst ==
  ASSUME OptIInv, OptIInv', ComparisonsAgree(prog), Optimize, NEW s, Substitution(s)
  PROVE  \E t : Substitution(t)'
<1>1. CASE FoldInstr
  BY <1>1, FoldSubst
<1>2. CASE ShareInstr
  BY <1>2, ShareSubst
<1>3. CASE VisitInstr
  BY <1>3, VisitSubst
<1>4. CASE SkipInstr \/ EraseInstr
  BY <1>4, IdleSubst
<1>5. CASE EndOfBlock("start", AfterRound)
  BY <1>5, EndSubst
<1>6. CASE ReplaceLoad
  BY <1>6, LoadSubst
<1>7. CASE CPStart \/ FlowBlock \/ EnterSweep
  <2>1. UNCHANGED <<prog, args>> /\ phase' \notin {"fold", "cse", "dce"}
    BY <1>7 DEF CPStart, FlowBlock, EnterSweep, irvars
  <2> QED BY <2>1, OtherSubst
<1>8. CASE SweepStore \/ KeepLoad \/ SweepOther
  <2>1. UNCHANGED <<prog, args>> /\ phase' \notin {"fold", "cse", "dce"}
    BY <1>8 DEF SweepStore, KeepLoad, SweepOther, Sweeping, Advance
  <2> QED BY <2>1, OtherSubst
<1>9. CASE CountReplaces
  <2>1. UNCHANGED <<prog, args>> /\ phase' \notin {"fold", "cse", "dce"}
    BY <1>9 DEF CountReplaces, Begin, irvars
  <2> QED BY <2>1, OtherSubst
<1> QED BY <1>1, <1>2, <1>3, <1>4, <1>5, <1>6, <1>7, <1>8, <1>9
        DEF Optimize, LocalPass, LocalStep, PropagateConstants, Propagate

\* The runs only look.
LEMMA LookSubst ==
  ASSUME OptIInv, OptIInv', Looks, NEW s, Substitution(s)
  PROVE  Substitution(s)'
<1>1. /\ UNCHANGED <<prog, args, present, bb, pc, visited>>
      /\ phase' = phase \/ phase' = "run"
  BY DEF Looks, irvars, sweep, localvars
<1>2. CASE phase' = phase
  BY <1>1, <1>2, SubstSame, SameOperands DEF Substitution, FreshOK, KeysOK
<1>3. CASE phase' = "run"
  BY <1>1, <1>3, OtherSubst
<1> QED BY <1>1, <1>2, <1>3

-----------------------------------------------------------------------------
(***************************************************************************)
(* The two runs                                                            *)
(***************************************************************************)

Val == Int \cup {junk}

\* The valuation e says what every instruction of the function computes in the optimized
\* run from the operands it has now, also what has been erased.
Ideal(e, v) == IF IsConstant(v) THEN WordOf(v) ELSE IF v = 0 THEN param ELSE e[v]

Computed(i, a, b) ==
  IF a = junk \/ b = junk THEN junk
  ELSE IF Is(i, "arith") THEN Arith(prog[i].sym, a, b)
  ELSE IF Holds(prog[i].sym, a, b) THEN 1 ELSE 0

Result(e, i) == Computed(i, Ideal(e, args[i][1]), Ideal(e, args[i][2]))

Calculates(i) == Is(i, "arith") \/ Is(i, "icmp")

\* The values of this execution of the block.
Done(v) ==
  v \in DOMAIN prog /\ v < ip /\ prog[v].bb = prog[ip].bb /\ prog[v].op \in ValueOps

Unwritten(v) == \A t \in StoreSet : v < t /\ t < ip => ~SameVar(t, v)

ValueOK(s, e, v) ==
  /\ built.val[v] \in {junk, e[v]}
  /\ e[v] \in {junk, Ideal(e, s[v])}
  /\ v \in present => optimized.val[v] = e[v]
  /\ Calculates(v) => e[v] = Result(e, v)
  /\ Is(v, "load") /\ Unwritten(v) => e[v] = optimized.mem[prog[v].sym]

\* What a variable holds was stored by a store that reaches the instruction.
WrittenBy(t, x) ==
  /\ prog[t].sym = x /\ ip \in ReachedFrom(t)
  /\ IsConstant(args[t][1]) => optimized.mem[x] = WordOf(args[t][1])

VariableOK(x) ==
  /\ built.mem[x] \in {junk, optimized.mem[x]}
  /\ optimized.mem[x] = junk \/ \E t \in StoreSet : WrittenBy(t, x)

Runs == [val : [DOMAIN prog -> Val], mem : [Syms -> Val]]

RunTypeOK ==
  /\ ip \in DOMAIN prog /\ param \in Val
  /\ built \in Runs
  /\ optimized \in Runs

RunOK(s, e) ==
  /\ RunTypeOK
  /\ e \in [DOMAIN prog -> Val]
  /\ \A v : Done(v) => ValueOK(s, e, v)
  /\ \A x \in Syms : VariableOK(x)

-----------------------------------------------------------------------------

\* After an instruction that is no terminator comes the next one of its block.
LEMMA GoesOn ==
  ASSUME OptIInv, NEW i \in DOMAIN prog, prog[i].op \notin Terminators
  PROVE  /\ i + 1 \in DOMAIN prog /\ prog[i + 1].bb = prog[i].bb
         /\ <<i, i + 1>> \in Flow
<1>1. WellFormed(prog) /\ DOMAIN prog = 1 .. Len(prog) /\ Len(prog) \in Nat
  BY ProgramFacts DEF OptIInv, IRTypeOK
<1>2. i # Len(prog) /\ prog[i + 1].bb = prog[i].bb
  BY <1>1 DEF WellFormed
<1>3. i + 1 \in DOMAIN prog
  BY <1>1, <1>2
<1> QED BY <1>2, <1>3 DEF Flow

\* The operands as built, in the run of the function as built, where a value that is used
\* has been computed in this execution of the block.
LEMMA BuiltAgrees ==
  ASSUME OptIInv, NEW s, Substitution(s), NEW e, RunOK(s, e), NEW k \in DOMAIN args[ip]
  PROVE  /\ k \in DOMAIN prog[ip].args
         /\ Operand(built, prog[ip].args[k]) \in {junk, Ideal(e, args[ip][k])}
<1>1. PICK i \in DOMAIN prog : i = ip
  BY DEF RunOK, RunTypeOK
<1>2. /\ WellFormed(prog) /\ ValuesStay(prog) /\ args[i] \in Seq(Int) /\ prog[i].args \in Seq(Int)
      /\ Len(args[i]) = Len(prog[i].args) /\ DOMAIN prog = 1 .. Len(prog) /\ Len(prog) \in Nat
  BY ProgramFacts, ValuesStayInBlocks DEF OptIInv, IRTypeOK, SetsOK, ShapeOK
<1>3. k \in DOMAIN prog[i].args
  BY <1>1, <1>2
<1> DEFINE w == prog[i].args[k]
<1>4. w \in Int /\ args[i][k] = Subst(s, w)
      /\ (w > 0 => w < i /\ prog[w].bb = prog[i].bb /\ prog[w].op \in ValueOps)
  BY <1>2, <1>3 DEF ValuesStay, Substitution, SubstOK, OperandsBy
<1>5. Operand(built, w) \in {junk, Ideal(e, args[i][k])}
  <2> HIDE DEF w
  <2>1. CASE w > 0
    <3>1. w \in DOMAIN prog /\ Done(w)
      BY <1>1, <1>2, <1>4, <2>1 DEF Done
    <3>2. built.val[w] \in {junk, Ideal(e, s[w])}
      BY <3>1 DEF RunOK, ValueOK
    <3>3. ~(w < 0) /\ w # 0
      BY <1>4, <2>1
    <3> QED BY <3>2, <3>3, <2>1, <1>4 DEF Operand, Subst, IsConstant
  <2>2. CASE ~(w > 0)
    <3>1. w < 0 \/ w = 0
      BY <1>4, <2>2
    <3> QED BY <3>1, <2>2, <1>4 DEF Operand, Ideal, Subst, IsConstant
  <2> QED BY <2>1, <2>2
<1> QED BY <1>1, <1>3, <1>5

\* The operands that are there, in the optimized run.
LEMMA OptimizedAgrees ==
  ASSUME OptIInv, NEW s, NEW e, RunOK(s, e), ip \in present, NEW k \in DOMAIN args[ip]
  PROVE  Operand(optimized, args[ip][k]) = Ideal(e, args[ip][k])
<1>1. PICK i \in DOMAIN prog : i = ip
  BY DEF RunOK, RunTypeOK
<1>2. OperandsOK /\ present \subseteq DOMAIN prog
  BY DEF OptIInv, IRTypeOK
<1> DEFINE u == args[i][k]
<1>3. u \in ToSet(args[i])
  BY <1>1 DEF ToSet
<1>4. OperandOK(i, u)
  BY <1>1, <1>2, <1>3 DEF OperandsOK
<1>5. Operand(optimized, u) = Ideal(e, u)
  <2> HIDE DEF u
  <2>1. CASE u > 0
    <3>1. Done(u) /\ u \in present
      BY <1>1, <1>2, <1>4, <2>1 DEF OperandOK, Done
    <3>2. optimized.val[u] = e[u]
      BY <3>1 DEF RunOK, ValueOK
    <3> QED BY <3>2 DEF Operand, Ideal
  <2>2. CASE u < 0 \/ u = 0
    BY <2>2 DEF Operand, Ideal, IsConstant
  <2>3. u \in Int
    BY <1>1, <1>3 DEF OptIInv, IRTypeOK, ToSet, u
  <2> QED BY <2>1, <2>2, <2>3
<1> QED BY <1>1, <1>5

SameBelow(n, e, f) == \A u \in DOMAIN prog : u < n => f[u] = e[u]

\* What an instruction computes depends on e below it only.
LEMMA IdealBelow ==
  ASSUME OptIInv, NEW s \in [DOMAIN prog -> Int], SubstOK(s), UNCHANGED <<prog, args, param>>,
         NEW n \in DOMAIN prog, NEW e, NEW f, SameBelow(n, e, f)
  PROVE  /\ \A u \in Int : u < n => Ideal(f, u)' = Ideal(e, u)
         /\ \A v \in DOMAIN prog : v <= n /\ Calculates(v) => Result(f, v)' = Result(e, v)
<1>1. /\ WellFormed(prog) /\ DOMAIN prog = 1 .. Len(prog) /\ Len(prog) \in Nat
      /\ args \in [DOMAIN prog -> Seq(Int)]
      /\ \A v \in DOMAIN prog : Len(args[v]) = Len(prog[v].args)
  BY ProgramFacts DEF OptIInv, IRTypeOK, SetsOK, ShapeOK
<1>2. ASSUME NEW u \in Int, u < n PROVE Ideal(f, u)' = Ideal(e, u)
  <2>1. u > 0 => u \in DOMAIN prog
    BY <1>1, <1>2
  <2>2. u > 0 => f[u] = e[u]
    BY <2>1, <1>2 DEF SameBelow
  <2> QED BY <2>2 DEF Ideal, IsConstant
<1>3. ASSUME NEW v \in DOMAIN prog, v <= n, Calculates(v) PROVE Result(f, v)' = Result(e, v)
  <2>1. Len(args[v]) = 2 /\ args[v] \in Seq(Int)
    BY <1>1, <1>3 DEF WellFormed, Calculates, Is
  <2>2. args[v][1] \in ToSet(args[v]) /\ args[v][2] \in ToSet(args[v])
    BY <2>1 DEF ToSet
  <2>3. \A u \in ToSet(args[v]) : u \in Int /\ u < v
    BY OperandsBefore
  <2>4. \A u \in ToSet(args[v]) : u \in Int /\ u < n
    BY <2>3, <1>1, <1>3
  <2>5. \A u \in ToSet(args[v]) : Ideal(f, u)' = Ideal(e, u)
    BY <2>4, <1>2
  <2>6. Ideal(f, args[v][1])' = Ideal(e, args[v][1]) /\ Ideal(f, args[v][2])' = Ideal(e, args[v][2])
    BY <2>2, <2>5
  <2> QED BY <2>6 DEF Result, Computed, Is
<1> QED BY <1>2, <1>3

\* What is known of a value stays true while the run goes on in the block.
LEMMA ValueCarries ==
  ASSUME OptIInv, NEW s \in [DOMAIN prog -> Int], SubstOK(s),
         UNCHANGED <<prog, args, present, param>>, ip \in DOMAIN prog, ip' = ip + 1,
         NEW e, NEW f, SameBelow(ip, e, f),
         \A u \in DOMAIN prog : u < ip => /\ built'.val[u] = built.val[u]
                                          /\ optimized'.val[u] = optimized.val[u],
         \A x \in Syms :
           (Is(ip, "store") /\ prog[ip].sym = x) \/ optimized'.mem[x] = optimized.mem[x],
         NEW v \in DOMAIN prog, v < ip, ValueOK(s, e, v)
  PROVE  ValueOK(s, f, v)'
<1>1. PICK n \in DOMAIN prog : n = ip
  OBVIOUS
<1>2. /\ DOMAIN prog \subseteq Nat /\ StoreSet \subseteq DOMAIN prog
      /\ prog \in Seq(Instruction)
  BY ProgramFacts DEF OptIInv, IRTypeOK, StoreSet, WellFormed
<1>3. /\ \A u \in Int : u < n => Ideal(f, u)' = Ideal(e, u)
      /\ \A u \in DOMAIN prog : u <= n /\ Calculates(u) => Result(f, u)' = Result(e, u)
  <2>1. SameBelow(n, e, f)
    BY <1>1
  <2>2. UNCHANGED <<prog, args, param>>
    OBVIOUS
  <2> QED BY <2>1, <2>2, IdealBelow
<1>4. s[v] \in Int /\ s[v] < n /\ v <= n
  <2>1. s[v] \in Int /\ s[v] <= v
    BY DEF SubstOK, Settles
  <2> QED BY <2>1, <1>1, <1>2
<1>5. f[v] = e[v] /\ built'.val[v] = built.val[v] /\ optimized'.val[v] = optimized.val[v]
  BY DEF SameBelow
<1>6. e[v] \in {junk, Ideal(f, s[v])'}
  BY <1>3, <1>4 DEF ValueOK
<1>7. Calculates(v)' => f[v] = Result(f, v)'
  BY <1>3, <1>4, <1>5 DEF ValueOK, Calculates, Is
<1>8. ASSUME Is(v, "load"), Unwritten(v)' PROVE f[v] = optimized'.mem[prog[v].sym]
  <2>1. \A t \in StoreSet : v < t /\ t < ip + 1 => ~SameVar(t, v)
    BY <1>8, SameProgram DEF Unwritten, SameVar
  <2>2. Unwritten(v)
    <3>1. \A t \in StoreSet : t < ip => t < ip + 1
      BY <1>2
    <3> QED BY <2>1, <3>1 DEF Unwritten
  <2>3. Is(ip, "store") => prog[ip].sym # prog[v].sym
    <3> SUFFICES ASSUME Is(ip, "store") PROVE ~SameVar(ip, v)
      BY DEF SameVar
    <3>1. ip \in StoreSet /\ v < ip /\ ip < ip + 1
      BY <1>2 DEF StoreSet, Is
    <3> QED BY <2>1, <3>1
  <2>4. prog[v].sym \in Syms
    <3>1. prog[v] \in Instruction
      BY <1>2
    <3> QED BY <3>1 DEF Instruction
  <2>5. optimized'.mem[prog[v].sym] = optimized.mem[prog[v].sym]
    BY <2>3, <2>4
  <2>6. e[v] = optimized.mem[prog[v].sym]
    BY <1>8, <2>2 DEF ValueOK
  <2> QED BY <2>5, <2>6, <1>5
<1>9. built'.val[v] \in {junk, f[v]} /\ (v \in present' => optimized'.val[v] = f[v])
  BY <1>5 DEF ValueOK
<1> QED BY <1>5, <1>6, <1>7, <1>8, <1>9 DEF ValueOK, Is

\* What is known of a variable stays true until a store to it.
LEMMA VariableCarries ==
  ASSUME OptIInv, UNCHANGED <<prog, args>>, ip \in DOMAIN prog, NEW e \in Flow, e = <<ip, ip'>>,
         NEW x, VariableOK(x), ~(Is(ip, "store") /\ prog[ip].sym = x),
         built'.mem[x] = built.mem[x], optimized'.mem[x] = optimized.mem[x]
  PROVE  VariableOK(x)'
<1>1. WellFormed(prog)
  BY DEF OptIInv, IRTypeOK
<1>2. ASSUME NEW t \in StoreSet, WrittenBy(t, x) PROVE WrittenBy(t, x)'
  <2>1. Passes(t, ip)
    BY <1>2 DEF Passes, SameVar, WrittenBy
  <2>2. e[1] = ip /\ e[2] = ip'
    OBVIOUS
  <2>3. e[2] \in ReachedFrom(t)
    BY <2>1, <2>2, <1>1, <1>2, ReachedClosed DEF WrittenBy
  <2>4. ip' \in ReachedFrom(t)'
    BY <2>2, <2>3, SameProgram
  <2> QED BY <2>4, <1>2 DEF WrittenBy
<1>3. (\E t \in StoreSet : WrittenBy(t, x)) => \E t \in StoreSet' : WrittenBy(t, x)'
  BY <1>2, SameProgram
<1> QED BY <1>3 DEF VariableOK

\* The value that an instruction of the optimized run has, computed or not.
New(e, i) == IF Is(i, "load") THEN optimized.mem[prog[i].sym] ELSE Result(e, i)

\* The function as built computes it, if it does not compute junk.
LEMMA NewValue ==
  ASSUME OptIInv, NEW s, Substitution(s), NEW e, RunOK(s, e), Pure(ip)
  PROVE  /\ New(e, ip) \in Val
         /\ Compute(built, ip, prog[ip].args) \in {junk, New(e, ip)}
         /\ ip \in present => Compute(optimized, ip, args[ip]) = New(e, ip)
<1>1. PICK n \in DOMAIN prog : n = ip
  BY DEF RunOK, RunTypeOK
<1>2. /\ WellFormed(prog) /\ DOMAIN prog = 1 .. Len(prog) /\ Len(prog) \in Nat
      /\ args \in [DOMAIN prog -> Seq(Int)] /\ Len(args[n]) = Len(prog[n].args)
      /\ prog \in Seq(Instruction) /\ prog \in Programs
      /\ s \in [DOMAIN prog -> Int] /\ SubstOK(s)
      /\ e \in [DOMAIN prog -> Val] /\ param \in Val
      /\ optimized \in Runs
  BY <1>1, ProgramFacts
     DEF OptIInv, IRTypeOK, SetsOK, ShapeOK, WellFormed, RunOK, RunTypeOK, Substitution
<1>3. prog[n].sym \in Syms
  <2>1. prog[n] \in Instruction
    BY <1>2
  <2> QED BY <2>1 DEF Instruction
<1>4. CASE Is(n, "load")
  <2>1. VariableOK(prog[n].sym)
    BY <1>3 DEF RunOK
  <2> QED BY <2>1, <1>1, <1>2, <1>3, <1>4 DEF VariableOK, New, Compute, Runs
<1>5. CASE Calculates(n)
  <2>1. ~Is(n, "load")
    BY <1>5 DEF Calculates, Is
  <2>2. Len(args[n]) = 2 /\ args[n] \in Seq(Int)
    BY <1>2, <1>5 DEF WellFormed, Calculates, Is
  <2>3. 1 \in DOMAIN args[n] /\ 2 \in DOMAIN args[n]
    BY <2>2
  <2>4. \A u \in ToSet(args[n]) : Ideal(e, u) \in Val
    <3> SUFFICES ASSUME NEW u \in ToSet(args[n]) PROVE Ideal(e, u) \in Val
      OBVIOUS
    <3>1. u \in Int /\ u < n
      BY <1>2, OperandsBefore
    <3>2. u > 0 => u \in DOMAIN prog
      BY <3>1, <1>2
    <3>3. u > 0 => e[u] \in Val
      BY <3>2, <1>2
    <3>4. WordOf(u) \in Int
      BY <3>1 DEF WordOf
    <3> QED BY <3>1, <3>3, <3>4, <1>2 DEF Ideal, IsConstant, Val
  <2> DEFINE a == Ideal(e, args[n][1])
  <2> DEFINE b == Ideal(e, args[n][2])
  <2>5. a \in Val /\ b \in Val
    BY <2>3, <2>4 DEF ToSet
  <2>6. New(e, n) = Computed(n, a, b)
    BY <2>1 DEF New, Result
  <2>7. /\ Operand(built, prog[n].args[1]) \in {junk, a}
        /\ Operand(built, prog[n].args[2]) \in {junk, b}
    BY <2>3, <1>1, BuiltAgrees
  <2>8. n \in present => /\ Operand(optimized, args[n][1]) = a
                         /\ Operand(optimized, args[n][2]) = b
    BY <2>3, <1>1, OptimizedAgrees
  <2> HIDE DEF a, b
  <2>9. \A run, operands :
          Compute(run, n, operands) =
            Computed(n, Operand(run, operands[1]), Operand(run, operands[2]))
    BY <2>1 DEF Compute, Computed
  <2>10. Compute(built, n, prog[n].args) \in {junk, Computed(n, a, b)}
    BY <2>7, <2>9 DEF Computed
  <2>11. n \in present => Compute(optimized, n, args[n]) = Computed(n, a, b)
    BY <2>8, <2>9
  <2>12. Computed(n, a, b) \in Val
    <3>1. CASE a = junk \/ b = junk
      BY <3>1 DEF Computed, Val
    <3>2. CASE ~(a = junk \/ b = junk) /\ Is(n, "arith")
      <4>1. a \in Int /\ b \in Int
        BY <2>5, <3>2 DEF Val
      <4>2. prog[n].sym \in Operations
        BY <3>2, <1>2, WordsAssumption DEF InWords, Is
      <4>3. Arith(prog[n].sym, a, b) \in Word
        BY <4>1, <4>2, ArithWord
      <4>4. Arith(prog[n].sym, a, b) \in Int
        BY <4>3, ModulusAssumption DEF Word
      <4> QED BY <4>4, <3>2 DEF Computed, Val
    <3>3. CASE ~(a = junk \/ b = junk) /\ ~Is(n, "arith")
      BY <3>3 DEF Computed, Val
    <3> QED BY <3>1, <3>2, <3>3
  <2> QED BY <2>6, <2>10, <2>11, <2>12, <1>1
<1> QED BY <1>1, <1>4, <1>5 DEF Pure, Calculates, Is

\* The substitution does not change a value: the optimized function may use what v is
\* replaced by, because it is what v would have been.
LEMMA NewAgrees ==
  ASSUME OptIInv, NEW s, Substitution(s), NEW e, RunOK(s, e), Pure(ip), s[ip] # ip
  PROVE  New(e, ip) \in {junk, Ideal(e, s[ip])}
<1>1. PICK n \in DOMAIN prog : n = ip
  BY DEF RunOK, RunTypeOK
<1>2. /\ WellFormed(prog) /\ DOMAIN prog = 1 .. Len(prog) /\ Len(prog) \in Nat
      /\ prog \in Seq(Instruction)
      /\ s \in [DOMAIN prog -> Int] /\ SubstOK(s) /\ Justified(s, n) /\ s[n] # n
  BY <1>1, ProgramFacts
     DEF OptIInv, IRTypeOK, WellFormed, Substitution, SubstOK
<1>3. prog[n].sym \in Syms
  <2>1. prog[n] \in Instruction
    BY <1>2
  <2> QED BY <2>1 DEF Instruction
<1>4. CASE FoldedTo(s, n)
  <2>1. /\ Is(n, "arith") /\ ~Is(n, "load") /\ args[n][1] < 0 /\ args[n][2] < 0
        /\ s[n] = Value(n)
    BY <1>4 DEF FoldedTo, Foldable, Is, IsConstant
  <2>2. Value(n) \in Int /\ Value(n) < 0
    BY <1>4, FoldedWord DEF FoldedTo
  <2> DEFINE w == Arith(prog[n].sym, WordOf(args[n][1]), WordOf(args[n][2]))
  <2>3. New(e, n) \in {junk, w}
    BY <2>1 DEF New, Result, Ideal, IsConstant, Computed
  <2>4. Ideal(e, s[n]) = w
    <3>1. Ideal(e, s[n]) = WordOf(Value(n))
      BY <2>1, <2>2 DEF Ideal, IsConstant
    <3>2. w \in Int
      <4>1. prog[n].sym \in Operations
        BY <2>1, <1>2, WordsAssumption DEF InWords, Is, OptIInv
      <4>2. args[n] \in Seq(Int) /\ Len(args[n]) = 2
        BY <2>1, <1>2 DEF OptIInv, IRTypeOK, SetsOK, ShapeOK, WellFormed, Is
      <4>3. args[n][1] \in Int /\ args[n][2] \in Int
        BY <4>2
      <4>4. WordOf(args[n][1]) \in Int /\ WordOf(args[n][2]) \in Int
        BY <4>3 DEF WordOf
      <4>5. w \in Word
        BY <4>1, <4>4, ArithWord
      <4> HIDE DEF w
      <4> QED BY <4>5, ModulusAssumption DEF Word
    <3>3. Value(n) = -w - 1
      BY DEF Value, Constant
    <3> HIDE DEF w
    <3>4. WordOf(-w - 1) = w
      BY <3>2 DEF WordOf
    <3> QED BY <3>1, <3>3, <3>4
  <2> QED BY <2>3, <2>4, <1>1
<1>5. CASE \E p \in DOMAIN prog : SharedWith(s, n, p)
  <2>1. PICK p \in DOMAIN prog : SharedWith(s, n, p)
    BY <1>5
  <2>2. Done(p)
    BY <2>1, <1>1 DEF Done, SharedWith, Pure, ValueOps
  <2>3. ValueOK(s, e, p)
    BY <2>2 DEF RunOK
  <2>4. New(e, n) = e[p]
    <3>1. CASE Is(n, "load")
      <4>1. Is(p, "load") /\ prog[p].sym = prog[n].sym
        BY <2>1, <3>1 DEF SharedWith, Is
      <4>2. Unwritten(p)
        BY <2>1, <3>1, <1>1 DEF SharedWith, NoStoreBetween, Unwritten, SameVar
      <4> QED BY <4>1, <4>2, <3>1, <2>3 DEF ValueOK, New
    <3>2. CASE ~Is(n, "load")
      <4>1. Calculates(p)
        BY <2>1, <3>2 DEF SharedWith, Pure, Is, Calculates
      <4>2. Result(e, p) = Result(e, n)
        BY <2>1 DEF SharedWith, Result, Computed, Is
      <4> QED BY <4>1, <4>2, <3>2, <2>3 DEF ValueOK, New
    <3> QED BY <3>1, <3>2
  <2>5. e[p] \in {junk, Ideal(e, s[n])}
    BY <2>1, <2>3 DEF ValueOK, SharedWith
  <2> QED BY <2>4, <2>5, <1>1
<1>6. CASE LoadsConstant(s, n)
  <2>1. VariableOK(prog[n].sym)
    BY <1>3 DEF RunOK
  <2>2. New(e, n) = optimized.mem[prog[n].sym] /\ Ideal(e, s[n]) = WordOf(s[n])
    BY <1>6 DEF LoadsConstant, New, Ideal
  <2>3. ASSUME NEW t \in StoreSet, WrittenBy(t, prog[n].sym)
        PROVE  optimized.mem[prog[n].sym] = WordOf(s[n])
    <3>1. args[t][1] = s[n] /\ IsConstant(s[n])
      BY <2>3, <1>1, <1>6 DEF WrittenBy, LoadsConstant, SameVar
    <3> QED BY <3>1, <2>3 DEF WrittenBy
  <2> QED BY <2>1, <2>2, <2>3, <1>1 DEF VariableOK
<1> QED BY <1>1, <1>2, <1>4, <1>5, <1>6 DEF Justified

\* The values of the block at the next instruction of it.
LEMMA DoneNext ==
  ASSUME OptIInv, ip \in DOMAIN prog, prog' = prog, ip' = ip + 1, prog[ip].op \notin Terminators
  PROVE  /\ ip' \in DOMAIN prog /\ <<ip, ip'>> \in Flow
         /\ \A v : Done(v)' => v \in DOMAIN prog /\
              ((Done(v) /\ v < ip) \/ (v = ip /\ prog[ip].op \in ValueOps))
<1>1. PICK n \in DOMAIN prog : n = ip
  OBVIOUS
<1>2. n + 1 \in DOMAIN prog /\ prog[n + 1].bb = prog[n].bb /\ <<n, n + 1>> \in Flow
  BY <1>1, GoesOn
<1>3. DOMAIN prog \subseteq Nat
  BY ProgramFacts DEF OptIInv, IRTypeOK
<1>4. ASSUME NEW v, Done(v)'
      PROVE  v \in DOMAIN prog /\ ((Done(v) /\ v < ip) \/ (v = ip /\ prog[ip].op \in ValueOps))
  <2>1. v \in DOMAIN prog /\ v < n + 1 /\ prog[v].bb = prog[n + 1].bb /\ prog[v].op \in ValueOps
    BY <1>1, <1>4 DEF Done
  <2>2. v < n \/ v = n
    BY <2>1, <1>3
  <2> QED BY <1>1, <1>2, <2>1, <2>2 DEF Done
<1> QED BY <1>1, <1>2, <1>4

\* What the steps of the runs change.
SetVal(run, i, w) == [run EXCEPT !.val[i] = w]
SetMem(run, x, w) == [run EXCEPT !.mem[x] = w]

ValSet(run, new, i, w) ==
  /\ new \in Runs /\ new.mem = run.mem /\ new.val[i] = w
  /\ \A u \in DOMAIN prog : u # i => new.val[u] = run.val[u]

LEMMA ValChanges ==
  ASSUME NEW run \in Runs, NEW w \in Val, NEW i \in DOMAIN prog
  PROVE  ValSet(run, SetVal(run, i, w), i, w)
<1> DEFINE g == [run.val EXCEPT ![i] = w]
<1>1. run.val \in [DOMAIN prog -> Val] /\ run.mem \in [Syms -> Val]
  BY DEF Runs
<1>2. SetVal(run, i, w) = [val |-> g, mem |-> run.mem]
  BY DEF Runs, SetVal
<1>3. /\ g \in [DOMAIN prog -> Val] /\ g[i] = w
      /\ \A u \in DOMAIN prog : u # i => g[u] = run.val[u]
  BY <1>1
<1> HIDE DEF g
<1>4. SetVal(run, i, w).val = g /\ SetVal(run, i, w).mem = run.mem
  BY <1>2
<1> QED BY <1>1, <1>2, <1>3, <1>4 DEF Runs, ValSet

LEMMA MemChanges ==
  ASSUME NEW run \in Runs, NEW w \in Val, NEW x \in Syms
  PROVE  /\ SetMem(run, x, w) \in Runs /\ SetMem(run, x, w).val = run.val
         /\ SetMem(run, x, w).mem[x] = w
         /\ \A y \in Syms : y # x => SetMem(run, x, w).mem[y] = run.mem[y]
<1> DEFINE g == [run.mem EXCEPT ![x] = w]
<1>1. run.val \in [DOMAIN prog -> Val] /\ run.mem \in [Syms -> Val]
  BY DEF Runs
<1>2. SetMem(run, x, w) = [val |-> run.val, mem |-> g]
  BY DEF Runs, SetMem
<1>3. /\ g \in [Syms -> Val] /\ g[x] = w
      /\ \A y \in Syms : y # x => g[y] = run.mem[y]
  BY <1>1
<1> HIDE DEF g
<1>4. SetMem(run, x, w).mem = g /\ SetMem(run, x, w).val = run.val
  BY <1>2
<1> QED BY <1>1, <1>2, <1>3, <1>4 DEF Runs

\* An instruction that has a value, in both runs.
LEMMA ValueStep ==
  ASSUME OptIInv, NEW s, Substitution(s), NEW e, RunOK(s, e),
         UNCHANGED <<prog, args, present, param>>,
         prog[ip].op \in ValueOps, ip' = ip + 1, NEW w \in Val, NEW b \in {junk, w},
         built' = SetVal(built, ip, b),
         \/ optimized' = SetVal(optimized, ip, w)
         \/ ip \notin present /\ optimized' = optimized,
         s[ip] = ip \/ w \in {junk, Ideal(e, s[ip])},
         Pure(ip) => w = New(e, ip)
  PROVE  \E f : RunOK(s, f)'
<1>1. PICK n \in DOMAIN prog : n = ip
  BY DEF RunOK, RunTypeOK
<1>2. /\ DOMAIN prog = 1 .. Len(prog) /\ Len(prog) \in Nat
      /\ s \in [DOMAIN prog -> Int] /\ SubstOK(s)
      /\ e \in [DOMAIN prog -> Val] /\ param \in Val /\ b \in Val
      /\ built \in Runs
      /\ optimized \in Runs
  BY ProgramFacts DEF OptIInv, IRTypeOK, RunOK, RunTypeOK, Substitution, Val
<1>3. PICK f \in [DOMAIN prog -> Val] : f[n] = w /\ \A u \in DOMAIN prog : u # n => f[u] = e[u]
  <2>1. [u \in DOMAIN prog |-> IF u = n THEN w ELSE e[u]] \in [DOMAIN prog -> Val]
    BY <1>2
  <2> QED BY <2>1
<1>4. SameBelow(ip, e, f) /\ SameBelow(n, e, f)
  BY <1>1, <1>2, <1>3 DEF SameBelow
<1>5. prog[ip].op \notin Terminators /\ ~Is(ip, "store")
  BY DEF ValueOps, Terminators, Is
<1>6. /\ ip' \in DOMAIN prog /\ <<ip, ip'>> \in Flow
      /\ \A v : Done(v)' => v \in DOMAIN prog /\ ((Done(v) /\ v < ip) \/ v = ip)
  BY <1>1, <1>5, DoneNext
<1>7. /\ built' \in Runs
      /\ built'.mem = built.mem /\ built'.val[n] = b
      /\ \A u \in DOMAIN prog : u # n => built'.val[u] = built.val[u]
  <2>1. built' = SetVal(built, n, b)
    BY <1>1
  <2>2. built \in Runs /\ b \in Val
    BY <1>2
  <2>3. ValSet(built, built', n, b)
    BY <2>1, <2>2, ValChanges
  <2> QED BY <2>3 DEF ValSet
<1>8. /\ optimized' \in Runs
      /\ optimized'.mem = optimized.mem /\ (n \in present => optimized'.val[n] = w)
      /\ \A u \in DOMAIN prog : u # n => optimized'.val[u] = optimized.val[u]
  <2>1. CASE optimized' = SetVal(optimized, ip, w)
    <3>1. optimized' = SetVal(optimized, n, w)
      BY <2>1, <1>1
    <3>2. optimized \in Runs
      BY <1>2
    <3>3. ValSet(optimized, optimized', n, w)
      BY <3>1, <3>2, ValChanges
    <3> QED BY <3>3 DEF ValSet
  <2>2. CASE ip \notin present /\ optimized' = optimized
    BY <2>2, <1>1, <1>2
  <2> QED BY <2>1, <2>2
<1>15. Runs' = Runs
  BY DEF Runs
<1>9. RunTypeOK'
  BY <1>15, <1>2, <1>6, <1>7, <1>8 DEF RunTypeOK
<1>10. ASSUME NEW x \in Syms PROVE VariableOK(x)'
  <2>1. VariableOK(x)
    BY DEF RunOK
  <2>2. PICK d \in Flow : d = <<ip, ip'>>
    BY <1>6
  <2> QED BY <1>1, <1>5, <1>7, <1>8, <2>1, <2>2, VariableCarries
<1>11. ASSUME NEW v \in DOMAIN prog, Done(v), v < ip PROVE ValueOK(s, f, v)'
  <2>1. ValueOK(s, e, v)
    BY <1>11 DEF RunOK
  <2>2. \A u \in DOMAIN prog : u < ip => /\ built'.val[u] = built.val[u]
                                         /\ optimized'.val[u] = optimized.val[u]
    BY <1>1, <1>2, <1>7, <1>8
  <2>3. \A x \in Syms :
          (Is(ip, "store") /\ prog[ip].sym = x) \/ optimized'.mem[x] = optimized.mem[x]
    BY <1>8
  <2>4. UNCHANGED <<prog, args, present, param>> /\ ip \in DOMAIN prog /\ ip' = ip + 1
    BY <1>1
  <2> QED BY <1>2, <1>4, <1>11, <2>1, <2>2, <2>3, <2>4, ValueCarries
<1>12. ValueOK(s, f, n)'
  <2>1. built'.val[n] \in {junk, f[n]} /\ (n \in present' => optimized'.val[n] = f[n])
    BY <1>3, <1>7, <1>8
  <2>2. UNCHANGED <<prog, args, param>> /\ SameBelow(n, e, f)
    BY <1>4
  <2>3. /\ \A u \in Int : u < n => Ideal(f, u)' = Ideal(e, u)
        /\ \A u \in DOMAIN prog : u <= n /\ Calculates(u) => Result(f, u)' = Result(e, u)
    <3>1. s \in [DOMAIN prog -> Int] /\ SubstOK(s)
      BY <1>2
    <3> QED BY <2>2, <3>1, IdealBelow
  <2>4. Calculates(n) => Result(f, n)' = Result(e, n)
    BY <2>3, <1>2
  <2>5. f[n] \in {junk, Ideal(f, s[n])'}
    <3>1. CASE s[n] = n
      <4>1. Ideal(f, n)' = f[n]
        BY <1>2 DEF Ideal, IsConstant
      <4> QED BY <4>1, <3>1
    <3>2. CASE s[n] # n
      <4>1. s[n] \in Int /\ s[n] <= n
        BY <1>2 DEF SubstOK, Settles
      <4>2. s[n] < n
        BY <4>1, <3>2, <1>2
      <4>3. Ideal(f, s[n])' = Ideal(e, s[n])
        BY <4>1, <4>2, <2>3
      <4> QED BY <4>3, <3>2, <1>1, <1>3
    <3> QED BY <3>1, <3>2
  <2>6. Calculates(n)' => f[n] = Result(f, n)'
    <3> SUFFICES ASSUME Calculates(n) PROVE f[n] = Result(f, n)'
      BY DEF Calculates, Is
    <3>1. Pure(n) /\ ~Is(n, "load")
      BY DEF Calculates, Pure, Is
    <3> QED BY <3>1, <2>4, <1>1, <1>3 DEF New
  <2>7. Is(n, "load") => f[n] = optimized'.mem[prog[n].sym]
    <3> SUFFICES ASSUME Is(n, "load") PROVE f[n] = optimized'.mem[prog[n].sym]
      OBVIOUS
    <3>1. Pure(n)
      BY DEF Pure, Is
    <3> QED BY <3>1, <1>1, <1>3, <1>8 DEF New
  <2> QED BY <2>1, <2>5, <2>6, <2>7 DEF ValueOK, Is
<1>13. \A v : Done(v)' => ValueOK(s, f, v)'
  BY <1>1, <1>6, <1>11, <1>12
<1>14. f \in [DOMAIN prog' -> Val]
  OBVIOUS
<1> QED BY <1>9, <1>10, <1>13, <1>14 DEF RunOK

\* An instruction without a value that is no terminator.
LEMMA EffectStep ==
  ASSUME OptIInv, NEW s, Substitution(s), NEW e, RunOK(s, e), RunStore \/ RunPrint
  PROVE  RunOK(s, e)'
<1>1. PICK n \in DOMAIN prog : n = ip
  BY DEF RunOK, RunTypeOK
<1>2. /\ WellFormed(prog) /\ DOMAIN prog = 1 .. Len(prog) /\ Len(prog) \in Nat
      /\ prog \in Seq(Instruction) /\ StoreSet \subseteq DOMAIN prog
      /\ s \in [DOMAIN prog -> Int] /\ SubstOK(s)
      /\ e \in [DOMAIN prog -> Val] /\ param \in Val
      /\ built \in Runs
      /\ optimized \in Runs
  BY ProgramFacts
     DEF OptIInv, IRTypeOK, RunOK, RunTypeOK, Substitution, WellFormed, StoreSet
<1>3. /\ UNCHANGED <<prog, args, present, param>> /\ ip' = ip + 1
      /\ prog[ip].op \notin Terminators /\ prog[ip].op \notin ValueOps /\ ~Pure(ip)
  BY DEF RunStore, RunPrint, At, Is, Terminators, ValueOps, Pure, optvars, vars
<1>4. /\ ip' \in DOMAIN prog /\ <<ip, ip'>> \in Flow
      /\ \A v : Done(v)' => v \in DOMAIN prog /\ Done(v) /\ v < ip
  BY <1>1, <1>3, DoneNext
<1>5. \/ /\ Is(ip, "store")
         /\ built' = [built EXCEPT !.mem[prog[ip].sym] = Built(1)]
         /\ optimized' = [optimized EXCEPT !.mem[prog[ip].sym] = Now(1)]
      \/ ~Is(ip, "store") /\ UNCHANGED <<built, optimized>>
  BY DEF RunStore, RunPrint, At, Is
<1>6. prog[n].sym \in Syms
  <2>1. prog[n] \in Instruction
    BY <1>2
  <2> QED BY <2>1 DEF Instruction
<1>7. Is(n, "store") => /\ Built(1) \in {junk, Now(1)} /\ Built(1) \in Val /\ Now(1) \in Val
                        /\ Now(1) = Operand(optimized, args[n][1])
  <2> SUFFICES ASSUME Is(n, "store")
               PROVE  /\ Built(1) \in {junk, Now(1)} /\ Built(1) \in Val /\ Now(1) \in Val
                      /\ Now(1) = Operand(optimized, args[n][1])
    OBVIOUS
  <2>1. Len(args[n]) = 1 /\ args[n] \in Seq(Int)
    BY <1>2 DEF OptIInv, IRTypeOK, SetsOK, ShapeOK, WellFormed, Is
  <2>2. 1 \in DOMAIN args[n] /\ args[n][1] \in Int /\ args[n][1] \in ToSet(args[n])
    BY <2>1 DEF ToSet
  <2>3. n \in present
    BY <1>1, <1>3 DEF OptIInv, KeptOK
  <2>4. Built(1) \in {junk, Ideal(e, args[n][1])}
    BY <2>2, <1>1, BuiltAgrees DEF Built
  <2>5. Now(1) = Ideal(e, args[n][1])
    BY <2>2, <2>3, <1>1, OptimizedAgrees DEF Now
  <2>6. Ideal(e, args[n][1]) \in Val
    <3> DEFINE u == args[n][1]
    <3>1. u \in Int /\ u < n
      BY <2>2, <1>2, OperandsBefore
    <3> HIDE DEF u
    <3>5. u > 0 => u \in DOMAIN prog
      BY <3>1, <1>2
    <3>2. u > 0 => e[u] \in Val
      BY <3>5, <1>2
    <3>3. WordOf(u) \in Int
      BY <3>1 DEF WordOf
    <3>4. Ideal(e, u) \in Val
      BY <3>1, <3>2, <3>3, <1>2 DEF Ideal, IsConstant, Val
    <3> QED BY <3>4 DEF u
  <2> QED BY <2>4, <2>5, <2>6, <1>1 DEF Val, Now
<1>8. /\ built' \in Runs
      /\ optimized' \in Runs
      /\ built'.val = built.val /\ optimized'.val = optimized.val
      /\ \A x \in Syms :
           \/ /\ Is(ip, "store") /\ prog[ip].sym = x
              /\ built'.mem[x] = Built(1) /\ optimized'.mem[x] = Now(1)
           \/ /\ ~(Is(ip, "store") /\ prog[ip].sym = x)
              /\ built'.mem[x] = built.mem[x] /\ optimized'.mem[x] = optimized.mem[x]
  <2>1. CASE Is(ip, "store")
    <3>1. PICK y \in Syms : y = prog[ip].sym
      BY <1>1, <1>6
    <3>2. PICK a \in Val, c \in Val : a = Built(1) /\ c = Now(1)
      BY <2>1, <1>1, <1>7
    <3>3. built' = SetMem(built, y, a) /\ optimized' = SetMem(optimized, y, c)
      BY <2>1, <3>1, <3>2, <1>5 DEF SetMem
    <3>4. built \in Runs /\ optimized \in Runs
      BY <1>2
    <3>5. /\ built' \in Runs /\ built'.val = built.val /\ built'.mem[y] = a
          /\ \A x \in Syms : x # y => built'.mem[x] = built.mem[x]
      BY <3>3, <3>4, MemChanges
    <3>6. /\ optimized' \in Runs /\ optimized'.val = optimized.val /\ optimized'.mem[y] = c
          /\ \A x \in Syms : x # y => optimized'.mem[x] = optimized.mem[x]
      BY <3>3, <3>4, MemChanges
    <3> QED BY <2>1, <3>1, <3>2, <3>5, <3>6
  <2>2. CASE ~Is(ip, "store")
    BY <2>2, <1>2, <1>5
  <2> QED BY <2>1, <2>2
<1>9. \A x \in Syms : \/ Is(ip, "store") /\ prog[ip].sym = x
                      \/ built'.mem[x] = built.mem[x] /\ optimized'.mem[x] = optimized.mem[x]
  BY <1>8
<1>14. Runs' = Runs
  BY <1>3 DEF Runs
<1>10. RunTypeOK'
  BY <1>2, <1>3, <1>4, <1>8, <1>14 DEF RunTypeOK
<1>11. ASSUME NEW v \in DOMAIN prog, Done(v), v < ip PROVE ValueOK(s, e, v)'
  <2>1. ValueOK(s, e, v)
    BY <1>11 DEF RunOK
  <2>2. \A u \in DOMAIN prog : u < ip => /\ built'.val[u] = built.val[u]
                                         /\ optimized'.val[u] = optimized.val[u]
    BY <1>8
  <2>3. \A x \in Syms :
          (Is(ip, "store") /\ prog[ip].sym = x) \/ optimized'.mem[x] = optimized.mem[x]
    BY <1>9
  <2>4. ip \in DOMAIN prog /\ ip' = ip + 1 /\ SameBelow(ip, e, e)
    BY <1>1, <1>3 DEF SameBelow
  <2>5. UNCHANGED <<prog, args, present, param>>
    BY <1>3
  <2> QED BY <1>2, <1>11, <2>1, <2>2, <2>3, <2>4, <2>5, ValueCarries
<1>12. ASSUME NEW x \in Syms PROVE VariableOK(x)'
  <2>1. CASE Is(ip, "store") /\ prog[ip].sym = x
    <3>1. built'.mem[x] = Built(1) /\ optimized'.mem[x] = Now(1)
      BY <1>8, <2>1
    <3>2. n \in StoreSet /\ prog[n].sym = x
      BY <1>1, <2>1 DEF StoreSet, Is
    <3>3. ip' \in ReachedFrom(n)
      <4>1. PICK d \in Flow : d = <<n, ip'>>
        BY <1>1, <1>4
      <4>2. d[1] = n /\ d[2] = ip'
        BY <4>1
      <4> QED BY <4>2, <1>2, ReachedClosed
    <3>4. IsConstant(args[n][1]) => optimized'.mem[x] = WordOf(args[n][1])
      BY <3>1, <1>1, <1>7, <2>1 DEF Operand
    <3>5. WrittenBy(n, x)'
      BY <3>2, <3>3, <3>4, <1>3, SameProgram DEF WrittenBy
    <3>6. built'.mem[x] \in {junk, optimized'.mem[x]}
      BY <3>1, <1>1, <1>7, <2>1
    <3> QED BY <3>2, <3>5, <3>6, <1>3, SameProgram DEF VariableOK
  <2>2. CASE ~(Is(ip, "store") /\ prog[ip].sym = x)
    <3>1. VariableOK(x)
      BY DEF RunOK
    <3>2. PICK d \in Flow : d = <<ip, ip'>>
      BY <1>4
    <3> QED BY <1>1, <1>3, <1>9, <2>2, <3>1, <3>2, VariableCarries
  <2> QED BY <2>1, <2>2
<1>13. e \in [DOMAIN prog' -> Val]
  BY <1>2, <1>3
<1> QED BY <1>4, <1>10, <1>11, <1>12, <1>13 DEF RunOK

\* RunOK depends on the variables only.
LEMMA StutterRun ==
  ASSUME UNCHANGED allvars, NEW s, NEW e, RunOK(s, e)
  PROVE  RunOK(s, e)'
<1>1. UNCHANGED <<prog, args, present, ip, param, built, optimized>>
  BY DEF allvars, optvars, vars, runvars
<1>2. StoreSet' = StoreSet /\ \A t : ReachedFrom(t)' = ReachedFrom(t)
  BY <1>1, SameProgram
<1>3. \A v : Done(v)' <=> Done(v)
  BY <1>1 DEF Done
<1>4. ASSUME NEW v, ValueOK(s, e, v) PROVE ValueOK(s, e, v)'
  <2>1. Result(e, v)' = Result(e, v) /\ Ideal(e, s[v])' = Ideal(e, s[v])
    BY <1>1 DEF Result, Ideal, Computed, Is
  <2>2. Unwritten(v)' <=> Unwritten(v)
    BY <1>1, <1>2 DEF Unwritten, SameVar
  <2> QED BY <1>1, <1>4, <2>1, <2>2 DEF ValueOK, Calculates, Is
<1>5. ASSUME NEW x, VariableOK(x) PROVE VariableOK(x)'
  <2>1. \A t : WrittenBy(t, x)' <=> WrittenBy(t, x)
    BY <1>1, <1>2 DEF WrittenBy
  <2> QED BY <1>1, <1>2, <1>5, <2>1 DEF VariableOK
<1>6. RunTypeOK'
  BY <1>1 DEF RunOK, RunTypeOK, Runs
<1> QED BY <1>1, <1>3, <1>4, <1>5, <1>6 DEF RunOK

\* Loads, computations and comparisons.
LEMMA PureStep ==
  ASSUME OptIInv, NEW s, Substitution(s), NEW e, RunOK(s, e), RunPure
  PROVE  \E f : RunOK(s, f)'
<1>1. /\ Pure(ip) /\ prog[ip].op \in ValueOps /\ ip' = ip + 1
      /\ UNCHANGED <<prog, args, present, param>>
      /\ built' = SetVal(built, ip, Compute(built, ip, prog[ip].args))
      /\ \/ ip \in present /\ optimized' = SetVal(optimized, ip, Compute(optimized, ip, args[ip]))
         \/ ip \notin present /\ optimized' = optimized
  BY DEF RunPure, At, Is, Pure, ValueOps, SetVal, optvars, vars
<1>2. PICK w \in Val : w = New(e, ip)
  BY <1>1, NewValue
<1>3. PICK b \in {junk, w} : b = Compute(built, ip, prog[ip].args)
  BY <1>1, <1>2, NewValue
<1>4. built' = SetVal(built, ip, b)
  BY <1>1, <1>3
<1>5. \/ optimized' = SetVal(optimized, ip, w)
      \/ ip \notin present /\ optimized' = optimized
  BY <1>1, <1>2, NewValue
<1>6. s[ip] = ip \/ w \in {junk, Ideal(e, s[ip])}
  BY <1>1, <1>2, NewAgrees
<1> QED BY <1>1, <1>2, <1>4, <1>5, <1>6, ValueStep

\* What is read in the one run is read in the other, and nothing is substituted for it.
LEMMA ReadStep ==
  ASSUME OptIInv, NEW s, Substitution(s), NEW e, RunOK(s, e), RunRead
  PROVE  \E f : RunOK(s, f)'
<1>1. /\ ~Pure(ip) /\ Is(ip, "read") /\ prog[ip].op \in ValueOps /\ ip' = ip + 1
      /\ UNCHANGED <<prog, args, present, param>>
  BY DEF RunRead, At, Is, Pure, ValueOps, optvars, vars
<1>2. PICK input \in Word : /\ built' = SetVal(built, ip, input)
                            /\ optimized' = SetVal(optimized, ip, input)
  BY DEF RunRead, SetVal
<1>3. input \in Val
  BY ModulusAssumption DEF Word, Val
<1>4. s[ip] = ip
  <2>1. Justified(s, ip)
    BY DEF RunOK, RunTypeOK, Substitution, SubstOK
  <2> QED BY <2>1, <1>1 DEF Justified, FoldedTo, Foldable, SharedWith, LoadsConstant, Is
<1>5. PICK w \in Val : w = input
  BY <1>3
<1>7. PICK b \in {junk, w} : b = input
  BY <1>5
<1>6. built' = SetVal(built, ip, b) /\ optimized' = SetVal(optimized, ip, w)
  BY <1>2, <1>5, <1>7
<1> QED BY <1>1, <1>4, <1>6, ValueStep

\* Both runs forget the values of the block, and what reaches its end reaches the next one.
LEMMA BranchStep ==
  ASSUME OptIInv, NEW s, Substitution(s), NEW e, RunOK(s, e), RunBr \/ RunCondBr
  PROVE  RunOK(s, e)'
<1>1. PICK n \in DOMAIN prog : n = ip
  BY DEF RunOK, RunTypeOK
<1>2. /\ WellFormed(prog) /\ DOMAIN prog = 1 .. Len(prog) /\ Len(prog) \in Nat
      /\ prog \in Seq(Instruction) /\ prog[n].bb \in Blocks
      /\ e \in [DOMAIN prog -> Val] /\ param \in Val /\ built \in Runs /\ optimized \in Runs
  BY ProgramFacts DEF OptIInv, IRTypeOK, RunOK, RunTypeOK, WellFormed
<1>3. /\ UNCHANGED <<prog, args, present, param>> /\ ~Is(ip, "store")
      /\ built' = [built EXCEPT !.val = NoValues]
      /\ optimized' = [optimized EXCEPT !.val = NoValues]
      /\ prog[n].op \in {"br", "condbr"}
  BY <1>1 DEF RunBr, RunCondBr, At, Is, optvars, vars
<1>4. PICK k \in DOMAIN prog[n].succ : ip' = FirstOf(prog[n].succ[k])
  <2>1. prog[n] \in Instruction
    BY <1>2
  <2>2. prog[n].succ \in Seq(Nat)
    BY <2>1 DEF Instruction
  <2>3. CASE RunBr
    <3>1. Len(prog[n].succ) = 1 /\ ip' = FirstOf(prog[n].succ[1])
      BY <2>3, <1>1, <1>2 DEF RunBr, At, Is, WellFormed
    <3>2. 1 \in DOMAIN prog[n].succ
      BY <3>1, <2>2
    <3> QED BY <3>1, <3>2
  <2>4. CASE RunCondBr
    <3>1. /\ Len(prog[n].succ) = 2
          /\ ip' = FirstOf(prog[n].succ[1]) \/ ip' = FirstOf(prog[n].succ[2])
      BY <2>4, <1>1, <1>2 DEF RunCondBr, At, Is, WellFormed
    <3>2. 1 \in DOMAIN prog[n].succ /\ 2 \in DOMAIN prog[n].succ
      BY <3>1, <2>2
    <3> QED BY <3>1, <3>2
  <2> QED BY <2>3, <2>4
<1> DEFINE b == prog[n].succ[k]
<1>5. b \in Blocks /\ prog[n].bb \in Preds(b)
  <2>1. b \in Blocks
    BY <1>2 DEF WellFormed, Blocks
  <2>2. b \in Succs(prog[n].bb)
    BY DEF Succs
  <2> QED BY <2>1, <2>2, <1>2 DEF Preds
<1> HIDE DEF b
<1>6. ip' \in DOMAIN prog /\ prog[ip'].bb = b /\ <<EndOf(prog[n].bb), ip'>> \in Flow
      /\ \A v \in DOMAIN prog : prog[v].bb = b => ip' <= v
  <2>1. ip' = FirstOf(b)
    BY <1>4 DEF b
  <2>2. FirstOf(b) \in DOMAIN prog /\ prog[FirstOf(b)].bb = b
    BY <1>2, <1>5, ProgramFacts
  <2>3. <<EndOf(prog[n].bb), FirstOf(b)>> \in Flow
    BY <1>2, <1>5, EdgeToFirst
  <2>4. \A v \in DOMAIN prog : prog[v].bb = b => FirstOf(b) <= v
    BY <1>2, <1>5, BlockFacts
  <2> QED BY <2>1, <2>2, <2>3, <2>4
<1>7. EndOf(prog[n].bb) = n
  <2>1. EndOf(prog[n].bb) \in DOMAIN prog /\ prog[EndOf(prog[n].bb)].bb = prog[n].bb
        /\ prog[EndOf(prog[n].bb)].op \in Terminators /\ prog[n].op \in Terminators
    BY <1>2, <1>3, BlockFacts DEF Terminators
  <2> QED BY <2>1, <1>2, BlockFacts
<1>8. NoValues \in [DOMAIN prog -> Val] /\ Runs' = Runs
  BY <1>3 DEF NoValues, Val, Runs
<1>9. /\ built' \in Runs /\ built'.mem = built.mem
      /\ optimized' \in Runs /\ optimized'.mem = optimized.mem
  <2> HIDE DEF NoValues
  <2>1. built.mem \in [Syms -> Val] /\ optimized.mem \in [Syms -> Val]
    BY <1>2 DEF Runs
  <2>2. /\ built' = [val |-> NoValues, mem |-> built.mem]
        /\ optimized' = [val |-> NoValues, mem |-> optimized.mem]
    BY <1>2, <1>3 DEF Runs
  <2> QED BY <2>1, <2>2, <1>8 DEF Runs
<1>10. RunTypeOK'
  BY <1>2, <1>3, <1>6, <1>8, <1>9 DEF RunTypeOK
<1>11. \A v : ~Done(v)'
  <2> SUFFICES ASSUME NEW v \in DOMAIN prog, v < ip', prog[v].bb = prog[ip'].bb PROVE FALSE
    BY <1>3 DEF Done
  <2>1. ip' <= v
    BY <1>6
  <2> QED BY <2>1, <1>2, <1>6
<1>12. ASSUME NEW x \in Syms PROVE VariableOK(x)'
  <2>1. VariableOK(x)
    BY DEF RunOK
  <2>2. PICK d \in Flow : d = <<ip, ip'>>
    BY <1>1, <1>6, <1>7
  <2>3. UNCHANGED <<prog, args>> /\ ip \in DOMAIN prog /\ ~(Is(ip, "store") /\ prog[ip].sym = x)
    BY <1>1, <1>3
  <2>4. built'.mem[x] = built.mem[x] /\ optimized'.mem[x] = optimized.mem[x]
    BY <1>9
  <2> QED BY <2>1, <2>2, <2>3, <2>4, VariableCarries
<1> QED BY <1>2, <1>3, <1>10, <1>11, <1>12 DEF RunOK

\* The runs start with junk in every variable.
LEMMA StartStep ==
  ASSUME OptIInv, NEW s, StartRun
  PROVE  \E f : RunOK(s, f)'
<1>1. /\ UNCHANGED <<prog, args, present>> /\ ip' = 1 /\ param' \in Word
      /\ built' = NewRun /\ optimized' = NewRun
  BY DEF StartRun, irvars
<1>2. /\ WellFormed(prog) /\ DOMAIN prog = 1 .. Len(prog) /\ Len(prog) \in Nat \ {0}
  BY ProgramFacts DEF OptIInv, IRTypeOK
<1>3. NoValues \in [DOMAIN prog -> Val] /\ [x \in Syms |-> junk] \in [Syms -> Val]
  BY DEF NoValues, Val
<1>4. NewRun \in Runs /\ \A x \in Syms : NewRun.mem[x] = junk
  BY <1>3 DEF NewRun, Runs
<1>5. Runs' = Runs
  BY <1>1 DEF Runs
<1>6. RunTypeOK'
  BY <1>1, <1>2, <1>4, <1>5, ModulusAssumption DEF RunTypeOK, Word, Val
<1>7. \A x \in Syms : VariableOK(x)'
  BY <1>1, <1>4 DEF VariableOK
<1>8. \A v : ~Done(v)'
  BY <1>1, <1>2 DEF Done
<1>9. NoValues \in [DOMAIN prog' -> Val]
  BY <1>1, <1>3
<1> QED BY <1>6, <1>7, <1>8, <1>9 DEF RunOK

-----------------------------------------------------------------------------

\* Whatever the optimizer has done so far is a substitution, and the runs agree on it.
EffectIInv ==
  /\ ComparisonsAgree(prog)
  /\ \E s : Substitution(s) /\ (phase = "run" => \E e : RunOK(s, e))

LEMMA RunEffect ==
  ASSUME OptIInv, OptIInv', EffectIInv, Run
  PROVE  EffectIInv'
<1>1. PICK s : Substitution(s) /\ (phase = "run" => \E e : RunOK(s, e))
  BY DEF EffectIInv
<1>2. Looks
  BY RunLooks
<1>3. Substitution(s)'
  BY <1>1, <1>2, LookSubst
<1>4. ComparisonsAgree(prog)'
  BY <1>2 DEF Looks, irvars, EffectIInv
<1>5. CASE StartRun
  <2>1. \E f : RunOK(s, f)'
    BY <1>5, StartStep
  <2> QED BY <2>1, <1>3, <1>4 DEF EffectIInv
<1>6. CASE Run /\ ~StartRun
  <2>1. phase = "run"
    BY <1>6 DEF Run, RunPure, RunRead, RunStore, RunPrint, RunBr, RunCondBr, Stopped, At
  <2>2. PICK e : RunOK(s, e)
    BY <1>1, <2>1
  <2>3. CASE RunPure
    <3>1. \E f : RunOK(s, f)'
      BY <1>1, <2>2, <2>3, PureStep
    <3> QED BY <3>1, <1>3, <1>4 DEF EffectIInv
  <2>4. CASE RunRead
    <3>1. \E f : RunOK(s, f)'
      BY <1>1, <2>2, <2>4, ReadStep
    <3> QED BY <3>1, <1>3, <1>4 DEF EffectIInv
  <2>5. CASE RunStore \/ RunPrint
    <3>1. RunOK(s, e)'
      BY <1>1, <2>2, <2>5, EffectStep
    <3> QED BY <3>1, <1>3, <1>4 DEF EffectIInv
  <2>6. CASE RunBr \/ RunCondBr
    <3>1. RunOK(s, e)'
      BY <1>1, <2>2, <2>6, BranchStep
    <3> QED BY <3>1, <1>3, <1>4 DEF EffectIInv
  <2>7. CASE Stopped
    <3>1. RunOK(s, e)'
      BY <2>2, <2>7, StutterRun DEF Stopped
    <3> QED BY <3>1, <1>3, <1>4 DEF EffectIInv
  <2> QED BY <1>6, <2>3, <2>4, <2>5, <2>6, <2>7 DEF Run
<1> QED BY <1>5, <1>6

\* While it optimizes, nothing runs.
LEMMA OptimizeEffect ==
  ASSUME OptIInv, OptIInv', EffectIInv, Optimize
  PROVE  EffectIInv'
<1>1. PICK s : Substitution(s)
  BY DEF EffectIInv
<1>2. ComparisonsAgree(prog)
  BY DEF EffectIInv
<1>3. \E t : Substitution(t)'
  BY <1>1, <1>2, OptimizeSubst
<1>4. UNCHANGED prog /\ phase' # "run"
  <2>1. CASE LocalStep
    BY <2>1 DEF LocalStep, FoldInstr, ShareInstr, VisitInstr, SkipInstr, EraseInstr, StepOn,
                Folding, Erasing, irvars
  <2>2. CASE EndOfBlock("start", AfterRound)
    BY <2>2 DEF EndOfBlock, EndPass, Begin, AfterRound, irvars
  <2>3. CASE Propagate
    BY <2>3 DEF Propagate, CPStart, FlowBlock, EnterSweep, SweepStore, ReplaceLoad, KeepLoad,
                SweepOther, Sweeping, Advance, irvars
  <2>4. CASE CountReplaces
    BY <2>4 DEF CountReplaces, Begin, irvars
  <2> QED BY <2>1, <2>2, <2>3, <2>4 DEF Optimize, LocalPass, PropagateConstants
<1>5. ComparisonsAgree(prog)'
  BY <1>2, <1>4
<1> QED BY <1>3, <1>4, <1>5 DEF EffectIInv

LEMMA StutterEffect ==
  ASSUME OptIInv, OptIInv', EffectIInv, UNCHANGED allvars
  PROVE  EffectIInv'
<1>1. PICK s : Substitution(s) /\ (phase = "run" => \E e : RunOK(s, e))
  BY DEF EffectIInv
<1>2. Looks
  BY RunLooks
<1>3. Substitution(s)'
  BY <1>1, <1>2, LookSubst
<1>4. UNCHANGED <<prog, phase>>
  BY DEF allvars, optvars, vars, irvars, cpvars, sweep
<1>5. ASSUME NEW e, RunOK(s, e) PROVE RunOK(s, e)'
  BY <1>5, StutterRun
<1>6. phase' = "run" => \E e : RunOK(s, e)'
  BY <1>1, <1>4, <1>5
<1> QED BY <1>3, <1>4, <1>6 DEF EffectIInv

\* On an effect the optimized run has what the substitution says, and so the same values.
LEMMA EffectsAgree ==
  ASSUME OptIInv, EffectIInv
  PROVE  SameEffects
<1> SUFFICES ASSUME phase = "run", ~Pure(ip), NEW k \in DOMAIN args[ip]
             PROVE  Built(k) \in {junk, Now(k)}
  BY DEF SameEffects
<1>1. PICK s : Substitution(s) /\ \E e : RunOK(s, e)
  BY DEF EffectIInv
<1>2. PICK e : RunOK(s, e)
  BY <1>1
<1>3. PICK n \in DOMAIN prog : n = ip
  BY <1>2 DEF RunOK, RunTypeOK
<1>4. n \in present
  BY <1>3 DEF OptIInv, KeptOK
<1>5. Built(k) \in {junk, Ideal(e, args[n][k])}
  BY <1>1, <1>2, <1>3, BuiltAgrees DEF Built
<1>6. Now(k) = Ideal(e, args[n][k])
  BY <1>1, <1>2, <1>3, <1>4, OptimizedAgrees DEF Now
<1> QED BY <1>5, <1>6

(***************************************************************************)
(* optimize_ir (optimizer.cpp:315-341) changes nothing that can be seen:   *)
(* run side by side with the function as built, on any input, every store, *)
(* print, branch and return of the optimized function has the same         *)
(* operands.  For every word size and every set of functions in which      *)
(* instructions that the sharing pass takes for the same compare in the    *)
(* same way; it does not look at the predicate (optimizer.cpp:80-83), and  *)
(* the IR builder never makes two comparisons in one block.                *)
(***************************************************************************)
THEOREM SameEffectsTheorem ==
  ASSUME \A f \in Programs : ComparisonsAgree(f)
  PROVE  FairORSpec => []SameEffects
<1>1. ORInit => EffectIInv
  <2> SUFFICES ASSUME ORInit PROVE EffectIInv
    OBVIOUS
  <2>1. \E s : Substitution(s)
    BY InitSubst
  <2>2. prog \in Programs /\ phase = "fold"
    BY DEF ORInit, OptInit, IRInit
  <2> QED BY <2>1, <2>2 DEF EffectIInv
<1>2. OptIInv /\ OptIInv' /\ EffectIInv /\ [ORNext]_allvars => EffectIInv'
  <2> SUFFICES ASSUME OptIInv, OptIInv', EffectIInv, [ORNext]_allvars PROVE EffectIInv'
    OBVIOUS
  <2>1. CASE OptimizeOnly
    BY <2>1, OptimizeEffect DEF OptimizeOnly
  <2>2. CASE Run
    BY <2>2, RunEffect
  <2>3. CASE UNCHANGED allvars
    BY <2>3, StutterEffect
  <2> QED BY <2>1, <2>2, <2>3 DEF ORNext
<1>3. OptIInv /\ EffectIInv => SameEffects
  BY EffectsAgree
<1> QED BY OptInductive, <1>1, <1>2, <1>3, PTL DEF FairORSpec
=============================================================================
