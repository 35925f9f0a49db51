--------------------------- MODULE ConstPropProofs ---------------------------
(***************************************************************************)
(* The data-flow analysis of constant propagation solves its equations,    *)
(* for every function.  The invariant behind it, RoundOK: as long as a     *)
(* round has changed no out set, the blocks it has passed satisfy their    *)
(* equations.                                                              *)
(*                                                                         *)
(* The sets are exact, too: at each load the sweep considers the stores    *)
(* that can be the last to have written the variable, no others, and all   *)
(* of them.  One direction is an invariant of the fixpoint loop            *)
(* (SetsSound): what is in a set reaches.  The other one follows from its  *)
(* end (Solved): the walk from a store cannot leave sets that solve the    *)
(* equations.                                                              *)
(***************************************************************************)
EXTENDS ConstProp, TLAPS, WellFoundedInduction, FiniteSetTheorems

N == prog[Len(prog)].bb

StoreSet == {i \in DOMAIN prog : prog[i].op = "store"}

\* What the sets of stores and the operands are, in more detail than CPTypeOK.
ShapeOK ==
  /\ gen \in [Blocks -> SUBSET StoreSet]
  /\ kill \in [Blocks -> SUBSET StoreSet]
  /\ in \in [Blocks -> SUBSET StoreSet]
  /\ out \in [Blocks -> SUBSET StoreSet]
  /\ r \subseteq StoreSet
  /\ \A i \in DOMAIN prog : Len(args[i]) = Len(prog[i].args)
  /\ phase = "sweep" => prog[pc].bb = bb

EquationsOf(b) == in[b] = JoinIn(b) /\ out[b] = Transfer(b, in[b])

RoundOK == phase = "flow" /\ ~changed => \A b \in Blocks : b < bb => EquationsOf(b)

IInv == CPTypeOK /\ ShapeOK /\ RoundOK /\ Solved

-----------------------------------------------------------------------------

\* Blocks are 1 .. N, each with a first instruction; stores have one operand.
LEMMA ProgramFacts ==
  ASSUME WellFormed(prog)
  PROVE  /\ Len(prog) \in Nat \ {0}
         /\ DOMAIN prog = 1 .. Len(prog)
         /\ \A i \in DOMAIN prog : prog[i].args \in Seq(Int) /\ prog[i].bb \in Nat
         /\ \A i \in StoreSet : Len(prog[i].args) = 1
         /\ N \in Nat \ {0} /\ Blocks = 1 .. N
         /\ \A i \in DOMAIN prog : prog[i].bb \in Blocks
         /\ \A b \in Blocks : FirstOf(b) \in DOMAIN prog /\ prog[FirstOf(b)].bb = b
<1>1. prog \in Seq(Instruction) /\ prog # <<>>
  BY DEF WellFormed
<1>2. Len(prog) \in Nat \ {0} /\ DOMAIN prog = 1 .. Len(prog)
  BY <1>1
<1>3. \A i \in DOMAIN prog : prog[i] \in Instruction
  BY <1>1, <1>2
<1>4. \A i \in DOMAIN prog : prog[i].args \in Seq(Int) /\ prog[i].bb \in Nat
  BY <1>3 DEF Instruction
<1>5. \A i \in StoreSet : Len(prog[i].args) = 1
  BY DEF WellFormed, StoreSet
<1>6. \A i, j \in DOMAIN prog : i <= j => 1 <= prog[i].bb /\ prog[i].bb <= prog[j].bb
  BY DEF WellFormed
<1>7. N \in Nat \ {0} /\ Blocks = 1 .. N
  BY <1>2, <1>4, <1>6 DEF N, Blocks
<1>8. \A i \in DOMAIN prog : prog[i].bb \in Blocks
  BY <1>2, <1>4, <1>6, <1>7 DEF N
<1>9. \A b \in Blocks : \E i \in DOMAIN prog :
        prog[i].bb = b /\ \A j \in 1 .. i - 1 : prog[j].bb # b
  BY DEF WellFormed, Blocks
<1> QED BY <1>2, <1>4, <1>5, <1>7, <1>8, <1>9 DEF FirstOf

\* Replacing uses changes operands, not how many there are.
LEMMA ReplacedFacts ==
  ASSUME NEW operands \in [DOMAIN prog -> Seq(Int)], NEW i, NEW v \in Int
  PROVE  /\ Replaced(operands, i, v) \in [DOMAIN prog -> Seq(Int)]
         /\ \A j \in DOMAIN prog : Len(Replaced(operands, i, v)[j]) = Len(operands[j])
<1> SUFFICES ASSUME NEW j \in DOMAIN prog
             PROVE  /\ Replaced(operands, i, v)[j] \in Seq(Int)
                    /\ Len(Replaced(operands, i, v)[j]) = Len(operands[j])
  BY DEF Replaced
<1> DEFINE s == operands[j]
<1> DEFINE t == [k \in 1 .. Len(s) |-> IF s[k] = i THEN v ELSE s[k]]
<1>1. s \in Seq(Int) /\ Len(s) \in Nat /\ DOMAIN s = 1 .. Len(s)
  OBVIOUS
<1>2. Replaced(operands, i, v)[j] = t
  BY <1>1 DEF Replaced
<1>3. \A k \in 1 .. Len(s) : t[k] \in Int
  BY <1>1
<1>4. t \in Seq(Int) /\ Len(t) = Len(s)
  BY <1>1, <1>3
<1> QED BY <1>2, <1>4

\* The sets start empty, at the first instruction of the first block.
LEMMA InitIInv == CPInit => IInv
<1> SUFFICES ASSUME CPInit PROVE IInv
  OBVIOUS
<1>1. WellFormed(prog)
  BY ProgramsAssumption DEF CPInit, IRInit
<1>2. 1 \in DOMAIN prog /\ 1 \in Blocks
  BY <1>1, ProgramFacts
<1>3. IRTypeOK
  BY <1>1, ProgramFacts DEF CPInit, IRInit, IRTypeOK
<1>5. CPTypeOK
  BY <1>2, <1>3 DEF CPInit, CPTypeOK, SetsTypeOK
<1>6. ShapeOK
  BY <1>1, ProgramFacts DEF CPInit, IRInit, ShapeOK
<1> QED BY <1>5, <1>6 DEF CPInit, IInv, RoundOK, Solved

\* IInv depends on the variables only.
LEMMA StutterIInv == IInv /\ UNCHANGED vars => IInv'
<1> SUFFICES ASSUME IInv, UNCHANGED vars PROVE IInv'
  OBVIOUS
<1>1. UNCHANGED <<prog, args, present, phase, gen, kill, in, out, changed, bb, pc, r, marked,
                  replaces>>
  BY DEF vars, cpvars
<1>2. Blocks' = Blocks /\ StoreSet' = StoreSet
  BY <1>1 DEF Blocks, StoreSet
<1>3. \A b \in Blocks : JoinIn(b)' = JoinIn(b)
  BY <1>1, <1>2 DEF JoinIn, Preds, Succs
<1>4. CPTypeOK'
  BY <1>1, <1>2 DEF IInv, CPTypeOK, SetsTypeOK, IRTypeOK
<1>5. ShapeOK'
  BY <1>1, <1>2 DEF IInv, ShapeOK
<1>6. RoundOK' /\ Solved'
  BY <1>1, <1>2, <1>3 DEF IInv, RoundOK, Solved, EquationsOf, Transfer
<1> QED BY <1>4, <1>5, <1>6 DEF IInv

\* No block has been passed when the fixpoint loop starts.
LEMMA StartIInv == IInv /\ CPStart => IInv'
<1> SUFFICES ASSUME IInv, CPStart PROVE IInv'
  OBVIOUS
<1>1. WellFormed(prog)
  BY DEF IInv, CPTypeOK, SetsTypeOK, IRTypeOK
<1>2. Blocks' = Blocks /\ StoreSet' = StoreSet /\ 1 \in Blocks /\ UNCHANGED irvars
  BY <1>1, ProgramFacts DEF CPStart, Blocks, StoreSet, irvars
<1>3. \A b \in Blocks : Gen(b) \subseteq StoreSet /\ Kill(b) \subseteq StoreSet
  BY DEF Gen, Kill, Stores, StoreSet, Is, IInv, CPTypeOK, SetsTypeOK, IRTypeOK
<1>4. StoreSet \subseteq DOMAIN prog
  BY DEF StoreSet
<1>5. CPTypeOK'
  BY <1>2, <1>3, <1>4 DEF CPStart, IInv, CPTypeOK, SetsTypeOK, IRTypeOK, irvars
<1>6. ShapeOK'
  BY <1>2, <1>3 DEF CPStart, IInv, ShapeOK, irvars
<1>7. RoundOK' /\ Solved'
  BY <1>1, <1>2, ProgramFacts DEF CPStart, RoundOK, Solved
<1> QED BY <1>5, <1>6, <1>7 DEF IInv

\* Recomputing a block keeps what is said of the blocks before it if no out set moves.
LEMMA FlowIInv == IInv /\ FlowBlock => IInv'
<1> SUFFICES ASSUME IInv, FlowBlock PROVE IInv'
  OBVIOUS
<1>1. WellFormed(prog)
  BY DEF IInv, CPTypeOK, SetsTypeOK, IRTypeOK
<1>2. /\ UNCHANGED <<irvars, gen, kill, sweep>> /\ phase = "flow" /\ bb \in Blocks
      /\ in' = [in EXCEPT ![bb] = JoinIn(bb)]
      /\ out' = [out EXCEPT ![bb] = Transfer(bb, JoinIn(bb))]
  BY DEF FlowBlock, IInv, CPTypeOK, SetsTypeOK
<1>3. Blocks' = Blocks /\ StoreSet' = StoreSet
  BY <1>2 DEF Blocks, StoreSet, irvars
<1>4. gen \in [Blocks -> SUBSET StoreSet] /\ out \in [Blocks -> SUBSET StoreSet]
      /\ in \in [Blocks -> SUBSET StoreSet] /\ kill \in [Blocks -> SUBSET StoreSet]
  BY DEF IInv, ShapeOK
<1>5. JoinIn(bb) \in SUBSET StoreSet /\ Transfer(bb, JoinIn(bb)) \in SUBSET StoreSet
  BY <1>2, <1>4 DEF JoinIn, Transfer, Preds
<1>6. in' \in [Blocks -> SUBSET StoreSet] /\ out' \in [Blocks -> SUBSET StoreSet]
  BY <1>2, <1>4, <1>5
<1>7. StoreSet \subseteq DOMAIN prog
  BY DEF StoreSet
<1>8. bb' \in Blocks /\ phase' \in {"flow", "enter"} /\ changed' \in BOOLEAN
  <2>1. CASE LastBlock
    <3>1. 1 \in Blocks
      BY <1>1, ProgramFacts
    <3> QED BY <2>1, <3>1 DEF FlowBlock
  <2>2. CASE ~LastBlock
    <3>1. bb + 1 \in Blocks
      BY <2>2, <1>1, <1>2, ProgramFacts DEF LastBlock, N
    <3>2. SomeMoved \in BOOLEAN
      BY DEF SomeMoved, Moves, IInv, CPTypeOK, SetsTypeOK
    <3> QED BY <2>2, <3>1, <3>2, <1>2 DEF FlowBlock
  <2> QED BY <2>1, <2>2
<1>9. CPTypeOK'
  <2>1. IRTypeOK'
    BY <1>2 DEF IInv, CPTypeOK, SetsTypeOK, IRTypeOK, irvars
  <2>2. UNCHANGED <<prog, gen, kill, pc, r, marked, replaces>>
    BY <1>2 DEF irvars, sweep
  <2> QED BY <2>1, <2>2, <1>3, <1>6, <1>7, <1>8 DEF IInv, CPTypeOK, SetsTypeOK
<1>10. ShapeOK'
  BY <1>2, <1>3, <1>6, <1>8 DEF IInv, ShapeOK, irvars, sweep
\* If the round has changed nothing so far, the blocks passed are solved.
<1>11. ASSUME ~SomeMoved
       PROVE  /\ out' = out
              /\ \A b \in Blocks : b < bb + 1 => EquationsOf(b)'
  <2>1. out' = out
    BY <1>2, <1>4, <1>11 DEF SomeMoved, Moves
  <2>2. \A b \in Blocks : b < bb => EquationsOf(b)
    BY <1>2, <1>11 DEF IInv, RoundOK, SomeMoved
  <2>3. \A b \in Blocks : JoinIn(b)' = JoinIn(b)
    BY <2>1, <1>2, <1>3 DEF JoinIn, Preds, Succs, irvars
  <2>4. \A b \in Blocks : b = bb => EquationsOf(b)'
    <3> SUFFICES ASSUME NEW b \in Blocks, b = bb PROVE EquationsOf(b)'
      OBVIOUS
    <3>1. in'[b] = JoinIn(b) /\ out'[b] = Transfer(b, JoinIn(b))
      BY <1>2, <1>4
    <3>2. Transfer(b, JoinIn(b)) = Transfer(b, in[b])'
      BY <3>1, <1>2 DEF Transfer
    <3> QED BY <3>1, <3>2, <2>3 DEF EquationsOf
  <2>5. \A b \in Blocks : b < bb => EquationsOf(b)'
    BY <2>1, <2>2, <2>3, <1>2, <1>4 DEF EquationsOf, Transfer
  <2>6. \A b \in Blocks : b \in Int /\ bb \in Int
    BY <1>1, <1>2, ProgramFacts
  <2> QED BY <2>1, <2>4, <2>5, <2>6
<1>12. RoundOK'
  <2>1. CASE LastBlock
    BY <2>1, <1>1, <1>3, ProgramFacts DEF FlowBlock, RoundOK
  <2>2. CASE ~LastBlock
    BY <2>2, <1>3, <1>11 DEF FlowBlock, RoundOK
  <2> QED BY <2>1, <2>2
<1>13. Solved'
  <2> SUFFICES ASSUME phase' \in {"enter", "sweep"}
               PROVE  \A b \in Blocks : EquationsOf(b)'
    BY <1>3 DEF Solved, EquationsOf
  <2>1. LastBlock /\ ~SomeMoved
    BY <1>2 DEF FlowBlock
  <2>2. \A b \in Blocks : b < bb + 1
    BY <2>1, <1>1, ProgramFacts DEF LastBlock, N
  <2> QED BY <2>1, <2>2, <1>11
<1> QED BY <1>9, <1>10, <1>12, <1>13 DEF IInv

\* The sets of the entered block are stores, and its first instruction is in it.
LEMMA EnterIInv == IInv /\ EnterSweep => IInv'
<1> SUFFICES ASSUME IInv, EnterSweep PROVE IInv'
  OBVIOUS
<1>1. WellFormed(prog) /\ bb \in Blocks
  BY DEF IInv, CPTypeOK, SetsTypeOK, IRTypeOK
<1>2. /\ UNCHANGED <<prog, args, present, gen, kill, in, out, changed, bb, replaces>>
      /\ phase = "enter" /\ phase' = "sweep" /\ pc' = FirstOf(bb) /\ r' = in[bb] /\ marked' = {}
  BY DEF EnterSweep, irvars, dataflow
<1>3. Blocks' = Blocks /\ StoreSet' = StoreSet /\ StoreSet \subseteq DOMAIN prog
  BY <1>2 DEF Blocks, StoreSet
<1>4. FirstOf(bb) \in DOMAIN prog /\ prog[FirstOf(bb)].bb = bb
  BY <1>1, ProgramFacts
<1>5. in[bb] \in SUBSET StoreSet
  BY <1>1 DEF IInv, ShapeOK
<1>6. CPTypeOK'
  BY <1>2, <1>3, <1>4, <1>5 DEF IInv, CPTypeOK, SetsTypeOK, IRTypeOK
<1>7. ShapeOK'
  BY <1>2, <1>3, <1>4, <1>5 DEF IInv, ShapeOK
<1>8. \A b \in Blocks : JoinIn(b)' = JoinIn(b)
  BY <1>2, <1>3 DEF JoinIn, Preds, Succs
<1>9. RoundOK' /\ Solved'
  BY <1>2, <1>3, <1>8 DEF IInv, RoundOK, Solved, Transfer
<1> QED BY <1>6, <1>7, <1>9 DEF IInv

\* A step of the sweep moves on in the block or to the next one, and leaves the sets alone.
LEMMA SweepIInv ==
  ASSUME IInv, phase = "sweep", NEW loads \in SUBSET DOMAIN prog, Advance(loads),
         UNCHANGED <<prog, dataflow, changed>>,
         r' \in SUBSET StoreSet, replaces' \in Nat,
         args' \in [DOMAIN prog -> Seq(Int)],
         \A i \in DOMAIN prog : Len(args'[i]) = Len(args[i])
  PROVE  IInv'
<1>1. WellFormed(prog) /\ bb \in Blocks /\ pc \in DOMAIN prog /\ prog[pc].bb = bb
  BY DEF IInv, CPTypeOK, SetsTypeOK, IRTypeOK, ShapeOK
<1>2. UNCHANGED <<prog, gen, kill, in, out, changed>>
  BY DEF dataflow
<1>3. Blocks' = Blocks /\ StoreSet' = StoreSet /\ StoreSet \subseteq DOMAIN prog
  BY <1>2 DEF Blocks, StoreSet
<1>4. /\ pc' \in DOMAIN prog /\ bb' \in Blocks /\ phase' \in {"sweep", "enter", "done"}
      /\ marked' \subseteq DOMAIN prog /\ present' \subseteq DOMAIN prog
      /\ phase' = "sweep" => prog[pc'].bb = bb'
  <2>1. present \subseteq DOMAIN prog /\ marked \subseteq DOMAIN prog
    BY DEF IInv, CPTypeOK, SetsTypeOK, IRTypeOK
  <2>2. ~LastBlock => bb + 1 \in Blocks
    BY <1>1, ProgramFacts DEF LastBlock, N
  <2>3. CASE pc + 1 \in DOMAIN prog /\ prog[pc + 1].bb = bb
    BY <2>1, <2>3, <1>1 DEF Advance
  <2>4. CASE ~(pc + 1 \in DOMAIN prog /\ prog[pc + 1].bb = bb)
    BY <2>1, <2>2, <2>4, <1>1 DEF Advance
  <2> QED BY <2>3, <2>4
<1>5. CPTypeOK'
  BY <1>2, <1>3, <1>4 DEF IInv, CPTypeOK, SetsTypeOK, IRTypeOK
<1>6. ShapeOK'
  BY <1>2, <1>3, <1>4 DEF IInv, ShapeOK
<1>7. \A b \in Blocks : JoinIn(b)' = JoinIn(b)
  BY <1>2, <1>3 DEF JoinIn, Preds, Succs
<1>8. RoundOK' /\ Solved'
  BY <1>2, <1>3, <1>4, <1>7 DEF IInv, RoundOK, Solved, Transfer
<1> QED BY <1>5, <1>6, <1>8 DEF IInv

\* The three steps that replace nothing.
LEMMA KeepIInv == IInv /\ (SweepStore \/ KeepLoad \/ SweepOther) => IInv'
<1> SUFFICES ASSUME IInv, SweepStore \/ KeepLoad \/ SweepOther PROVE IInv'
  OBVIOUS
<1>1. /\ args \in [DOMAIN prog -> Seq(Int)] /\ replaces \in Nat
      /\ marked \in SUBSET DOMAIN prog /\ r \in SUBSET StoreSet /\ pc \in DOMAIN prog
  BY DEF IInv, CPTypeOK, SetsTypeOK, IRTypeOK, ShapeOK
<1>2. CASE SweepStore
  <2>1. pc \in StoreSet
    BY <1>1, <1>2 DEF SweepStore, Sweeping, Is, StoreSet
  <2>2. r' \in SUBSET StoreSet
    BY <1>1, <1>2, <2>1 DEF SweepStore
  <2> QED BY <1>1, <1>2, <2>2, SweepIInv DEF SweepStore, Sweeping
<1>3. CASE KeepLoad
  BY <1>1, <1>3, SweepIInv DEF KeepLoad, Sweeping
<1>4. CASE SweepOther
  BY <1>1, <1>4, SweepIInv DEF SweepOther
<1> QED BY <1>2, <1>3, <1>4

\* What replaces a load is the operand of a store.
LEMMA ReplaceIInv == IInv /\ ReplaceLoad => IInv'
<1> SUFFICES ASSUME IInv, ReplaceLoad PROVE IInv'
  OBVIOUS
<1>1. /\ args \in [DOMAIN prog -> Seq(Int)] /\ replaces \in Nat /\ WellFormed(prog)
      /\ marked \in SUBSET DOMAIN prog /\ r \in SUBSET StoreSet /\ pc \in DOMAIN prog
      /\ \A i \in DOMAIN prog : Len(args[i]) = Len(prog[i].args)
  BY DEF IInv, CPTypeOK, SetsTypeOK, IRTypeOK, ShapeOK
<1>2. PICK c \in Stored : args' = Replaced(args, pc, c)
  BY DEF ReplaceLoad
<1>3. PICK s \in r : c = args[s][1]
  BY <1>2 DEF Stored, Writes
<1>4. s \in DOMAIN prog /\ Len(args[s]) = 1
  BY <1>1, <1>3, ProgramFacts DEF StoreSet
<1>5. c \in Int
  <2>1. args[s] \in Seq(Int) /\ 1 \in 1 .. Len(args[s])
    BY <1>1, <1>4
  <2> QED BY <2>1, <1>3
<1>6. /\ args' \in [DOMAIN prog -> Seq(Int)]
      /\ \A i \in DOMAIN prog : Len(args'[i]) = Len(args[i])
  BY <1>1, <1>2, <1>5, ReplacedFacts
<1>7. marked \cup {pc} \in SUBSET DOMAIN prog /\ replaces + 1 \in Nat
  BY <1>1
<1> QED BY <1>1, <1>6, <1>7, SweepIInv DEF ReplaceLoad, Sweeping

\* IInv is inductive.
THEOREM Inductive == CPSpec => []IInv
<1>1. IInv /\ [CPNext]_vars => IInv'
  BY StutterIInv, StartIInv, FlowIInv, EnterIInv, KeepIInv, ReplaceIInv
     DEF CPNext, Propagate, Finished
<1> QED BY InitIInv, <1>1, PTL DEF CPSpec

(***************************************************************************)
(* Type correctness, for every function: the sweep stays inside the        *)
(* function, and the sets hold its instructions.                           *)
(***************************************************************************)
THEOREM TypeCorrect == CPSpec => []CPTypeOK
<1>1. IInv => CPTypeOK
  BY DEF IInv
<1> QED BY Inductive, <1>1, PTL

(***************************************************************************)
(* When the fixpoint loop (optimizer.cpp:229-258) ends, the in and out     *)
(* sets the sweep reads solve the data-flow equations, whatever the graph. *)
(***************************************************************************)
THEOREM SolvedTheorem == CPSpec => []Solved
<1>1. IInv => Solved
  BY DEF IInv
<1> QED BY Inductive, <1>1, PTL

-----------------------------------------------------------------------------
\* A set of natural numbers has a least element.
LEMMA LeastExists ==
  ASSUME NEW S \in SUBSET Nat, S # {}
  PROVE  \E m \in S : \A n \in S : m <= n
<1> DEFINE Less == {ss \in Nat \X Nat : ss[1] < ss[2]}
<1>1. OpToRel(<, Nat) = Less
  BY DEF OpToRel
<1>2. IsWellFoundedOn(Less, Nat)
  BY <1>1, NatLessThanWellFounded
<1>3. \A m, n \in Nat : n < m => <<n, m>> \in Less
  OBVIOUS
<1> HIDE DEF Less
<1>4. PICK m \in S : \A n \in S : ~(<<n, m>> \in Less)
  BY <1>2, WFMin
<1>5. ASSUME NEW n \in S PROVE m <= n
  <2>1. m \in Nat /\ n \in Nat
    OBVIOUS
  <2>2. ~(n < m)
    BY <1>3, <1>4, <2>1
  <2> QED BY <2>1, <2>2
<1> QED BY <1>5

\* Induction over the natural numbers, for a set of them.
LEMMA NatSetInduction ==
  ASSUME NEW T, 0 \in T, \A n \in Nat : n \in T => n + 1 \in T
  PROVE  \A n \in Nat : n \in T
<1> SUFFICES ASSUME \E n \in Nat : n \notin T PROVE FALSE
  OBVIOUS
<1>1. PICK m \in Nat \ T : \A n \in Nat \ T : m <= n
  BY LeastExists
<1>2. m # 0 /\ m - 1 \in Nat /\ m - 1 \in T
  BY <1>1
<1> QED BY <1>2

Grown(s, places) == places \cup Onward(s, places)

\* h[n]: what is reached after n + 1 steps from s.
WalkedBy(s, h) ==
  h = [n \in Nat |-> IF n = 0 THEN Onward(s, {s})
                     ELSE LET before == h[n - 1] IN before \cup Onward(s, before)]

\* The walk stays in the function.
LEMMA OnwardType == \A s, places : Onward(s, places) \subseteq DOMAIN prog
BY DEF Onward, Flow

\* There is such a function: the walks of k steps are unique, and extend each other.
LEMMA WalkExists ==
  ASSUME NEW s
  PROVE  \E h : WalkedBy(s, h)
<1> DEFINE D == SUBSET DOMAIN prog
<1> DEFINE Walk(k, g) ==
      /\ g \in [0 .. k -> D]
      /\ g[0] = Onward(s, {s})
      /\ \A n \in 0 .. k - 1 : g[n + 1] = Grown(s, g[n])
<1>1. \A P \in D : Grown(s, P) \in D
  BY OnwardType DEF Grown
<1>2. Onward(s, {s}) \in D
  BY OnwardType
<1>3. \A k \in Nat : \E g : Walk(k, g)
  <2> DEFINE T == {k \in Nat : \E g : Walk(k, g)}
  <2>1. 0 \in T
    <3>1. Walk(0, [n \in 0 .. 0 |-> Onward(s, {s})])
      BY <1>2
    <3> QED BY <3>1
  <2>2. \A k \in Nat : k \in T => k + 1 \in T
    <3> SUFFICES ASSUME NEW k \in Nat, k \in T PROVE k + 1 \in T
      OBVIOUS
    <3> PICK g : Walk(k, g)
      OBVIOUS
    <3> DEFINE f == [n \in 0 .. k + 1 |-> IF n = k + 1 THEN Grown(s, g[k]) ELSE g[n]]
    <3>1. f \in [0 .. k + 1 -> D] /\ f[0] = Onward(s, {s})
      BY <1>1
    <3>2. ASSUME NEW n \in 0 .. k + 1 - 1 PROVE f[n + 1] = Grown(s, f[n])
      <4>1. n \in 0 .. k /\ n # k + 1 /\ f[n] = g[n]
        OBVIOUS
      <4>2. CASE n = k
        BY <4>1, <4>2
      <4>3. CASE n # k
        <5>1. n + 1 \in 0 .. k /\ n \in 0 .. k - 1
          BY <4>1, <4>3
        <5>2. f[n + 1] = g[n + 1] /\ g[n + 1] = Grown(s, g[n])
          BY <5>1
        <5> QED BY <5>2, <4>1
      <4> QED BY <4>2, <4>3
    <3>3. Walk(k + 1, f)
      BY <3>1, <3>2
    <3> HIDE DEF f, Walk
    <3> QED BY <3>3
  <2> HIDE DEF T
  <2>3. \A k \in Nat : k \in T
    BY <2>1, <2>2, NatSetInduction
  <2> QED BY <2>3 DEF T
<1>4. ASSUME NEW k \in Nat, NEW m \in Nat, NEW g, NEW f, Walk(k, g), Walk(m, f)
      PROVE  \A n \in Nat : n <= k /\ n <= m => g[n] = f[n]
  <2> DEFINE T == {n \in Nat : n <= k /\ n <= m => g[n] = f[n]}
  <2>1. 0 \in T
    BY <1>4
  <2>2. \A n \in Nat : n \in T => n + 1 \in T
    <3> SUFFICES ASSUME NEW n \in Nat, n + 1 <= k, n + 1 <= m, g[n] = f[n]
                 PROVE  g[n + 1] = f[n + 1]
      OBVIOUS
    <3>1. n \in 0 .. k - 1 /\ n \in 0 .. m - 1
      OBVIOUS
    <3> QED BY <3>1, <1>4
  <2> HIDE DEF T
  <2>3. \A n \in Nat : n \in T
    BY <2>1, <2>2, NatSetInduction
  <2> QED BY <2>3 DEF T
<1> DEFINE G(k) == CHOOSE g : Walk(k, g)
<1> DEFINE H == [n \in Nat |-> G(n)[n]]
<1>5. \A k \in Nat : Walk(k, G(k))
  BY <1>3
<1>6. H[0] = Onward(s, {s})
  BY <1>5
<1>7. ASSUME NEW n \in Nat PROVE H[n + 1] = Grown(s, H[n])
  <2> HIDE DEF G
  <2>1. Walk(n + 1, G(n + 1)) /\ Walk(n, G(n))
    <3> HIDE DEF Walk
    <3>1. n + 1 \in Nat
      OBVIOUS
    <3> QED BY <3>1, <1>5
  <2>2. G(n + 1)[n + 1] = Grown(s, G(n + 1)[n])
    BY <2>1
  <2>3. G(n + 1)[n] = G(n)[n]
    <3> HIDE DEF Walk
    <3> QED BY <2>1, <1>4
  <2> QED BY <2>2, <2>3
<1>8. WalkedBy(s, H)
  <2> DEFINE F == [n \in Nat |-> IF n = 0 THEN Onward(s, {s})
                     ELSE LET before == H[n - 1] IN before \cup Onward(s, before)]
  <2>1. ASSUME NEW n \in Nat PROVE H[n] = F[n]
    <3>1. CASE n = 0
      BY <3>1, <1>6
    <3>2. CASE n # 0
      <4>1. n - 1 \in Nat /\ (n - 1) + 1 = n
        BY <3>2
      <4>2. H[n] = Grown(s, H[n - 1])
        BY <1>7, <4>1
      <4> HIDE DEF H
      <4> QED BY <4>2, <3>2 DEF Grown
    <3> QED BY <3>1, <3>2
  <2>2. H = F
    BY <2>1
  <2> QED BY <2>2 DEF WalkedBy
<1> QED BY <1>8

\* What is reached after n + 1 steps of the walk from s.
Reached(s, n) == (CHOOSE h : WalkedBy(s, h))[n]

\* ReachedFrom(s) is what Len(prog) steps more have reached.
LEMMA ReachedSteps ==
  ASSUME NEW s
  PROVE  /\ Reached(s, 0) = Onward(s, {s})
         /\ \A n \in Nat : Reached(s, n + 1) = Grown(s, Reached(s, n))
         /\ ReachedFrom(s) = Reached(s, Len(prog))
<1> DEFINE h == CHOOSE h : WalkedBy(s, h)
<1>1. WalkedBy(s, h)
  BY WalkExists
<1>2. ReachedFrom(s) = h[Len(prog)]
  BY Zenon DEF ReachedFrom, WalkedBy
<1> HIDE DEF h
<1>3. h[0] = Onward(s, {s})
  BY <1>1 DEF WalkedBy
<1>4. ASSUME NEW n \in Nat PROVE h[n + 1] = Grown(s, h[n])
  <2>1. n + 1 \in Nat /\ n + 1 # 0 /\ (n + 1) - 1 = n
    OBVIOUS
  <2> QED BY <2>1, <1>1 DEF WalkedBy, Grown
<1> QED BY <1>2, <1>3, <1>4 DEF Reached, h


\* The walk ends: when it has grown Len(prog) times it has been everywhere.
LEMMA ReachedStops ==
  ASSUME WellFormed(prog), NEW s
  PROVE  Onward(s, ReachedFrom(s)) \subseteq ReachedFrom(s)
<1> DEFINE L == Len(prog)
<1> DEFINE R(n) == Reached(s, n)
<1>1. /\ L \in Nat /\ DOMAIN prog = 1 .. L
      /\ IsFiniteSet(DOMAIN prog) /\ Cardinality(DOMAIN prog) = L
  BY ProgramFacts, FS_Interval
<1>2. R(0) = Onward(s, {s}) /\ ReachedFrom(s) = R(L)
  BY ReachedSteps
<1>3. \A n \in Nat : R(n + 1) = Grown(s, R(n))
  BY ReachedSteps
<1> HIDE DEF R, L
<1> DEFINE Stopped(n) == Onward(s, R(n)) \subseteq R(n)
\* Either it has stopped, or it has met n instructions.
<1> DEFINE T == {n \in Nat : R(n) \subseteq DOMAIN prog /\ (Stopped(n) \/ Cardinality(R(n)) >= n)}
<1>4. 0 \in T
  <2>1. R(0) \subseteq DOMAIN prog
    BY <1>2, OnwardType
  <2>2. Cardinality(R(0)) \in Nat
    BY <2>1, <1>1, FS_Subset, FS_CardinalityType
  <2> QED BY <2>1, <2>2
<1>5. ASSUME NEW n \in Nat, n \in T PROVE n + 1 \in T
  <2>1. R(n + 1) = Grown(s, R(n)) /\ R(n) \subseteq DOMAIN prog
    BY <1>3, <1>5
  <2>2. R(n + 1) \subseteq DOMAIN prog /\ IsFiniteSet(R(n + 1)) /\ IsFiniteSet(R(n))
    BY <2>1, <1>1, OnwardType, FS_Subset DEF Grown
  <2>3. CASE Stopped(n)
    <3>1. R(n + 1) = R(n)
      BY <2>1, <2>3 DEF Grown
    <3> QED BY <2>2, <2>3, <3>1
  <2>4. CASE ~Stopped(n)
    <3>1. R(n) \subseteq R(n + 1) /\ R(n) # R(n + 1)
      BY <2>1, <2>4 DEF Grown
    <3>2. Cardinality(R(n)) \in Nat /\ Cardinality(R(n + 1)) \in Nat
      BY <2>2, FS_CardinalityType
    <3>3. /\ Cardinality(R(n)) <= Cardinality(R(n + 1))
          /\ Cardinality(R(n)) # Cardinality(R(n + 1))
      BY <2>2, <3>1, FS_Subset
    <3>4. Cardinality(R(n)) >= n
      BY <1>5, <2>4
    <3> QED BY <2>2, <3>2, <3>3, <3>4
  <2> QED BY <2>3, <2>4
<1> HIDE DEF T
<1>6. \A n \in Nat : n \in T
  BY <1>4, <1>5, NatSetInduction
<1>7. R(L) \subseteq DOMAIN prog /\ (Stopped(L) \/ Cardinality(R(L)) >= L)
  BY <1>1, <1>6 DEF T
<1>8. CASE Cardinality(R(L)) >= L
  <2>1. Cardinality(R(L)) \in Nat /\ Cardinality(R(L)) <= L
    BY <1>1, <1>7, FS_Subset, FS_CardinalityType
  <2>2. R(L) = DOMAIN prog
    BY <1>1, <1>7, <1>8, <2>1, FS_Subset
  <2> QED BY <1>2, <2>2, OnwardType
<1> QED BY <1>2, <1>7, <1>8

\* ReachedFrom(s) is closed under the walk from s.
LEMMA ReachedClosed ==
  ASSUME WellFormed(prog), NEW s, NEW e \in Flow,
         e[1] = s \/ (e[1] \in ReachedFrom(s) /\ Passes(s, e[1]))
  PROVE  e[2] \in ReachedFrom(s)
<1>1. CASE e[1] = s
  <2>1. e[2] \in Reached(s, 0)
    BY <1>1, ReachedSteps DEF Onward, Passes
  <2> DEFINE T == {n \in Nat : e[2] \in Reached(s, n)}
  <2>2. 0 \in T
    BY <2>1
  <2>3. ASSUME NEW n \in Nat, n \in T PROVE n + 1 \in T
    <3>1. Reached(s, n + 1) = Grown(s, Reached(s, n))
      BY ReachedSteps
    <3> QED BY <3>1, <2>3 DEF Grown
  <2> HIDE DEF T
  <2>4. Len(prog) \in T
    BY <2>2, <2>3, NatSetInduction, ProgramFacts
  <2> QED BY <2>4, ReachedSteps DEF T
<1>2. CASE e[1] \in ReachedFrom(s) /\ Passes(s, e[1])
  BY <1>2, ReachedStops DEF Onward
<1> QED BY <1>1, <1>2

\* And it is in every such set.
LEMMA ReachedLeast ==
  ASSUME WellFormed(prog), NEW s, NEW T,
         \A e \in Flow : e[1] = s \/ (e[1] \in T /\ Passes(s, e[1])) => e[2] \in T
  PROVE  ReachedFrom(s) \subseteq T
<1> DEFINE U == {n \in Nat : Reached(s, n) \subseteq T}
<1>1. 0 \in U
  BY ReachedSteps DEF Onward
<1>2. \A n \in Nat : n \in U => n + 1 \in U
  BY ReachedSteps DEF Grown, Onward
<1> HIDE DEF U
<1>3. Len(prog) \in U
  BY <1>1, <1>2, NatSetInduction, ProgramFacts
<1> QED BY <1>3, ReachedSteps DEF U


-----------------------------------------------------------------------------

EndOf(b) == CHOOSE i \in DOMAIN prog : prog[i].bb = b /\ prog[i].op \in Terminators

\* Blocks are contiguous, from their first instruction to their terminator.
LEMMA BlockFacts ==
  ASSUME WellFormed(prog)
  PROVE  /\ \A i, j, k \in DOMAIN prog :
              i <= j /\ j <= k /\ prog[i].bb = prog[k].bb => prog[j].bb = prog[i].bb
         /\ \A i, j \in DOMAIN prog :
              prog[i].bb = prog[j].bb /\ prog[i].op \in Terminators => j <= i
         /\ \A b \in Blocks : /\ EndOf(b) \in DOMAIN prog /\ prog[EndOf(b)].bb = b
                              /\ prog[EndOf(b)].op \in Terminators
         /\ \A i, j \in DOMAIN prog :
              /\ prog[i].op \in Terminators /\ prog[j].op \in Terminators
              /\ prog[i].bb = prog[j].bb
              => i = j
         /\ \A b \in Blocks, j \in DOMAIN prog : prog[j].bb = b => FirstOf(b) <= j
<1>1. /\ DOMAIN prog = 1 .. Len(prog) /\ Len(prog) \in Nat
      /\ \A i \in DOMAIN prog : prog[i].bb \in Nat
  BY ProgramFacts
<1>2. /\ \A i, j \in DOMAIN prog : i <= j => prog[i].bb <= prog[j].bb
      /\ \A i \in DOMAIN prog :
           prog[i].op \in Terminators <=> i = Len(prog) \/ prog[i + 1].bb # prog[i].bb
  BY DEF WellFormed
<1>3. \A i, j, k \in DOMAIN prog :
        i <= j /\ j <= k /\ prog[i].bb = prog[k].bb => prog[j].bb = prog[i].bb
  <2> SUFFICES ASSUME NEW i \in DOMAIN prog, NEW j \in DOMAIN prog, NEW k \in DOMAIN prog,
                      i <= j, j <= k, prog[i].bb = prog[k].bb
               PROVE  prog[j].bb = prog[i].bb
    OBVIOUS
  <2>1. prog[i].bb <= prog[j].bb /\ prog[j].bb <= prog[k].bb
    BY <1>2
  <2> QED BY <2>1, <1>1
<1>4. \A i, j \in DOMAIN prog :
        prog[i].bb = prog[j].bb /\ prog[i].op \in Terminators => j <= i
  <2> SUFFICES ASSUME NEW i \in DOMAIN prog, NEW j \in DOMAIN prog,
                      prog[i].bb = prog[j].bb, prog[i].op \in Terminators, i < j
               PROVE  FALSE
    BY <1>1
  <2>1. i + 1 \in DOMAIN prog /\ i <= i + 1 /\ i + 1 <= j /\ i # Len(prog)
    BY <1>1
  <2>2. prog[i + 1].bb = prog[i].bb
    BY <2>1, <1>3
  <2> QED BY <2>1, <2>2, <1>2
<1>5. ASSUME NEW b \in Blocks
      PROVE  \E i \in DOMAIN prog : prog[i].bb = b /\ prog[i].op \in Terminators
  <2> DEFINE S == {n \in Nat : \E i \in DOMAIN prog : prog[i].bb = b /\ n = Len(prog) - i}
  <2>1. FirstOf(b) \in DOMAIN prog /\ prog[FirstOf(b)].bb = b
    BY ProgramFacts
  <2>2. Len(prog) - FirstOf(b) \in S
    BY <2>1, <1>1
  <2>3. PICK m \in S : \A n \in S : m <= n
    BY <2>2, LeastExists
  <2>4. PICK i \in DOMAIN prog : prog[i].bb = b /\ m = Len(prog) - i
    BY <2>3
  <2>5. ASSUME i # Len(prog), prog[i + 1].bb = b PROVE FALSE
    <3>1. i + 1 \in DOMAIN prog /\ Len(prog) - (i + 1) \in Nat
      BY <1>1, <2>5
    <3>2. Len(prog) - (i + 1) \in S
      BY <3>1, <2>5
    <3>3. m <= Len(prog) - (i + 1)
      BY <3>2, <2>3
    <3> QED BY <3>3, <2>4, <1>1
  <2> QED BY <2>4, <2>5, <1>2
<1>6. \A i, j \in DOMAIN prog :
         /\ prog[i].op \in Terminators /\ prog[j].op \in Terminators
         /\ prog[i].bb = prog[j].bb
         => i = j
  <2> SUFFICES ASSUME NEW i \in DOMAIN prog, NEW j \in DOMAIN prog, prog[i].bb = prog[j].bb,
                      prog[i].op \in Terminators, prog[j].op \in Terminators
               PROVE  i = j
    OBVIOUS
  <2>1. i <= j /\ j <= i
    BY <1>4
  <2> QED BY <2>1, <1>1
<1>7. \A b \in Blocks, j \in DOMAIN prog : prog[j].bb = b => FirstOf(b) <= j
  <2> SUFFICES ASSUME NEW b \in Blocks, NEW j \in DOMAIN prog, prog[j].bb = b
               PROVE  FirstOf(b) <= j
    OBVIOUS
  <2>1. \E i \in DOMAIN prog : prog[i].bb = b /\ \A k \in 1 .. i - 1 : prog[k].bb # b
    BY DEF WellFormed, Blocks
  <2>2. FirstOf(b) \in DOMAIN prog /\ \A k \in 1 .. FirstOf(b) - 1 : prog[k].bb # b
    BY <2>1 DEF FirstOf
  <2> QED BY <2>2, <1>1
<1> QED BY <1>3, <1>4, <1>5, <1>6, <1>7 DEF EndOf

\* Along a block, from an instruction that is reached or is s itself.
LEMMA AlongBlock ==
  ASSUME WellFormed(prog), NEW s \in DOMAIN prog, NEW a \in DOMAIN prog, NEW z \in DOMAIN prog,
         a < z, prog[a].bb = prog[z].bb, a = s \/ a \in ReachedFrom(s),
         \A t \in DOMAIN prog : a <= t /\ t < z => Passes(s, t)
  PROVE  z \in ReachedFrom(s)
<1>1. DOMAIN prog = 1 .. Len(prog) /\ Len(prog) \in Nat
  BY ProgramFacts
<1> DEFINE T == {n \in Nat : a + 1 + n <= z => a + 1 + n \in ReachedFrom(s)}
<1>2. ASSUME NEW i \in DOMAIN prog, a <= i, i < z, i = s \/ i \in ReachedFrom(s)
      PROVE  i + 1 \in ReachedFrom(s)
  <2>1. i + 1 \in DOMAIN prog /\ prog[i].bb = prog[a].bb /\ prog[i + 1].bb = prog[a].bb
    BY <1>1, <1>2, BlockFacts
  <2>2. <<i, i + 1>> \in Flow
    BY <2>1 DEF Flow
  <2>3. Passes(s, i)
    BY <1>2
  <2> QED BY <2>2, <2>3, <1>2, ReachedClosed
<1>3. 0 \in T
  BY <1>1, <1>2
<1>4. ASSUME NEW n \in Nat, n \in T PROVE n + 1 \in T
  <2> SUFFICES ASSUME a + 1 + (n + 1) <= z PROVE a + 1 + (n + 1) \in ReachedFrom(s)
    OBVIOUS
  <2>1. a + 1 + n \in ReachedFrom(s) /\ a + 1 + n \in DOMAIN prog /\ a + 1 + n < z
    BY <1>1, <1>4
  <2>2. (a + 1 + n) + 1 \in ReachedFrom(s)
    BY <2>1, <1>1, <1>2
  <2> QED BY <2>2, <1>1
<1> HIDE DEF T
<1>5. z - a - 1 \in Nat /\ a + 1 + (z - a - 1) = z
  BY <1>1
<1>6. \A n \in Nat : n \in T
  BY <1>3, <1>4, NatSetInduction
<1> QED BY <1>1, <1>5, <1>6 DEF T


\* Where the walk can come from.
LEMMA FlowFacts ==
  ASSUME WellFormed(prog), NEW e \in Flow
  PROVE  /\ e[1] \in DOMAIN prog /\ e[2] \in DOMAIN prog
         /\ \/ e[2] = e[1] + 1 /\ prog[e[2]].bb = prog[e[1]].bb
            \/ /\ prog[e[1]].op \in Terminators
               /\ e[2] = FirstOf(prog[e[2]].bb)
               /\ prog[e[1]].bb \in Preds(prog[e[2]].bb)
<1>1. /\ e[1] \in DOMAIN prog /\ e[2] \in DOMAIN prog
      /\ \/ e[2] = e[1] + 1 /\ prog[e[2]].bb = prog[e[1]].bb
         \/ /\ \E k \in DOMAIN prog[e[1]].succ : prog[e[1]].succ[k] = prog[e[2]].bb
            /\ \A h \in 1 .. e[2] - 1 : prog[h].bb # prog[e[2]].bb
  BY DEF Flow
<1>2. ASSUME \E k \in DOMAIN prog[e[1]].succ : prog[e[1]].succ[k] = prog[e[2]].bb,
             \A h \in 1 .. e[2] - 1 : prog[h].bb # prog[e[2]].bb
      PROVE  /\ prog[e[1]].op \in Terminators
             /\ e[2] = FirstOf(prog[e[2]].bb)
             /\ prog[e[1]].bb \in Preds(prog[e[2]].bb)
  <2> DEFINE b == prog[e[2]].bb
  <2>1. prog[e[1]].succ # <<>>
    BY <1>2
  <2>2. prog[e[1]].op \in Terminators
    BY <2>1, <1>1 DEF WellFormed
  <2>3. FirstOf(b) \in DOMAIN prog /\ prog[FirstOf(b)].bb = b /\ FirstOf(b) <= e[2]
    BY <1>1, ProgramFacts, BlockFacts
  <2>4. e[2] = FirstOf(b)
    BY <2>3, <1>1, <1>2, ProgramFacts
  <2>5. prog[e[1]].bb \in Blocks
    BY <1>1, ProgramFacts
  <2>6. b \in Succs(prog[e[1]].bb)
    BY <1>1, <1>2 DEF Succs
  <2> QED BY <2>2, <2>4, <2>5, <2>6 DEF Preds
<1> QED BY <1>1, <1>2

\* From the end of a block to the start of the ones after it.
LEMMA EdgeToFirst ==
  ASSUME WellFormed(prog), NEW b \in Blocks, NEW p \in Preds(b)
  PROVE  p \in Blocks /\ <<EndOf(p), FirstOf(b)>> \in Flow
<1>1. p \in Blocks /\ b \in Succs(p)
  BY DEF Preds
<1>2. PICK i \in DOMAIN prog : prog[i].bb = p /\ \E k \in DOMAIN prog[i].succ : prog[i].succ[k] = b
  BY <1>1 DEF Succs
<1>3. prog[i].op \in Terminators
  BY <1>2 DEF WellFormed
<1>4. i = EndOf(p)
  BY <1>1, <1>2, <1>3, BlockFacts
<1>5. FirstOf(b) \in DOMAIN prog /\ prog[FirstOf(b)].bb = b
  BY ProgramFacts
<1>6. \E j \in DOMAIN prog : prog[j].bb = b /\ \A h \in 1 .. j - 1 : prog[h].bb # b
  BY DEF WellFormed, Blocks
<1>7. \A h \in 1 .. FirstOf(b) - 1 : prog[h].bb # b
  BY <1>6 DEF FirstOf
<1> QED BY <1>1, <1>2, <1>4, <1>5, <1>7 DEF Flow

\* What the sets of a block are computed from stays as it is.
KeepsStores == StoreSet \subseteq present /\ \A i \in marked : Is(i, "load")

\* s reaches the first and the last instruction of a block whose sets it is in.
SetsSound ==
  \A b \in Blocks :
    /\ gen[b] = Gen(b) /\ kill[b] = Kill(b)
    /\ \A s \in out[b] : EndOf(b) \in ReachedFrom(s)
    /\ \A s \in in[b] : FirstOf(b) \in ReachedFrom(s)

\* A store of a block that no other store of its variable follows reaches its end.
LEMMA GenReaches ==
  ASSUME IInv, KeepsStores, NEW b \in Blocks, NEW s \in Gen(b)
  PROVE  EndOf(b) \in ReachedFrom(s)
<1>1. WellFormed(prog) /\ present \subseteq DOMAIN prog
  BY DEF IInv, CPTypeOK, SetsTypeOK, IRTypeOK
<1>2. /\ s \in DOMAIN prog /\ prog[s].bb = b /\ prog[s].op = "store"
      /\ \A t \in InstrsOf(b) \cap Stores : t > s => ~SameVar(s, t)
  BY <1>1 DEF Gen, InstrsOf, Stores, Is
<1>3. EndOf(b) \in DOMAIN prog /\ prog[EndOf(b)].bb = b /\ prog[EndOf(b)].op \in Terminators
  BY <1>1, BlockFacts
<1>4. s < EndOf(b)
  <2>1. s <= EndOf(b) /\ s # EndOf(b)
    BY <1>1, <1>2, <1>3, BlockFacts DEF Terminators
  <2> QED BY <2>1, <1>1, <1>2, <1>3, ProgramFacts
<1>5. ASSUME NEW t \in DOMAIN prog, s <= t, t < EndOf(b) PROVE Passes(s, t)
  <2> SUFFICES ASSUME t # s, Is(t, "store") PROVE ~SameVar(s, t)
    BY DEF Passes
  <2>1. t \in InstrsOf(b) \cap Stores
    <3>1. prog[t].bb = b
      <4>1. t <= EndOf(b)
        BY <1>1, <1>3, <1>5, ProgramFacts
      <4> QED BY <4>1, <1>1, <1>2, <1>3, <1>5, BlockFacts
    <3>2. t \in StoreSet
      BY DEF StoreSet, Is
    <3> QED BY <3>1, <3>2 DEF KeepsStores, InstrsOf, Stores
  <2>2. t > s
    BY <1>1, <1>2, <1>5, ProgramFacts
  <2> QED BY <2>1, <2>2, <1>2
<1> QED BY <1>1, <1>2, <1>3, <1>4, <1>5, AlongBlock

\* What reaches the start of a block and is not killed in it reaches its end.
LEMMA SurvivorReaches ==
  ASSUME IInv, KeepsStores, NEW b \in Blocks, NEW s \in StoreSet,
         FirstOf(b) \in ReachedFrom(s), s \notin Kill(b)
  PROVE  EndOf(b) \in ReachedFrom(s)
<1>1. WellFormed(prog)
  BY DEF IInv, CPTypeOK, SetsTypeOK, IRTypeOK
<1>2. EndOf(b) \in DOMAIN prog /\ prog[EndOf(b)].bb = b /\ prog[EndOf(b)].op \in Terminators
  BY <1>1, BlockFacts
<1>3. FirstOf(b) \in DOMAIN prog /\ prog[FirstOf(b)].bb = b /\ FirstOf(b) <= EndOf(b)
  BY <1>1, <1>2, ProgramFacts, BlockFacts
<1>4. ASSUME NEW t \in DOMAIN prog, FirstOf(b) <= t, t < EndOf(b) PROVE Passes(s, t)
  <2> SUFFICES ASSUME t # s, Is(t, "store") PROVE ~SameVar(s, t)
    BY DEF Passes
  <2>1. t \in InstrsOf(b) \cap Stores /\ s \in Stores
    <3>1. prog[t].bb = b
      <4>1. t <= EndOf(b)
        BY <1>1, <1>2, <1>4, ProgramFacts
      <4> QED BY <4>1, <1>1, <1>2, <1>3, <1>4, BlockFacts
    <3>2. t \in StoreSet
      BY DEF StoreSet, Is
    <3> QED BY <3>1, <3>2 DEF KeepsStores, InstrsOf, Stores, StoreSet, Is
  <2> QED BY <2>1 DEF Kill
<1>5. s \in DOMAIN prog
  BY DEF StoreSet
<1>6. CASE FirstOf(b) = EndOf(b)
  BY <1>6
<1>7. CASE FirstOf(b) # EndOf(b)
  <2>1. FirstOf(b) < EndOf(b)
    BY <1>1, <1>2, <1>3, <1>7, ProgramFacts
  <2> QED BY <2>1, <1>1, <1>2, <1>3, <1>4, <1>5, AlongBlock
<1> QED BY <1>6, <1>7


\* What reaches the start of a block is in its set: the walk cannot leave the sets that
\* solve the equations.
LEMMA SetsComplete ==
  ASSUME IInv, KeepsStores, SetsSound, \A b \in Blocks : EquationsOf(b),
         NEW b \in Blocks, NEW s \in StoreSet, FirstOf(b) \in ReachedFrom(s)
  PROVE  s \in in[b]
<1>1. WellFormed(prog) /\ s \in DOMAIN prog /\ DOMAIN prog = 1 .. Len(prog) /\ Len(prog) \in Nat
  BY ProgramFacts DEF IInv, CPTypeOK, SetsTypeOK, IRTypeOK, StoreSet
<1> DEFINE FromEntry(i) ==
      /\ s \in in[prog[i].bb]
      /\ \A t \in DOMAIN prog : t < i /\ prog[t].bb = prog[i].bb => Passes(s, t)
<1> DEFINE FromStore(i) ==
      /\ s < i /\ prog[s].bb = prog[i].bb
      /\ \A t \in DOMAIN prog : s < t /\ t < i => Passes(s, t)
<1> DEFINE T == {i \in DOMAIN prog : FromEntry(i) \/ FromStore(i)}
<1>2. ASSUME NEW e \in Flow, e[1] = s \/ (e[1] \in T /\ Passes(s, e[1]))
      PROVE  e[2] \in T
  <2>1. e[1] \in DOMAIN prog /\ e[2] \in DOMAIN prog
    BY <1>1, FlowFacts
  <2>2. CASE e[2] = e[1] + 1 /\ prog[e[2]].bb = prog[e[1]].bb
    <3>1. \A t \in DOMAIN prog : t < e[2] => t < e[1] \/ t = e[1]
      BY <1>1, <2>1, <2>2
    <3>2. CASE e[1] = s
      <4>1. FromStore(e[2])
        BY <1>1, <2>1, <2>2, <3>2
      <4> QED BY <4>1, <2>1
    <3>3. CASE e[1] \in T /\ Passes(s, e[1]) /\ FromEntry(e[1])
      <4>1. FromEntry(e[2])
        BY <2>1, <2>2, <3>1, <3>3
      <4> QED BY <4>1, <2>1
    <3>4. CASE e[1] \in T /\ Passes(s, e[1]) /\ FromStore(e[1])
      <4>1. FromStore(e[2])
        BY <1>1, <2>1, <2>2, <3>1, <3>4
      <4> QED BY <4>1, <2>1
    <3> QED BY <1>2, <3>2, <3>3, <3>4
  <2>3. CASE /\ prog[e[1]].op \in Terminators
             /\ e[2] = FirstOf(prog[e[2]].bb)
             /\ prog[e[1]].bb \in Preds(prog[e[2]].bb)
    <3> DEFINE p == prog[e[1]].bb
    <3>1. e[1] # s /\ prog[s].op = "store"
      BY <2>3 DEF StoreSet, Terminators
    <3>2. e[1] \in T
      BY <1>2, <3>1
    <3>3. p \in Blocks /\ prog[e[2]].bb \in Blocks
      BY <1>1, <2>1, ProgramFacts
    <3>4. \A t \in DOMAIN prog : prog[t].bb = p => t <= e[1]
      BY <1>1, <2>1, <2>3, BlockFacts
    <3>5. \A t \in DOMAIN prog : prog[t].bb = p /\ Is(t, "store") => t < e[1]
      <4> SUFFICES ASSUME NEW t \in DOMAIN prog, prog[t].bb = p, Is(t, "store") PROVE t < e[1]
        OBVIOUS
      <4>1. t # e[1] /\ t <= e[1]
        BY <2>3, <3>4 DEF Is, Terminators
      <4> QED BY <4>1, <1>1, <2>1
    <3>6. s \in Transfer(p, in[p])
      <4>1. gen[p] = Gen(p) /\ kill[p] = Kill(p)
        BY <3>3 DEF SetsSound
      <4>2. \A t \in InstrsOf(p) \cap Stores :
              t \in DOMAIN prog /\ prog[t].bb = p /\ Is(t, "store")
        BY DEF InstrsOf, Stores, IInv, CPTypeOK, SetsTypeOK, IRTypeOK
      <4>3. CASE FromEntry(e[1])
        <5>1. s \notin Kill(p)
          <6> SUFFICES ASSUME NEW t \in InstrsOf(p) \cap Stores, t # s, SameVar(s, t)
                       PROVE  FALSE
            BY DEF Kill
          <6>1. t \in DOMAIN prog /\ t < e[1] /\ prog[t].bb = p /\ Is(t, "store")
            BY <4>2, <3>5
          <6> QED BY <6>1, <4>3 DEF Passes
        <5> QED BY <5>1, <4>1, <4>3 DEF Transfer
      <4>4. CASE FromStore(e[1])
        <5>1. s \in InstrsOf(p) \cap Stores
          BY <4>4, <3>1 DEF KeepsStores, InstrsOf, Stores, Is
        <5>2. \A t \in InstrsOf(p) \cap Stores : t > s => ~SameVar(s, t)
          <6> SUFFICES ASSUME NEW t \in InstrsOf(p) \cap Stores, t > s PROVE ~SameVar(s, t)
            OBVIOUS
          <6>1. t \in DOMAIN prog /\ t < e[1] /\ Is(t, "store") /\ s < t /\ t # s
            BY <4>2, <3>5, <1>1
          <6> QED BY <6>1, <4>4 DEF Passes
        <5> QED BY <5>1, <5>2, <4>1 DEF Transfer, Gen
      <4> QED BY <3>2, <4>3, <4>4
    <3>7. s \in out[p]
      BY <3>3, <3>6 DEF EquationsOf
    <3>8. s \in in[prog[e[2]].bb]
      BY <2>3, <3>3, <3>7 DEF EquationsOf, JoinIn
    <3>9. \A t \in DOMAIN prog : ~(t < e[2] /\ prog[t].bb = prog[e[2]].bb)
      <4> SUFFICES ASSUME NEW t \in DOMAIN prog, t < e[2], prog[t].bb = prog[e[2]].bb
                   PROVE  FALSE
        OBVIOUS
      <4>1. FirstOf(prog[e[2]].bb) <= t
        BY <1>1, <3>3, BlockFacts
      <4> QED BY <4>1, <1>1, <2>1, <2>3
    <3> QED BY <2>1, <3>8, <3>9
  <2> QED BY <1>1, <2>2, <2>3, FlowFacts
<1> HIDE DEF T
<1>3. FirstOf(b) \in T
  BY <1>1, <1>2, ReachedLeast
<1>4. FirstOf(b) \in DOMAIN prog /\ prog[FirstOf(b)].bb = b
  BY <1>1, ProgramFacts
<1>5. ~(s < FirstOf(b) /\ prog[s].bb = b)
  <2> SUFFICES ASSUME s < FirstOf(b), prog[s].bb = b PROVE FALSE
    OBVIOUS
  <2>1. FirstOf(b) <= s
    BY <1>1, BlockFacts
  <2> QED BY <2>1, <1>1, <1>4
<1> QED BY <1>3, <1>4, <1>5 DEF T

\* One instruction on in the block, exactly what the sweep does to r.
LEMMA StepReaches ==
  ASSUME IInv, NEW s \in StoreSet, NEW i \in DOMAIN prog, i + 1 \in DOMAIN prog,
         prog[i + 1].bb = prog[i].bb
  PROVE  i + 1 \in ReachedFrom(s) <=> i = s \/ (i \in ReachedFrom(s) /\ Passes(s, i))
<1>1. WellFormed(prog) /\ s \in DOMAIN prog /\ DOMAIN prog = 1 .. Len(prog) /\ Len(prog) \in Nat
  BY ProgramFacts DEF IInv, CPTypeOK, SetsTypeOK, IRTypeOK, StoreSet
<1>2. ASSUME i = s \/ (i \in ReachedFrom(s) /\ Passes(s, i)) PROVE i + 1 \in ReachedFrom(s)
  <2>1. <<i, i + 1>> \in Flow
    BY DEF Flow
  <2> QED BY <2>1, <1>1, <1>2, ReachedClosed
<1>3. ASSUME ~(i = s \/ (i \in ReachedFrom(s) /\ Passes(s, i))) PROVE i + 1 \notin ReachedFrom(s)
  <2> DEFINE T == ReachedFrom(s) \ {i + 1}
  <2>1. ASSUME NEW e \in Flow, e[1] = s \/ (e[1] \in T /\ Passes(s, e[1])), e[2] = i + 1
        PROVE  FALSE
    <3>1. e[1] # i
      BY <2>1, <1>3
    <3>2. CASE e[2] = e[1] + 1
      BY <3>1, <3>2, <2>1, <1>1, FlowFacts
    <3>3. CASE e[2] = FirstOf(prog[e[2]].bb)
      <4>1. prog[i].bb \in Blocks
        BY <1>1, ProgramFacts
      <4>2. FirstOf(prog[i].bb) <= i
        BY <4>1, <1>1, BlockFacts
      <4> QED BY <4>2, <2>1, <3>3, <1>1
    <3> QED BY <3>2, <3>3, <1>1, FlowFacts
  <2>2. ASSUME NEW e \in Flow, e[1] = s \/ (e[1] \in T /\ Passes(s, e[1]))
        PROVE  e[2] \in T
    BY <2>1, <2>2, <1>1, ReachedClosed
  <2> HIDE DEF T
  <2>3. ReachedFrom(s) \subseteq T
    BY <2>2, <1>1, ReachedLeast
  <2> QED BY <2>3 DEF T
<1> QED BY <1>2, <1>3


-----------------------------------------------------------------------------

\* r is what reaches the instruction that the sweep is at.
SweepExact == phase = "sweep" => r = {s \in StoreSet : pc \in ReachedFrom(s)}

ReachIInv ==
  /\ IInv
  /\ KeepsStores
  /\ phase \in {"flow", "enter", "sweep"} => SetsSound
  /\ SweepExact

\* All of this is about the function as built.
LEMMA SameProgram ==
  ASSUME prog' = prog
  PROVE  /\ Blocks' = Blocks /\ StoreSet' = StoreSet
         /\ \A b : EndOf(b)' = EndOf(b) /\ FirstOf(b)' = FirstOf(b)
         /\ \A s : ReachedFrom(s)' = ReachedFrom(s)
<1>1. Flow' = Flow
  BY DEF Flow
<1>2. ASSUME NEW s PROVE ReachedFrom(s)' = ReachedFrom(s)
  BY <1>1, SMT DEF ReachedFrom, Onward, Passes, Is, SameVar
<1>3. \A b : EndOf(b)' = EndOf(b) /\ FirstOf(b)' = FirstOf(b)
  BY DEF EndOf, FirstOf
<1> QED BY <1>2, <1>3 DEF Blocks, StoreSet

\* As long as no store is erased, gen and kill are what they were computed to be.
LEMMA SameStores ==
  ASSUME prog' = prog, KeepsStores, StoreSet \subseteq present',
         present \subseteq DOMAIN prog, present' \subseteq DOMAIN prog
  PROVE  \A b : Gen(b)' = Gen(b) /\ Kill(b)' = Kill(b)
<1>1. Stores' = Stores /\ Stores = StoreSet
  BY DEF KeepsStores, Stores, StoreSet, Is
<1>2. \A b : InstrsOf(b)' \cap Stores' = InstrsOf(b) \cap Stores
  BY <1>1 DEF KeepsStores, InstrsOf
<1> QED BY <1>1, <1>2 DEF Gen, Kill, SameVar

\* A step that leaves the sets alone.
LEMMA SetsStay ==
  ASSUME prog' = prog, KeepsStores, StoreSet \subseteq present', UNCHANGED dataflow,
         present \subseteq DOMAIN prog, present' \subseteq DOMAIN prog, SetsSound
  PROVE  SetsSound'
BY SameProgram, SameStores DEF SetsSound, dataflow

\* Nothing is claimed of the sets before the loop.
LEMMA InitReach == CPInit => ReachIInv
<1> SUFFICES ASSUME CPInit PROVE ReachIInv
  OBVIOUS
<1>1. KeepsStores
  BY DEF CPInit, IRInit, KeepsStores, StoreSet
<1> QED BY <1>1, InitIInv DEF ReachIInv, SweepExact, CPInit

\* ReachIInv depends on the variables only.
LEMMA StutterReach == ReachIInv /\ UNCHANGED vars => ReachIInv'
<1> SUFFICES ASSUME ReachIInv, UNCHANGED vars PROVE ReachIInv'
  OBVIOUS
<1>1. UNCHANGED <<prog, args, present, phase, gen, kill, in, out, bb, pc, r, marked>>
  BY DEF vars, cpvars
<1>2. present \subseteq DOMAIN prog
  BY DEF ReachIInv, IInv, CPTypeOK, SetsTypeOK, IRTypeOK
<1>3. KeepsStores'
  BY <1>1, SameProgram DEF ReachIInv, KeepsStores, Is
<1>4. phase' \in {"flow", "enter", "sweep"} => SetsSound'
  BY <1>1, <1>2, SetsStay DEF ReachIInv, dataflow, KeepsStores
<1>5. SweepExact'
  BY <1>1, SameProgram DEF ReachIInv, SweepExact
<1> QED BY <1>3, <1>4, <1>5, StutterIInv DEF ReachIInv

\* The gen sets reach the ends of their blocks.
LEMMA StartReach == ReachIInv /\ CPStart => ReachIInv'
<1> SUFFICES ASSUME ReachIInv, CPStart PROVE ReachIInv'
  OBVIOUS
<1>1. /\ UNCHANGED <<prog, present, marked>> /\ phase' = "flow"
      /\ gen' = [b \in Blocks |-> Gen(b)] /\ kill' = [b \in Blocks |-> Kill(b)]
      /\ out' = [b \in Blocks |-> Gen(b)] /\ in' = [b \in Blocks |-> {}]
  BY DEF CPStart, irvars
<1>2. present \subseteq DOMAIN prog /\ KeepsStores
  BY DEF ReachIInv, IInv, CPTypeOK, SetsTypeOK, IRTypeOK
<1>3. KeepsStores'
  BY <1>1, <1>2, SameProgram DEF KeepsStores, Is
<1>4. \A b \in Blocks : Gen(b)' = Gen(b) /\ Kill(b)' = Kill(b)
  BY <1>1, <1>2, SameStores DEF KeepsStores
<1>5. \A b \in Blocks : \A s \in Gen(b) : EndOf(b) \in ReachedFrom(s)
  BY GenReaches DEF ReachIInv
<1>6. SetsSound'
  BY <1>1, <1>4, <1>5, SameProgram DEF SetsSound
<1> QED BY <1>1, <1>3, <1>6, StartIInv DEF ReachIInv, SweepExact

\* What a block's sets are recomputed from reaches its ends as well.
LEMMA FlowReach == ReachIInv /\ FlowBlock => ReachIInv'
<1> SUFFICES ASSUME ReachIInv, FlowBlock PROVE ReachIInv'
  OBVIOUS
<1>1. /\ UNCHANGED <<prog, present, marked, gen, kill>> /\ phase = "flow" /\ bb \in Blocks
      /\ phase' \in {"flow", "enter"}
      /\ in' = [in EXCEPT ![bb] = JoinIn(bb)]
      /\ out' = [out EXCEPT ![bb] = Transfer(bb, JoinIn(bb))]
  BY DEF FlowBlock, ReachIInv, IInv, CPTypeOK, SetsTypeOK, irvars, sweep
<1>2. present \subseteq DOMAIN prog /\ KeepsStores /\ WellFormed(prog) /\ IInv
  BY DEF ReachIInv, IInv, CPTypeOK, SetsTypeOK, IRTypeOK
<1>3. SetsSound
  BY <1>1 DEF ReachIInv
<1>4. KeepsStores'
  BY <1>1, <1>2, SameProgram DEF KeepsStores, Is
<1>5. \A b \in Blocks : Gen(b)' = Gen(b) /\ Kill(b)' = Kill(b)
  BY <1>1, <1>2, SameStores DEF KeepsStores
<1>6. in \in [Blocks -> SUBSET StoreSet] /\ out \in [Blocks -> SUBSET StoreSet]
  BY <1>2 DEF IInv, ShapeOK
<1>7. \A s \in JoinIn(bb) : s \in StoreSet /\ FirstOf(bb) \in ReachedFrom(s)
  <2> SUFFICES ASSUME NEW p \in Preds(bb), NEW s \in out[p]
               PROVE  s \in StoreSet /\ FirstOf(bb) \in ReachedFrom(s)
    BY DEF JoinIn
  <2>1. p \in Blocks /\ <<EndOf(p), FirstOf(bb)>> \in Flow
    BY <1>1, <1>2, EdgeToFirst
  <2>2. s \in StoreSet /\ EndOf(p) \in ReachedFrom(s)
    BY <1>3, <1>6, <2>1 DEF SetsSound
  <2>3. Passes(s, EndOf(p))
    BY <1>2, <2>1, BlockFacts DEF Passes, Is, Terminators
  <2> QED BY <2>1, <2>2, <2>3, <1>2, ReachedClosed
<1>8. \A s \in Transfer(bb, JoinIn(bb)) : EndOf(bb) \in ReachedFrom(s)
  <2>1. gen[bb] = Gen(bb) /\ kill[bb] = Kill(bb)
    BY <1>1, <1>3 DEF SetsSound
  <2>2. \A s \in Gen(bb) : EndOf(bb) \in ReachedFrom(s)
    BY <1>1, <1>2, GenReaches
  <2>3. \A s \in JoinIn(bb) \ Kill(bb) : EndOf(bb) \in ReachedFrom(s)
    BY <1>1, <1>2, <1>7, SurvivorReaches
  <2> QED BY <2>1, <2>2, <2>3 DEF Transfer
<1>9. SetsSound'
  <2> SUFFICES ASSUME NEW b \in Blocks
               PROVE  /\ gen'[b] = Gen(b)' /\ kill'[b] = Kill(b)'
                      /\ \A s \in out'[b] : EndOf(b) \in ReachedFrom(s)
                      /\ \A s \in in'[b] : FirstOf(b) \in ReachedFrom(s)
    BY <1>1, SameProgram DEF SetsSound
  <2>1. gen'[b] = Gen(b)' /\ kill'[b] = Kill(b)'
    BY <1>1, <1>3, <1>5 DEF SetsSound
  <2>2. CASE b = bb
    BY <2>1, <2>2, <1>1, <1>6, <1>7, <1>8
  <2>3. CASE b # bb
    BY <2>1, <2>3, <1>1, <1>3, <1>6 DEF SetsSound
  <2> QED BY <2>2, <2>3
<1> QED BY <1>1, <1>2, <1>4, <1>9, FlowIInv DEF ReachIInv, SweepExact

\* The in set of a block is what reaches its first instruction.
LEMMA EnterReach == ReachIInv /\ EnterSweep => ReachIInv'
<1> SUFFICES ASSUME ReachIInv, EnterSweep PROVE ReachIInv'
  OBVIOUS
<1>1. /\ UNCHANGED <<prog, present, dataflow>> /\ phase = "enter" /\ phase' = "sweep"
      /\ pc' = FirstOf(bb) /\ r' = in[bb] /\ marked' = {} /\ bb \in Blocks
  BY DEF EnterSweep, ReachIInv, IInv, CPTypeOK, SetsTypeOK, irvars
<1>2. present \subseteq DOMAIN prog /\ KeepsStores /\ IInv /\ SetsSound
  BY <1>1 DEF ReachIInv, IInv, CPTypeOK, SetsTypeOK, IRTypeOK
<1>3. KeepsStores'
  BY <1>1, <1>2, SameProgram DEF KeepsStores
<1>4. SetsSound'
  BY <1>1, <1>2, SetsStay DEF KeepsStores
<1>5. \A b \in Blocks : EquationsOf(b)
  BY <1>1, <1>2 DEF IInv, Solved, EquationsOf
<1>6. in[bb] = {s \in StoreSet : FirstOf(bb) \in ReachedFrom(s)}
  <2>1. in[bb] \in SUBSET StoreSet
    BY <1>1, <1>2 DEF IInv, ShapeOK
  <2>2. \A s \in in[bb] : FirstOf(bb) \in ReachedFrom(s)
    BY <1>1, <1>2 DEF SetsSound
  <2>3. \A s \in StoreSet : FirstOf(bb) \in ReachedFrom(s) => s \in in[bb]
    BY <1>1, <1>2, <1>5, SetsComplete
  <2> QED BY <2>1, <2>2, <2>3
<1>7. SweepExact'
  BY <1>1, <1>6, SameProgram DEF SweepExact
<1> QED BY <1>2, <1>3, <1>4, <1>7, EnterIInv DEF ReachIInv

\* A step of the sweep takes r to what reaches the next instruction.
LEMMA SweepReach ==
  ASSUME ReachIInv, IInv', phase = "sweep", NEW loads \in SUBSET DOMAIN prog, Advance(loads),
         \A i \in loads : Is(i, "load"), UNCHANGED <<prog, dataflow>>,
         r' = IF Is(pc, "store") THEN {s \in r : ~SameVar(s, pc)} \cup {pc} ELSE r
  PROVE  ReachIInv'
<1>1. /\ present \subseteq DOMAIN prog /\ KeepsStores /\ IInv /\ SetsSound /\ WellFormed(prog)
      /\ pc \in DOMAIN prog /\ prog[pc].bb = bb
  BY DEF ReachIInv, IInv, CPTypeOK, SetsTypeOK, IRTypeOK, ShapeOK
<1>2. /\ StoreSet \subseteq present' /\ present' \subseteq DOMAIN prog
      /\ \A i \in marked' : Is(i, "load")
  BY <1>1 DEF Advance, KeepsStores, StoreSet, Is
<1>3. KeepsStores'
  BY <1>2, SameProgram DEF KeepsStores, Is
<1>4. SetsSound'
  BY <1>1, <1>2, SetsStay
<1>5. SweepExact'
  <2> SUFFICES ASSUME phase' = "sweep"
               PROVE  r' = {s \in StoreSet : pc' \in ReachedFrom(s)}
    BY SameProgram DEF SweepExact
  <2>1. pc' = pc + 1 /\ pc + 1 \in DOMAIN prog /\ prog[pc + 1].bb = prog[pc].bb
    BY <1>1 DEF Advance
  <2>2. r = {s \in StoreSet : pc \in ReachedFrom(s)}
    BY DEF ReachIInv, SweepExact
  <2>3. \A s \in StoreSet :
          pc + 1 \in ReachedFrom(s) <=> pc = s \/ (pc \in ReachedFrom(s) /\ Passes(s, pc))
    BY <1>1, <2>1, StepReaches
  <2>4. CASE Is(pc, "store")
    BY <1>1, <2>1, <2>2, <2>3, <2>4 DEF Passes, StoreSet, Is
  <2>5. CASE ~Is(pc, "store")
    BY <1>1, <2>1, <2>2, <2>3, <2>5 DEF Passes, StoreSet, Is
  <2> QED BY <2>4, <2>5
<1> QED BY <1>3, <1>4, <1>5 DEF ReachIInv

\* Whatever the sweep does with the instruction.
LEMMA SweepStepReach ==
  ReachIInv /\ (SweepStore \/ ReplaceLoad \/ KeepLoad \/ SweepOther) => ReachIInv'
<1> SUFFICES ASSUME ReachIInv, SweepStore \/ ReplaceLoad \/ KeepLoad \/ SweepOther
             PROVE  ReachIInv'
  OBVIOUS
<1>1. IInv'
  BY KeepIInv, ReplaceIInv DEF ReachIInv
<1>2. /\ marked \in SUBSET DOMAIN prog /\ pc \in DOMAIN prog
      /\ \A i \in marked : Is(i, "load")
  BY DEF ReachIInv, IInv, CPTypeOK, SetsTypeOK, KeepsStores
<1>3. CASE SweepStore
  BY <1>1, <1>2, <1>3, SweepReach DEF SweepStore, Sweeping
<1>4. CASE ReplaceLoad
  <2>1. marked \cup {pc} \in SUBSET DOMAIN prog /\ \A i \in marked \cup {pc} : Is(i, "load")
    BY <1>2, <1>4 DEF ReplaceLoad, Sweeping
  <2>2. ~Is(pc, "store")
    BY <1>4 DEF ReplaceLoad, Sweeping, Is
  <2> QED BY <1>1, <1>4, <2>1, <2>2, SweepReach DEF ReplaceLoad, Sweeping
<1>5. CASE KeepLoad
  <2>1. ~Is(pc, "store")
    BY <1>5 DEF KeepLoad, Sweeping, Is
  <2> QED BY <1>1, <1>2, <1>5, <2>1, SweepReach DEF KeepLoad, Sweeping
<1>6. CASE SweepOther
  <2>1. ~Is(pc, "store")
    BY <1>2, <1>6 DEF SweepOther, Sweeping, ReachIInv, KeepsStores, StoreSet, Is
  <2> QED BY <1>1, <1>2, <1>6, <2>1, SweepReach DEF SweepOther
<1> QED BY <1>3, <1>4, <1>5, <1>6

\* ReachIInv is inductive.
THEOREM ReachInductive == CPSpec => []ReachIInv
<1>1. ReachIInv /\ [CPNext]_vars => ReachIInv'
  BY StutterReach, StartReach, FlowReach, EnterReach, SweepStepReach
     DEF CPNext, Propagate, Finished
<1> QED BY InitReach, <1>1, PTL DEF CPSpec

(***************************************************************************)
(* At a load, the stores that the sweep (optimizer.cpp:260-312) considers  *)
(* are exactly those from which the load is reached without another store  *)
(* to the variable, whatever loops the function has.                       *)
(***************************************************************************)
THEOREM ReachingExactTheorem == CPSpec => []ReachingExact
<1>1. ReachIInv => ReachingExact
  <2> SUFFICES ASSUME ReachIInv, Sweeping("load")
               PROVE  Writes = {s \in Stores : SameVar(s, pc) /\ pc \in ReachedFrom(s)}
    BY DEF ReachingExact
  <2>1. Stores = StoreSet
    BY DEF ReachIInv, KeepsStores, Stores, StoreSet, Is, IInv, CPTypeOK, SetsTypeOK, IRTypeOK
  <2> QED BY <2>1 DEF ReachIInv, SweepExact, Sweeping, Writes
<1> QED BY ReachInductive, <1>1, PTL
=============================================================================
