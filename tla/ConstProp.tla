------------------------------ MODULE ConstProp ------------------------------
(***************************************************************************)
(* doConstantPropagation (src/src/optimizer.cpp:142-313): constants by     *)
(* reaching definitions, with gen and kill sets and a round-robin fixpoint,*)
(* then a sweep that replaces the loads all of whose reaching stores store *)
(* the same constant.                                                      *)
(***************************************************************************)
EXTENDS IRProgram

VARIABLES
  phase,     \* "start", "flow", "enter", "sweep", "done"
  gen,       \* gen[b]: the last store of block b to each variable
  kill,      \* kill[b]: the stores to a variable that b stores to
  in, out,   \* in[b], out[b]: the stores that reach the start, the end of b
  changed,   \* did this round of the fixpoint change some out[b]
  bb,        \* the block being processed
  pc,        \* the instruction the sweep is at
  r,         \* the stores that reach pc
  marked,    \* the loads of the block to erase
  replaces   \* how many loads have been replaced

dataflow == <<gen, kill, in, out>>
sweep == <<pc, r, marked, replaces>>
cpvars == <<phase, gen, kill, in, out, changed, bb, pc, r, marked, replaces>>
vars == <<prog, args, present, cpvars>>

-----------------------------------------------------------------------------

Stores == {i \in present : Is(i, "store")}

SameVar(s, t) == prog[s].sym = prog[t].sym

\* A store of b that no later store of b overwrites.
Gen(b) ==
  {s \in InstrsOf(b) \cap Stores :
     \A t \in InstrsOf(b) \cap Stores : t > s => ~SameVar(s, t)}

\* Every other store, of b or not, to a variable that b stores to.
Kill(b) == {s \in Stores : \E t \in InstrsOf(b) \cap Stores : t # s /\ SameVar(s, t)}

Preds(b) == {p \in Blocks : b \in Succs(p)}

\* Faulty variant: only what reaches along every edge.
MeetIn(b) ==
  {s \in UNION {out[p] : p \in Preds(b)} : \A p \in Preds(b) : s \in out[p]}

JoinIn(b) == UNION {out[p] : p \in Preds(b)}

Transfer(b, reaching) == gen[b] \cup (reaching \ kill[b])

-----------------------------------------------------------------------------

CPStart ==
  /\ phase = "start"
  /\ gen' = [b \in Blocks |-> Gen(b)]
  /\ kill' = [b \in Blocks |-> Kill(b)]
  /\ out' = [b \in Blocks |-> Gen(b)]
  /\ in' = [b \in Blocks |-> {}]
  /\ changed' = FALSE
  /\ bb' = 1
  /\ replaces' = 0
  /\ phase' = "flow"
  /\ UNCHANGED <<irvars, pc, r, marked>>

\* Faulty variant: one block too far.
LastBlockLate == bb > prog[Len(prog)].bb

LastBlock == bb = prog[Len(prog)].bb

Moves(b) == out[b] # Transfer(b, JoinIn(b))

\* Faulty variant: only the last block of the round counts.
SomeMovedLast == Moves(bb)

\* Faulty variant: the old set is taken after it has been reset to gen.
SomeMovedFromGen == changed \/ gen[bb] # Transfer(bb, JoinIn(bb))

\* Has some out set changed in this round, the current block's included?
SomeMoved == changed \/ Moves(bb)

\* The block's sets are recomputed; a round that changed nothing is the last.
FlowBlock ==
  /\ phase = "flow"
  /\ in' = [in EXCEPT ![bb] = JoinIn(bb)]
  /\ out' = [out EXCEPT ![bb] = Transfer(bb, JoinIn(bb))]
  /\ IF ~LastBlock THEN bb' = bb + 1 /\ changed' = SomeMoved /\ UNCHANGED phase
     ELSE /\ bb' = 1
          /\ changed' = FALSE
          /\ phase' = IF SomeMoved THEN "flow" ELSE "enter"
  /\ UNCHANGED <<irvars, gen, kill, sweep>>

EnterSweep ==
  /\ phase = "enter"
  /\ phase' = "sweep"
  /\ pc' = FirstOf(bb)
  /\ r' = in[bb]
  /\ marked' = {}
  /\ UNCHANGED <<irvars, dataflow, changed, bb, replaces>>

\* The next instruction of the block; at its end the marked loads are erased.
Advance(loads) ==
  IF pc + 1 \in DOMAIN prog /\ prog[pc + 1].bb = bb
    THEN /\ pc' = pc + 1
         /\ marked' = loads
         /\ UNCHANGED <<phase, bb, present>>
    ELSE /\ present' = present \ loads
         /\ marked' = {}
         /\ phase' = IF LastBlock THEN "done" ELSE "enter"
         /\ bb' = IF LastBlock THEN bb ELSE bb + 1
         /\ UNCHANGED pc

Sweeping(op) == phase = "sweep" /\ pc \in present /\ Is(pc, op)

SweepStore ==
  /\ Sweeping("store")
  /\ r' = {s \in r : ~SameVar(s, pc)} \cup {pc}
  /\ Advance(marked)
  /\ UNCHANGED <<prog, args, dataflow, changed, replaces>>

\* The stores that may have written what the load at pc reads.
Writes == {s \in r : SameVar(s, pc)}

\* All of them store the constant c.
AllStore(c) ==
  /\ Writes # {}
  /\ IsConstant(c)
  /\ \A s \in Writes : args[s][1] = c

Stored == {args[s][1] : s \in Writes}

ReplaceLoad ==
  /\ Sweeping("load")
  /\ \E c \in Stored :
       /\ AllStore(c)
       /\ args' = Replaced(args, pc, c)
  /\ replaces' = replaces + 1
  /\ Advance(marked \cup {pc})
  /\ UNCHANGED <<prog, dataflow, changed, r>>

KeepLoad ==
  /\ Sweeping("load")
  /\ \A c \in Stored : ~AllStore(c)
  /\ Advance(marked)
  /\ UNCHANGED <<prog, args, dataflow, changed, r, replaces>>

SweepOther ==
  /\ phase = "sweep"
  /\ ~Sweeping("store") /\ ~Sweeping("load")
  /\ Advance(marked)
  /\ UNCHANGED <<prog, args, dataflow, changed, r, replaces>>

Propagate == CPStart \/ FlowBlock \/ EnterSweep \/ SweepStore \/ ReplaceLoad \/ KeepLoad \/ SweepOther

CPInit ==
  /\ IRInit
  /\ phase = "start"
  /\ gen = [b \in Blocks |-> {}] /\ kill = gen /\ in = gen /\ out = gen
  /\ changed = FALSE
  /\ bb = 1 /\ pc = 1 /\ r = {} /\ marked = {} /\ replaces = 0

Finished == phase = "done" /\ UNCHANGED vars

CPNext == Propagate \/ Finished

CPSpec == CPInit /\ [][CPNext]_vars

\* The compiler is never kept from running on.
FairCPSpec == CPSpec /\ WF_vars(Propagate)

-----------------------------------------------------------------------------

SetsTypeOK ==
  /\ gen \in [Blocks -> SUBSET DOMAIN prog]
  /\ kill \in [Blocks -> SUBSET DOMAIN prog]
  /\ in \in [Blocks -> SUBSET DOMAIN prog]
  /\ out \in [Blocks -> SUBSET DOMAIN prog]
  /\ changed \in BOOLEAN
  /\ bb \in Blocks
  /\ pc \in DOMAIN prog
  /\ r \subseteq DOMAIN prog
  /\ marked \subseteq DOMAIN prog
  /\ replaces \in Nat

(***************************************************************************)
(* Types: the sets hold instructions of the function, and the walks over   *)
(* its blocks stay inside it.                                              *)
(***************************************************************************)
CPTypeOK ==
  /\ IRTypeOK
  /\ phase \in {"start", "flow", "enter", "sweep", "done"}
  /\ SetsTypeOK

(***************************************************************************)
(* When the round-robin loop ends, the sets solve the data-flow equations: *)
(* the last round changed no out set, so what it computed from the earlier *)
(* blocks' sets still holds for them.                                      *)
(***************************************************************************)
Solved ==
  phase \in {"enter", "sweep"} => \A b \in Blocks :
    in[b] = JoinIn(b) /\ out[b] = Transfer(b, in[b])

(***************************************************************************)
(* What the sets are for, said without them: the stores that can be the    *)
(* last to have written their variable when an instruction is reached.     *)
(* From store s the walk goes on until a store to the same variable.       *)
(***************************************************************************)
Flow ==
  {e \in (DOMAIN prog) \X (DOMAIN prog) :
     \/ e[2] = e[1] + 1 /\ prog[e[2]].bb = prog[e[1]].bb
     \/ /\ \E k \in DOMAIN prog[e[1]].succ : prog[e[1]].succ[k] = prog[e[2]].bb
        /\ \A h \in 1 .. e[2] - 1 : prog[h].bb # prog[e[2]].bb}

\* The store at i, if it is one, is s itself or writes another variable.
Passes(s, i) == i = s \/ ~(Is(i, "store") /\ SameVar(s, i))

Onward(s, places) == {e[2] : e \in {f \in Flow : f[1] \in places /\ Passes(s, f[1])}}

ReachedFrom(s) ==
  LET after[n \in Nat] ==
        IF n = 0 THEN Onward(s, {s})
        ELSE LET before == after[n - 1] IN before \cup Onward(s, before)
  IN  after[Len(prog)]

(***************************************************************************)
(* At a load, the stores the sweep considers are exactly those that can be *)
(* the last to have written the variable: none is missed, whatever loops   *)
(* the function has, and none is kept that has been overwritten.           *)
(***************************************************************************)
ReachingExact ==
  Sweeping("load") => Writes = {s \in Stores : SameVar(s, pc) /\ pc \in ReachedFrom(s)}

\* Constant propagation ends: the sets only grow from round to round.
Terminates == <>(phase = "done")
=============================================================================
