----------------------------- MODULE LocalPasses -----------------------------
(***************************************************************************)
(* The three passes of the optimizer that look at one block at a time      *)
(* (src/src/optimizer.cpp:31-140): constant folding, common subexpression  *)
(* elimination and dead code elimination.  Each walks the instructions of  *)
(* block bb, at pc; phase, bb and pc are those of ConstProp, which runs    *)
(* when no local pass does.                                                *)
(*                                                                         *)
(* "fold", "cse" and "dce" are the passes of the first loop of optimize_ir,*)
(* "refold" and "redce" those of the second.                               *)
(***************************************************************************)
EXTENDS ConstProp, Words, FiniteSetsExt, SequencesExt

VARIABLES
  visited,   \* CSE: operation and operands -> the instruction to use
  again,     \* DCE: has this pass over the block erased something
  changes    \* of this round of the second loop

localvars == <<visited, again, changes>>

Following(i) == Min({j \in present : j > i})

AtEnd == \A j \in DOMAIN prog : prog[j].bb = bb => j <= pc

\* The next instruction of the block.
StepOn == pc' = Following(pc) /\ UNCHANGED <<phase, bb>>

-----------------------------------------------------------------------------

Folding == phase \in {"fold", "refold"}

Foldable(i) == Is(i, "arith") /\ IsConstant(args[i][1]) /\ IsConstant(args[i][2])

\* Faulty variant: the result is not reduced to a word.
UnwrappedValue(i) == Constant(WordOf(args[i][1]) + WordOf(args[i][2]))

Value(i) == Constant(Arith(prog[i].sym, WordOf(args[i][1]), WordOf(args[i][2])))

\* What the first loop folds is not counted.
FoldInstr ==
  /\ Folding /\ Foldable(pc)
  /\ args' = Replaced(args, pc, Value(pc))
  /\ changes' = IF phase = "refold" THEN changes + 1 ELSE changes
  /\ StepOn
  /\ UNCHANGED <<prog, present, dataflow, changed, r, marked, replaces, visited, again>>

-----------------------------------------------------------------------------

Pure(i) == prog[i].op \in {"load", "arith", "icmp"}

\* The opcode and the operands; the predicate of an icmp is not part of it.
Key(i) == <<prog[i].op, args[i], IF Is(i, "icmp") THEN "" ELSE prog[i].sym>>

\* Faulty variant: no store is looked for.
AlwaysSafe(prev, i) == TRUE

\* Not a load, or no store of the block between the two writes the variable.
Safe(prev, i) ==
  Is(i, "load") => ~\E s \in InstrsOf(bb) :
                      prev < s /\ s < i /\ Is(s, "store") /\ SameVar(s, i)

Repeats(i) == Key(i) \in DOMAIN visited /\ Safe(visited[Key(i)], i)

ShareInstr ==
  /\ phase = "cse" /\ Pure(pc) /\ Repeats(pc)
  /\ args' = Replaced(args, pc, visited[Key(pc)])
  /\ StepOn
  /\ UNCHANGED <<prog, present, dataflow, changed, r, marked, replaces, localvars>>

\* The first of its kind, or a load that a store has cut off from the one before.
VisitInstr ==
  /\ phase = "cse" /\ Pure(pc) /\ ~Repeats(pc)
  /\ visited' = [key \in DOMAIN visited \cup {Key(pc)} |->
                   IF key = Key(pc) THEN pc ELSE visited[key]]
  /\ StepOn
  /\ UNCHANGED <<irvars, dataflow, changed, r, marked, replaces, again, changes>>

-----------------------------------------------------------------------------

Erasing == phase \in {"dce", "redce"}

Used(i) == \E j \in present : i \in ToSet(args[j])

\* Faulty variant: a use by a store does not count.
UnusedByOthers(i) == Pure(i) /\ ~\E j \in present \ Stores : i \in ToSet(args[j])

\* Faulty variant: nor does one by a branch, for which the flags would do.
UnusedByBranch(i) == Pure(i) /\ ~\E j \in present : ~Is(j, "condbr") /\ i \in ToSet(args[j])

\* Faulty variant: an arithmetic instruction stays.
UnusedLoad(i) == Is(i, "load") /\ ~Used(i)

Dead(i) == Pure(i) /\ ~Used(i)

EraseInstr ==
  /\ Erasing /\ Dead(pc)
  /\ present' = present \ {pc}
  /\ again' = TRUE
  /\ StepOn
  /\ UNCHANGED <<prog, args, dataflow, changed, r, marked, replaces, visited, changes>>

-----------------------------------------------------------------------------

\* Nothing for the pass to do at pc.
SkipInstr ==
  /\ \/ Folding /\ ~Foldable(pc)
     \/ phase = "cse" /\ ~Pure(pc)
     \/ Erasing /\ ~Dead(pc)
  /\ ~AtEnd
  /\ StepOn
  /\ UNCHANGED <<irvars, dataflow, changed, r, marked, replaces, localvars>>

\* From the start of block b with the next pass.
Begin(pass, b) ==
  /\ phase' = pass
  /\ bb' = b
  /\ pc' = IF pass = "start" THEN pc ELSE Min(InstrsOf(b))
  /\ again' = FALSE
  /\ visited' = <<>>

\* What comes after the last pass on a block.
EndPass(first, after) ==
  IF again THEN Begin(phase, bb)
  ELSE IF LastBlock THEN Begin(after, 1) ELSE Begin(first, bb + 1)

EndOfBlock(afterFirst, afterRound) ==
  /\ AtEnd
  /\ \/ phase = "fold" /\ Begin("cse", bb)
     \/ phase = "cse" /\ Begin("dce", bb)
     \/ phase = "dce" /\ EndPass("fold", afterFirst)
     \/ phase = "refold" /\ Begin("redce", bb)
     \/ phase = "redce" /\ EndPass("refold", afterRound)
  /\ UNCHANGED <<irvars, dataflow, changed, r, marked, replaces, changes>>

LocalStep == FoldInstr \/ ShareInstr \/ VisitInstr \/ EraseInstr \/ SkipInstr
=============================================================================
