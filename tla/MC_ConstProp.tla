---------------------------- MODULE MC_ConstProp ----------------------------
(***************************************************************************)
(* While loops, and three blocks, the entry and two, joined by every       *)
(* graph that reaches all of them (no branch goes back to the entry, as in *)
(* what ir_builder.cpp builds), with stores of two constants to x, copies  *)
(* through loads and uses of loads in them.                                *)
(***************************************************************************)
EXTENDS ConstProp, ProgramShapes

MCSyms == {"x", "y", "add", "eq", ""}

EntryBodies == {<<>>, <<Store("x", One)>>, <<Store("x", One), Load("x"), Store("y", 2)>>}

LaterBodies ==
  {<<>>, <<Store("x", One)>>, <<Store("x", Two)>>,
   <<Load("x"), Emit(1)>>,
   <<Load("x"), Store("x", 1), Load("x"), Emit(3)>>,
   <<Load("x"), Ins("arith", <<1, One>>, "add"), Store("x", 2)>>,
   <<Load("y"), Store("x", 1)>>,
   <<Store("x", Two), Store("x", One), Load("x"), Emit(3)>>}

Condition == <<Ins("read", <<>>, ""), Ins("icmp", <<1, One>>, "eq")>>

Targets == {<<>>, <<2>>, <<3>>, <<2, 3>>}

ReachesAll(t) ==
  LET to(b) == {t[b][k] : k \in DOMAIN t[b]}
      one == to(1)
      two == one \cup UNION {to(b) : b \in one}
  IN  two = {2, 3}

\* All three-block programs.
ThreeBlocks ==
  {FunctionOf(<<c[1], c[2], c[3]>>, Condition, c[4]) :
     c \in EntryBodies \X LaterBodies \X LaterBodies
             \X {t \in [1 .. 3 -> Targets] : ReachesAll(t)}}

\* While loops: the condition is block 2, the body block 3, the rest block 4.
Loops ==
  {FunctionOf(<<c[1], c[2], c[3], c[4]>>, Condition, While) :
     c \in EntryBodies \X LaterBodies \X LaterBodies \X {<<>>, <<Store("x", Two)>>}}

MCPrograms == ThreeBlocks \cup Loops
=============================================================================
