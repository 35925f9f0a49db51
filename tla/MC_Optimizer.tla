---------------------------- MODULE MC_Optimizer ----------------------------
(***************************************************************************)
(* Straight lines, if-else and while loops over two variables, with bodies *)
(* that give every pass its work: constants to fold, copies to propagate,  *)
(* loads and computations to share, loads that a store separates, and      *)
(* values left without a use.                                              *)
(***************************************************************************)
EXTENDS OptimizedRun, ProgramShapes

MCSyms == {"x", "y", "add", "sub", "mul", "eq", "slt", ""}

EntryBodies == {<<Store("x", One)>>, <<Store("x", 0), Load("x"), Store("y", 2)>>}

Bodies ==
  {<<>>,
   <<Ins("arith", <<One, One>>, "add"), Store("x", 1)>>,
   <<Load("x"), Ins("arith", <<1, One>>, "add"), Load("x"), Ins("arith", <<3, One>>, "add"),
     Ins("arith", <<2, 4>>, "mul"), Store("y", 5)>>,
   <<Load("x"), Store("x", Two), Load("x"), Ins("arith", <<1, 3>>, "sub"), Emit(4)>>,
   <<Load("x"), Ins("arith", <<1, One>>, "add"), Ins("arith", <<1, One>>, "sub"), Store("x", 2),
     Store("y", 3)>>,
   <<Load("x"), Store("y", 1)>>,
   <<Load("y"), Ins("arith", <<1, Two>>, "add"), Store("x", 2), Load("x"), Load("y"), Emit(5)>>}

Conditions ==
  {<<Load("x"), Ins("icmp", <<1, Two>>, "slt")>>,
   <<Ins("read", <<>>, ""), Store("y", 1), Load("y"), Ins("icmp", <<3, Zero>>, "eq")>>}

\* What the function shows at its end.
Epilog == <<Load("x"), Emit(1), Load("y"), Emit(3)>>

MCPrograms ==
  {FunctionOf(<<c[1], c[2], c[3], Epilog>>, c[4], c[5]) :
     c \in EntryBodies \X Bodies \X Bodies \X Conditions \X {Diamond, While}}
    \cup {FunctionOf(<<c[1], c[2], Epilog>>, <<>>, Line) : c \in EntryBodies \X Bodies}
    \cup {FunctionOf(<<c, <<Load("y"), Emit(1)>>, <<Load("x"), Store("y", 1)>>, Epilog>>,
                      <<Load("x"), Ins("icmp", <<1, Two>>, "slt")>>, While) : c \in EntryBodies}

\* Two comparisons of the same operands in one block, the second one branched on.
\* genIRStmt builds one comparison in a block; the optimizer also takes any .ll file
\* (src/tests/optimizer/runner.cpp).
TwoConditions ==
  {FunctionOf(<<c[1], <<>>, <<Store("x", Two)>>, Epilog>>,
              <<Load("x"), Ins("icmp", <<1, Two>>, c[2]), Ins("icmp", <<1, Two>>, c[3])>>,
              Diamond) :
     c \in EntryBodies \X {"eq", "slt"} \X {"eq", "slt"}}
=============================================================================
