---------------------------- MODULE MC_IRBuilder ----------------------------
(***************************************************************************)
(* Programs with every statement and expression: ifs, whiles and blocks    *)
(* around each other, shadowed names, and code after a return.             *)
(***************************************************************************)
EXTENDS BuiltRun, TreeShapes

MCIdents == {"", "x", "y"}

X == Var("x")
Y == Var("y")

Down == Asgn(X, Bin("sub", X, Num(1)))

Simple ==
  {Down, Emit(Neg(Y)), Asgn(Y, Read), Asgn(Y, Bin("mul", X, Num(2))),
   Ret(Bin("add", X, Neg(Num(1)))), Block(<<Decl("x"), Asgn(X, Y), Emit(X)>>)}

\* Conditions that LLVM cannot fold; Nested has one that it can.
Conditions == {Rel("sgt", X, Num(0)), Rel("ne", Y, X)}

Nested(inner) ==
  {If(c, <<s>>) : c \in Conditions, s \in inner}
    \cup {If(Rel("slt", Num(1), Num(2)), <<s, t>>) : s \in inner, t \in Simple}
    \cup {While(c, Block(<<s, Down>>)) : c \in Conditions, s \in inner}

Once == Nested(Simple)

Twice ==
  {If(Rel("sge", X, Y), <<s, t>>) : s \in Once, t \in {Down, Ret(Y)}}
    \cup {If(Rel("eq", X, Y), <<s>>) : s \in Once}
    \cup {While(Rel("ne", X, Num(0)), Block(<<Decl("y"), Asgn(Y, X), s, Down>>)) : s \in Once}

Whole(body) == Tree(Func(<<"x">>, Block(<<Decl("y"), Asgn(Y, Num(1))>> \o body)))

MCTrees ==
  {Whole(<<s, Emit(X)>>) : s \in Twice}
    \cup {Whole(<<s, Emit(Y)>>) : s \in Once}
    \cup {Whole(<<Ret(X), s, t>>) : s \in Once, t \in {Down, Emit(X)}}
    \cup {Tree(Func(<<>>, Block(<<Decl("x"), s>>))) : s \in {Asgn(X, Read), Ret(X)}}

\* A loop after a return, then a print.
DeadLoop ==
  {Tree(Func(<<"x">>, Block(<<Ret(e), While(c, Down), Emit(X)>>))) :
     e \in {X, Num(0), Neg(X)}, c \in {Rel(op, X, Num(1)) : op \in {"sgt", "ne"}}}
=============================================================================
