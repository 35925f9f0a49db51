------------------------------ MODULE MC_Scopes ------------------------------
(***************************************************************************)
(* All small nestings of blocks, conditions and loops over two names, the  *)
(* wrong ones included.                                                    *)
(***************************************************************************)
EXTENDS Scopes, TreeShapes

MCIdents == {"", "x", "y"}

Show == {Emit(Var(x)) : x \in {"x", "y"}}
Copy == {Asgn(Var("y"), Var("x"))}

Declared(names) == [i \in DOMAIN names |-> Decl(names[i])]

Blocks(names, stmts) == {Block(Declared(d) \o s) : d \in names, s \in stmts}

Inner == Blocks({<<>>, <<"x">>, <<"y">>, <<"x", "x">>}, {<<>>} \cup {<<s>> : s \in Show \cup Copy})

Middle ==
  Inner
    \cup Blocks({<<>>, <<"x">>, <<"y">>}, {<<s, t>> : s \in Inner, t \in Show})
    \cup {While(Rel("slt", Var("x"), Num(0)), b) : b \in Inner}
    \cup {If(Rel("eq", Var("y"), Num(0)), <<b, c>>) : b \in Inner, c \in Show}
    \cup {If(Rel("eq", Num(0), Neg(Var("y"))), <<b, c>>) : b \in Show, c \in Inner}

MCTrees ==
  {Tree(Func(p, Block(Declared(d) \o <<s, t>>))) :
     p \in {<<>>, <<"x">>}, d \in {<<"x">>, <<"y">>, <<"y", "x">>},
     s \in Middle, t \in Show}
=============================================================================
