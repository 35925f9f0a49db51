--------------------------------- MODULE Ast ---------------------------------
(***************************************************************************)
(* The tree that the parser hands over (src/include/ast.hpp), without the  *)
(* prog node and the two extern declarations, which nothing after the      *)
(* parser looks at.  Nodes are numbered in the order of the source text,   *)
(* the func node is 1, and a node refers to its parts by their numbers.    *)
(***************************************************************************)
EXTENDS Integers, Sequences

CONSTANTS
  Trees,    \* the programs to compile
  Idents,   \* identifiers
  Values    \* constants

Kinds == {"func", "param", "block", "decl", "asgn", "print", "ret", "while", "if",
          "var", "cnst", "read", "uexpr", "bexpr", "rexpr"}

Operators == {"", "add", "sub", "mul", "eq", "ne", "slt", "sle", "sgt", "sge"}

Node == [kind : Kinds, ident : Idents, op : Operators, value : Values, kids : Seq(Nat)]

Parents(t, n) == {p \in DOMAIN t : \E k \in DOMAIN t[p].kids : t[p].kids[k] = n}

\* How many parts a node has.
Arity(kind) ==
  CASE kind \in {"param", "decl", "var", "cnst", "read"} -> {0}
    [] kind \in {"print", "ret", "uexpr"} -> {1}
    [] kind \in {"asgn", "while", "bexpr", "rexpr"} -> {2}
    [] kind = "func" -> {1, 2}
    [] kind = "if" -> {2, 3}
    [] kind = "block" -> Nat

Expressions == {"var", "cnst", "read", "uexpr", "bexpr", "rexpr"}

\* An integer, and a statement that may be a branch or a body.
Terms == {"var", "cnst", "uexpr", "bexpr"}
Statements == {"block", "asgn", "print", "ret", "while", "if"}

\* What part k of a node may be.
PartKinds(kind, k) ==
  CASE kind = "func" -> {"param", "block"}
    [] kind = "block" -> Statements \cup {"decl"}
    [] kind = "asgn" -> IF k = 1 THEN {"var"} ELSE Terms \cup {"read"}
    [] kind \in {"while", "if"} -> IF k = 1 THEN {"rexpr"} ELSE Statements
    [] OTHER -> Terms

OperatorsOf(kind) ==
  CASE kind = "bexpr" -> {"add", "sub", "mul"}
    [] kind = "rexpr" -> {"eq", "ne", "slt", "sle", "sgt", "sge"}
    [] OTHER -> Operators

(***************************************************************************)
(* Every node but the root is a part of one node, the parts of a node are  *)
(* in the order of the text and of the kinds the grammar puts there, and   *)
(* declarations are parts of blocks.                                       *)
(***************************************************************************)
WellFormedTree(t) ==
  /\ t \in Seq(Node) \ {<<>>}
  /\ \A n \in DOMAIN t : t[n].kind = "func" <=> n = 1
  /\ \A n \in DOMAIN t : Len(t[n].kids) \in Arity(t[n].kind)
  /\ \A n \in DOMAIN t : \A j, k \in DOMAIN t[n].kids :
       /\ t[n].kids[k] \in DOMAIN t /\ n < t[n].kids[k]
       /\ j < k => t[n].kids[j] < t[n].kids[k]
  /\ \A n \in DOMAIN t \ {1} : \E p \in DOMAIN t :
       /\ Parents(t, n) = {p}
       /\ \A m \in p + 1 .. n - 1 : \A q \in Parents(t, m) : q >= p
  /\ \A n \in DOMAIN t : \A p \in Parents(t, n) :
       /\ t[n].kind = "param" <=> p = 1 /\ n # t[1].kids[Len(t[1].kids)]
       /\ t[n].kind = "decl" => t[p].kind = "block"
  /\ t[t[1].kids[Len(t[1].kids)]].kind = "block"
  /\ \A n \in DOMAIN t : /\ \A k \in DOMAIN t[n].kids :
                               t[t[n].kids[k]].kind \in PartKinds(t[n].kind, k)
                         /\ t[n].op \in OperatorsOf(t[n].kind)

ASSUME TreesAssumption == \A t \in Trees : WellFormedTree(t)
=============================================================================
