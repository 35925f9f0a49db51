--------------------------- MODULE IRBuilderProofs ---------------------------
(***************************************************************************)
(* build_ir gives every program a function the optimizer can take, for     *)
(* every tree that a parser can make.                                      *)
(*                                                                         *)
(* The invariant, BuiltIInv, has a part for each phase.  While statements  *)
(* are lowered (PartWay), each task that is left owns the blocks it will   *)
(* still end: the body of a while its condition's block and the one after  *)
(* it, a then-part the block after the if.  Blocks that are owned, and the *)
(* current one, have no terminator; every other block has exactly one, at  *)
(* its end (Function).  Every instruction is good where it stands          *)
(* (GoodCode): that is shown of the code of each expression, by induction  *)
(* over the tree, and kept when code is put after code.                    *)
(*                                                                         *)
(* The second part arranges the blocks that are kept in layout order and   *)
(* shows of the result what IRProgram asks of its input.                   *)
(***************************************************************************)
EXTENDS BuiltRun, ScopesProofs, SequenceTheorems, FiniteSetTheorems,
        WellFoundedInduction

(***************************************************************************)
(* Expressions: their code by induction over the tree                      *)
(***************************************************************************)

\* A set of natural numbers has a least element.
LEMMA LeastExists ==
  ASSUME NEW S \in SUBSET Nat, S # {}
  PROVE  \E m \in S : \A n \in S : m <= n
<1> DEFINE Less == {ss \in Nat \X Nat : ss[1] < ss[2]}
<1>1. OpToRel(<, Nat) = Less
  BY DEF OpToRel
<1>2. IsWellFoundedOn(Less, Nat)
  BY <1>1, NatLessThanWellFounded
<1>3. \A m, n \in Nat : n < m => <<n, m>> \in Less
  OBVIOUS
<1> HIDE DEF Less
<1>4. PICK m \in S : \A n \in S : ~(<<n, m>> \in Less)
  BY <1>2, WFMin
<1>5. ASSUME NEW n \in S PROVE m <= n
  <2>1. m \in Nat /\ n \in Nat
    OBVIOUS
  <2>2. ~(n < m)
    BY <1>3, <1>4, <2>1
  <2> QED BY <2>1, <2>2
<1> QED BY <1>5

\* Induction over the natural numbers, for a set of them.
LEMMA NatSetInduction ==
  ASSUME NEW T, 0 \in T, \A n \in Nat : n \in T => n + 1 \in T
  PROVE  \A n \in Nat : n \in T
<1> SUFFICES ASSUME \E n \in Nat : n \notin T PROVE FALSE
  OBVIOUS
<1>1. PICK m \in Nat \ T : \A n \in Nat \ T : m <= n
  BY LeastExists
<1>2. m # 0 /\ m - 1 \in Nat /\ m - 1 \in T
  BY <1>1
<1> QED BY <1>2

CodeAt(f, n) == [k \in Nat |->
  LET Kind(kind) == tree[n].kind = kind
      Part_1(i, m) == f[Kids(n)[i]][m]
  IN  CASE Kind("cnst") -> [code |-> <<>>, val |-> Constant(tree[n].value)]
        [] Kind("var") -> [code |-> <<Instr("load", <<>>, name[n], <<>>)>>, val |-> k + 1]
        [] Kind("read") -> [code |-> <<Instr("read", <<>>, <<"">>, <<>>)>>, val |-> k + 1]
        [] Kind("uexpr") -> LET e == Part_1(1, k)
                           IN  Build("arith", "sub", Constant(0), e.val, e.code, k)
        [] OTHER -> LET a == Part_1(1, k)
                        b == Part_1(2, k + Len(a.code))
                    IN  Build(IF Kind("bexpr") THEN "arith" ELSE "icmp", tree[n].op,
                              a.val, b.val, a.code \o b.code, k)]

\* The parts of an expression are terms with greater numbers.
LEMMA ExprFacts ==
  ASSUME WellFormedTree(tree), NEW n \in Exprs
  PROVE  /\ n \in DOMAIN tree /\ n \in Nat /\ tree[n].kind \in Expressions
         /\ tree[n].kind = "uexpr" => DOMAIN Kids(n) = {1}
         /\ tree[n].kind \in {"bexpr", "rexpr"} => DOMAIN Kids(n) = {1, 2}
         /\ \A k \in DOMAIN Kids(n) : /\ Kids(n)[k] \in Exprs /\ n < Kids(n)[k]
                                      /\ tree[Kids(n)[k]].kind \in Terms
<1>1. n \in DOMAIN tree /\ n \in Nat /\ tree[n].kind \in Expressions
  BY TreeFacts DEF Exprs
<1>2. Len(Kids(n)) \in Arity(tree[n].kind) /\ DOMAIN Kids(n) = 1 .. Len(Kids(n))
  BY <1>1, TreeFacts DEF WellFormedTree, Kids
<1>3. tree[n].kind = "uexpr" => DOMAIN Kids(n) = {1}
  BY <1>2 DEF Arity
<1>4. tree[n].kind \in {"bexpr", "rexpr"} => DOMAIN Kids(n) = {1, 2}
  BY <1>2 DEF Arity
<1>5. ASSUME NEW k \in DOMAIN Kids(n)
      PROVE  Kids(n)[k] \in Exprs /\ n < Kids(n)[k] /\ tree[Kids(n)[k]].kind \in Terms
  <2>1. Kids(n)[k] \in DOMAIN tree /\ n < Kids(n)[k]
    BY <1>1, PartFacts
  <2>2. tree[Kids(n)[k]].kind \in PartKinds(tree[n].kind, k)
    BY <1>1 DEF WellFormedTree, Kids
  <2>3. PartKinds(tree[n].kind, k) = Terms
    BY <1>1 DEF PartKinds, Expressions
  <2> QED BY <2>1, <2>2, <2>3 DEF Exprs, Terms, Expressions
<1> QED BY <1>1, <1>3, <1>4, <1>5

\* genIRExpr, in terms of what it is for the parts.
LEMMA SameParts ==
  ASSUME WellFormedTree(tree), NEW n \in Exprs, NEW f, NEW g,
         \A k \in DOMAIN Kids(n) : f[Kids(n)[k]] = g[Kids(n)[k]]
  PROVE  CodeAt(f, n) = CodeAt(g, n)
<1>1. CASE tree[n].kind \in {"cnst", "var", "read"}
  BY <1>1 DEF CodeAt
<1>2. CASE tree[n].kind = "uexpr"
  <2>1. f[Kids(n)[1]] = g[Kids(n)[1]]
    BY <1>2, ExprFacts
  <2> QED BY <1>2, <2>1 DEF CodeAt
<1>3. CASE tree[n].kind \in {"bexpr", "rexpr"}
  <2>1. f[Kids(n)[1]] = g[Kids(n)[1]] /\ f[Kids(n)[2]] = g[Kids(n)[2]]
    BY <1>3, ExprFacts
  <2> QED BY <1>3, <2>1 DEF CodeAt
<1> QED BY <1>1, <1>2, <1>3, ExprFacts DEF Expressions

\* The recursive definition of genIRExpr has a solution: parts come after the whole.
LEMMA genIRExprDef ==
  ASSUME WellFormedTree(tree)
  PROVE  genIRExpr = [n \in Exprs |-> CodeAt(genIRExpr, n)]
<1> DEFINE Last(d) == {n \in Exprs : n > Len(tree) - d}
           T == {d \in Nat : \E f : f = [n \in Last(d) |-> CodeAt(f, n)]}
<1>0. Len(tree) \in Nat /\ \A n \in Exprs : n \in 1 .. Len(tree)
  BY TreeFacts DEF Exprs
<1>1. 0 \in T
  <2>1. Last(0) = {}
    BY <1>0
  <2>2. \E f : f = [n \in {} |-> CodeAt(f, n)]
    <3>1. [n \in {} |-> 0] = [n \in {} |-> CodeAt([m \in {} |-> 0], n)]
      OBVIOUS
    <3> QED BY <3>1
  <2> QED BY <2>1, <2>2
<1>2. ASSUME NEW d \in Nat, d \in T PROVE d + 1 \in T
  <2>1. PICK f : f = [n \in Last(d) |-> CodeAt(f, n)]
    BY <1>2
  <2> DEFINE g == [n \in Last(d + 1) |-> IF n \in Last(d) THEN f[n] ELSE CodeAt(f, n)]
  <2>2. \A n \in Last(d + 1) : g[n] = CodeAt(f, n)
    BY <2>1
  <2>3. Last(d) \subseteq Last(d + 1)
    BY <1>0
  <2>4. \A n \in Last(d) : g[n] = f[n]
    BY <2>3
  <2>5. ASSUME NEW n \in Last(d + 1) PROVE g[n] = CodeAt(g, n)
    <3> HIDE DEF g
    <3>1. ASSUME NEW k \in DOMAIN Kids(n) PROVE f[Kids(n)[k]] = g[Kids(n)[k]]
      <4>1. Kids(n)[k] \in Exprs /\ n < Kids(n)[k]
        BY ExprFacts
      <4>2. Kids(n)[k] \in Last(d)
        BY <4>1, <1>0
      <4> QED BY <4>2, <2>4
    <3>2. CodeAt(f, n) = CodeAt(g, n)
      BY <3>1, SameParts
    <3> QED BY <3>2, <2>2
  <2>6. g = [n \in Last(d + 1) |-> CodeAt(g, n)]
    BY <2>5
  <2>7. \E h : h = [n \in Last(d + 1) |-> CodeAt(h, n)]
    BY <2>6
  <2>8. d + 1 \in Nat
    OBVIOUS
  <2> QED BY <2>7, <2>8
<1>3. Len(tree) \in T
  <2> HIDE DEF T
  <2> QED BY <1>0, <1>1, <1>2, NatSetInduction
<1>4. Last(Len(tree)) = Exprs
  BY <1>0
<1>5. \E f : f = [n \in Exprs |-> CodeAt(f, n)]
  BY <1>3, <1>4
<1> QED BY <1>5 DEF genIRExpr, CodeAt

\* What holds of an expression if it holds of its parts holds of all.
LEMMA ExprInduction ==
  ASSUME WellFormedTree(tree), NEW P,
         \A n \in Exprs : (\A k \in DOMAIN Kids(n) : Kids(n)[k] \in P) => n \in P
  PROVE  Exprs \subseteq P
<1> SUFFICES ASSUME NEW x \in Exprs \ P PROVE FALSE
  OBVIOUS
<1> DEFINE S == {Len(tree) - n : n \in Exprs \ P}
<1>0. Len(tree) \in Nat /\ \A n \in Exprs : n \in 1 .. Len(tree)
  BY TreeFacts DEF Exprs
<1>1. S \subseteq Nat /\ S # {}
  BY <1>0
<1>2. PICK m \in S : \A j \in S : m <= j
  BY <1>1, LeastExists
<1>3. PICK n \in Exprs \ P : m = Len(tree) - n
  BY <1>2
<1>4. PICK k \in DOMAIN Kids(n) : Kids(n)[k] \notin P
  OBVIOUS
<1>5. Kids(n)[k] \in Exprs /\ n < Kids(n)[k]
  BY ExprFacts
<1>6. Len(tree) - Kids(n)[k] \in S
  BY <1>4, <1>5
<1>7. PICK y \in Nat : y = Kids(n)[k] /\ n < y
  BY <1>0, <1>5
<1>8. m <= Len(tree) - y
  BY <1>2, <1>6, <1>7
<1> QED BY <1>0, <1>3, <1>7, <1>8

-----------------------------------------------------------------------------
StmtNodes == {n \in DOMAIN tree : tree[n].kind \in Statements \cup {"decl"}}

TermNodes == {n \in Exprs : tree[n].kind \in Terms}

Conds == {n \in Exprs : tree[n].kind = "rexpr"}

\* What a statement consists of.
LEMMA StmtFacts ==
  ASSUME WellFormedTree(tree), NEW n \in StmtNodes
  PROVE  /\ n \in DOMAIN tree /\ Kids(n) \in Seq(Nat)
         /\ tree[n].kind = "asgn" =>
              /\ Kids(n)[1] \in Uses
              /\ Kids(n)[2] \in Exprs /\ tree[Kids(n)[2]].kind \in Terms \cup {"read"}
         /\ tree[n].kind \in {"print", "ret"} => Kids(n)[1] \in TermNodes
         /\ tree[n].kind \in {"while", "if"} => Kids(n)[1] \in Conds /\ Kids(n)[2] \in StmtNodes
         /\ tree[n].kind = "if" => /\ Len(Kids(n)) \in {2, 3}
                                   /\ Len(Kids(n)) = 3 => Kids(n)[3] \in StmtNodes
         /\ tree[n].kind = "block" => \A k \in DOMAIN Kids(n) : Kids(n)[k] \in StmtNodes
<1>1. n \in DOMAIN tree /\ tree[n].kind \in Statements \cup {"decl"}
  BY DEF StmtNodes
<1>2. /\ Kids(n) \in Seq(Nat) /\ Len(Kids(n)) \in Arity(tree[n].kind)
      /\ DOMAIN Kids(n) = 1 .. Len(Kids(n))
  BY <1>1, TreeFacts DEF WellFormedTree, Kids
<1>3. ASSUME NEW k \in DOMAIN Kids(n)
      PROVE  Kids(n)[k] \in DOMAIN tree /\ tree[Kids(n)[k]].kind \in PartKinds(tree[n].kind, k)
  BY <1>1, PartFacts DEF WellFormedTree, Kids
<1>4. CASE tree[n].kind = "asgn"
  <2>1. 1 \in DOMAIN Kids(n) /\ 2 \in DOMAIN Kids(n)
    BY <1>2, <1>4 DEF Arity
  <2>2. tree[Kids(n)[1]].kind = "var" /\ tree[Kids(n)[2]].kind \in Terms \cup {"read"}
    BY <1>3, <1>4, <2>1 DEF PartKinds
  <2> QED BY <1>1, <1>2, <1>3, <1>4, <2>1, <2>2 DEF Uses, Exprs, Terms, Expressions
<1>5. CASE tree[n].kind \in {"print", "ret"}
  <2>1. 1 \in DOMAIN Kids(n)
    BY <1>2, <1>5 DEF Arity
  <2>2. tree[Kids(n)[1]].kind \in Terms
    BY <1>3, <1>5, <2>1 DEF PartKinds
  <2> QED BY <1>1, <1>2, <1>3, <1>5, <2>1, <2>2 DEF TermNodes, Exprs, Terms, Expressions
<1>6. CASE tree[n].kind \in {"while", "if"}
  <2>1. /\ 1 \in DOMAIN Kids(n) /\ 2 \in DOMAIN Kids(n)
        /\ tree[n].kind = "if" => Len(Kids(n)) \in {2, 3}
    BY <1>2, <1>6 DEF Arity
  <2>2. /\ tree[Kids(n)[1]].kind = "rexpr" /\ tree[Kids(n)[2]].kind \in Statements
        /\ 3 \in DOMAIN Kids(n) => tree[Kids(n)[3]].kind \in Statements
    BY <1>3, <1>6, <2>1 DEF PartKinds
  <2> QED BY <1>1, <1>2, <1>3, <1>6, <2>1, <2>2 DEF Conds, Exprs, Expressions, StmtNodes
<1>7. CASE tree[n].kind = "block"
  <2>1. \A k \in DOMAIN Kids(n) : tree[Kids(n)[k]].kind \in Statements \cup {"decl"}
    BY <1>3, <1>7 DEF PartKinds
  <2> QED BY <1>1, <1>2, <1>3, <1>7, <2>1 DEF StmtNodes
<1> QED BY <1>1, <1>2, <1>4, <1>5, <1>6, <1>7 DEF Statements

LEMMA BodyStmt ==
  ASSUME WellFormedTree(tree)
  PROVE  Body \in StmtNodes
BY RootFacts DEF StmtNodes, Statements

-----------------------------------------------------------------------------

\* The tree and the names, as the renaming leaves them.
Prepared == WellFormedTree(tree) /\ NamesOK(Len(tree) + 1)

Vars == {name[d] : d \in Decls}

\* The renaming has given each declaration a name of its own, and uses those names.
LEMMA NameFacts ==
  ASSUME Prepared
  PROVE  /\ Vars \subseteq NewNames
         /\ \A n \in Uses : name[n] \in Vars
         /\ \A d, e \in Decls : name[d] = name[e] => d = e
         /\ ret_ref \notin Vars /\ Allocas = Vars \cup {ret_ref}
<1>1. /\ DOMAIN tree = 1 .. Len(tree) /\ Len(tree) \in Nat
      /\ \A d \in Decls \cup Uses : d \in DOMAIN tree /\ tree[d].ident \in Idents
  BY TreeFacts DEF Prepared, Decls, Uses
<1>2. \A d \in Decls \cup Uses : d < Len(tree) + 1
  BY <1>1
<1>3. Distinct(Len(tree) + 1) /\ Bound(Len(tree) + 1)
  BY DEF Prepared, NamesOK
<1>4. \A d \in Decls : \E j \in Nat : name[d] = <<tree[d].ident, j>>
  BY <1>2, <1>3 DEF Distinct
<1>5. Vars \subseteq NewNames
  <2>1. ASSUME NEW d \in Decls PROVE name[d] \in NewNames
    <3>1. PICK j \in Nat : name[d] = <<tree[d].ident, j>>
      BY <1>4
    <3> QED BY <1>1, <3>1 DEF NewNames
  <2> QED BY <2>1 DEF Vars
<1>6. \A n \in Uses : name[n] \in Vars
  BY <1>2, <1>3 DEF Bound, Vars
<1>7. \A d, e \in Decls : name[d] = name[e] => d = e
  BY <1>2, <1>3 DEF Distinct
<1>8. ret_ref \notin Vars
  <2>1. ASSUME NEW d \in Decls PROVE name[d] # ret_ref
    <3>1. PICK j \in Nat : name[d] = <<tree[d].ident, j>>
      BY <1>4
    <3>2. Len(name[d]) = 2 /\ Len(ret_ref) = 1
      BY <3>1 DEF ret_ref
    <3> QED BY <3>2
  <2> QED BY <2>1 DEF Vars
<1>9. Allocas = Vars \cup {ret_ref}
  BY DEF Allocas, Vars
<1> QED BY <1>5, <1>6, <1>7, <1>8, <1>9

-----------------------------------------------------------------------------

AllOps == {"load", "arith", "icmp", "read", "store", "print", "br", "condbr", "ret"}

Built == [op : AllOps, args : Seq(Int), sym : AllSyms, succ : Seq(Nat), bb : Nat]

IsWord(v) == v \in Int /\ v < 0 /\ WordOf(v) \in Word

\* An operand after k instructions, k + j with those of the code.
OperandIn(v, k, j) == IsWord(v) \/ (v \in Int /\ k < v /\ v <= k + j)

Arithmetic(i, k, j) ==
  /\ i = Instr("arith", i.args, i.sym, <<>>)
  /\ \E a, b \in Int : i.args = <<a, b>> /\ OperandIn(a, k, j) /\ OperandIn(b, k, j)
  /\ \E o \in Operations : i.sym = <<o>>

Loads(i) == \E x \in Vars : i = Instr("load", <<>>, x, <<>>)

\* The code of a term: it only loads and computes.
TermCode(code, k) ==
  /\ code \in Seq(Built)
  /\ \A j \in DOMAIN code : Loads(code[j]) \/ Arithmetic(code[j], k, j - 1)

ValueOf(e, k) ==
  \/ e.code = <<>> /\ IsWord(e.val)
  \/ Len(e.code) > 0 /\ e.val = k + Len(e.code)

IsTerm(e, k) == TermCode(e.code, k) /\ ValueOf(e, k)

LEMMA BuiltFacts ==
  /\ \A op \in AllOps, a \in Seq(Int), s \in AllSyms, t \in Seq(Nat) :
       Instr(op, a, s, t) \in Built
  /\ \A o \in Operators : <<o>> \in AllSyms
  /\ NewNames \subseteq AllSyms /\ ret_ref \in AllSyms
BY DEF Built, Instr, AllSyms, NewNames

LEMMA WordFacts ==
  /\ \A o \in Operations, a, b \in Int : Arith(o, a, b) \in Word
  /\ \A w \in Word : IsWord(Constant(w)) /\ WordOf(Constant(w)) = w
  /\ {0} \subseteq Word /\ Word \subseteq Int
<1>1. \A x \in Int : x % Modulus \in 0 .. Modulus - 1
  BY ModulusAssumption
<1>2. ASSUME NEW o \in Operations, NEW a \in Int, NEW b \in Int PROVE Arith(o, a, b) \in Word
  <2>1. a + b \in Int /\ a - b + Modulus \in Int /\ a * b \in Int
    BY ModulusAssumption
  <2> QED BY <1>1, <2>1 DEF Arith, Word, Operations
<1>3. ASSUME NEW w \in Word PROVE IsWord(Constant(w)) /\ WordOf(Constant(w)) = w
  <2>1. w \in Int /\ w >= 0
    BY ModulusAssumption DEF Word
  <2> QED BY <2>1 DEF IsWord, Constant, WordOf
<1>4. {0} \subseteq Word /\ Word \subseteq Int
  BY ModulusAssumption DEF Word
<1> QED BY <1>2, <1>3, <1>4

\* Code that follows other code.
LEMMA TermCodeJoin ==
  ASSUME NEW k \in Nat, NEW c, NEW d, TermCode(c, k), TermCode(d, k + Len(c))
  PROVE  TermCode(c \o d, k) /\ Len(c \o d) = Len(c) + Len(d) /\ Len(c) \in Nat /\ Len(d) \in Nat
<1>1. c \in Seq(Built) /\ d \in Seq(Built)
  BY DEF TermCode
<1>2. PICK l \in Nat : l = Len(c)
  BY <1>1
<1>3. c \o d \in Seq(Built) /\ Len(c \o d) = l + Len(d) /\ Len(d) \in Nat
  BY <1>1, <1>2
<1>4. ASSUME NEW j \in DOMAIN (c \o d) PROVE Loads((c \o d)[j]) \/ Arithmetic((c \o d)[j], k, j - 1)
  <2>1. j \in Nat /\ j > 0 /\ j <= l + Len(d)
    BY <1>3, <1>4
  <2>2. CASE j <= l
    <3>1. (c \o d)[j] = c[j] /\ j \in DOMAIN c
      BY <1>1, <1>2, <2>1, <2>2
    <3> QED BY <3>1 DEF TermCode
  <2>3. CASE j > l
    <3>1. PICK m \in Nat : m = j - l
      BY <1>2, <2>1, <2>3
    <3>2. (c \o d)[j] = d[m] /\ m \in DOMAIN d
      BY <1>1, <1>2, <2>1, <2>3, <3>1
    <3>3. Loads(d[m]) \/ Arithmetic(d[m], k + l, m - 1)
      BY <1>2, <3>2 DEF TermCode
    <3>4. Arithmetic(d[m], k + l, m - 1) => Arithmetic(d[m], k, j - 1)
      <4>1. \A v \in Int : OperandIn(v, k + l, m - 1) => OperandIn(v, k, j - 1)
        BY <2>1, <3>1 DEF OperandIn
      <4> QED BY <4>1 DEF Arithmetic
    <3> QED BY <3>2, <3>3, <3>4
  <2> QED BY <1>2, <2>1, <2>2, <2>3
<1> QED BY <1>2, <1>3, <1>4 DEF TermCode

\* The operands of an instruction are the values of its parts.
LEMMA ValueIn ==
  ASSUME NEW k \in Nat, NEW e, IsTerm(e, k), NEW n \in Nat, Len(e.code) <= n
  PROVE  e.val \in Int /\ OperandIn(e.val, k, n) /\ (e.val < 0 => e.code = <<>>)
<1>1. Len(e.code) \in Nat
  BY DEF IsTerm, TermCode
<1> QED BY <1>1 DEF IsTerm, ValueOf, OperandIn, IsWord

\* An arith, or the constant it amounts to.
LEMMA BuildArith ==
  ASSUME NEW k \in Nat, NEW o \in Operations, NEW a \in Int, NEW b \in Int, NEW c, TermCode(c, k),
         OperandIn(a, k, Len(c)), OperandIn(b, k, Len(c)), a < 0 /\ b < 0 => c = <<>>
  PROVE  IsTerm(Build("arith", o, a, b, c, k), k)
<1>1. CASE a < 0 /\ b < 0
  <2>1. WordOf(a) \in Int /\ WordOf(b) \in Int
    BY DEF WordOf
  <2>2. IsWord(Constant(Arith(o, WordOf(a), WordOf(b))))
    BY <2>1, WordFacts
  <2>3. Build("arith", o, a, b, c, k)
          = [code |-> c, val |-> Constant(Arith(o, WordOf(a), WordOf(b)))]
    BY <1>1 DEF Build
  <2> QED BY <1>1, <2>2, <2>3 DEF IsTerm, ValueOf
<1>2. CASE ~(a < 0 /\ b < 0)
  <2>1. PICK i : i = Instr("arith", <<a, b>>, <<o>>, <<>>)
    OBVIOUS
  <2>2. Build("arith", o, a, b, c, k) = [code |-> Append(c, i), val |-> k + Len(c) + 1]
    BY <1>2, <2>1 DEF Build
  <2>3. i \in Built
    <3>1. <<a, b>> \in Seq(Int)
      OBVIOUS
    <3>2. <<>> \in Seq(Nat)
      OBVIOUS
    <3>3. "arith" \in AllOps /\ <<o>> \in AllSyms
      BY BuiltFacts DEF AllOps, Operations, Operators
    <3> QED BY <2>1, <3>1, <3>2, <3>3, BuiltFacts
  <2>4. PICK l \in Nat : l = Len(c)
    BY DEF TermCode
  <2>5. Arithmetic(i, k, l)
    <3>1. i.args = <<a, b>> /\ i.sym = <<o>>
      BY <2>1 DEF Instr
    <3> QED BY <2>1, <2>4, <3>1 DEF Arithmetic
  <2>6. Append(c, i) \in Seq(Built) /\ Len(Append(c, i)) = l + 1
    BY <2>3, <2>4 DEF TermCode
  <2>7. ASSUME NEW j \in DOMAIN Append(c, i)
        PROVE  Loads(Append(c, i)[j]) \/ Arithmetic(Append(c, i)[j], k, j - 1)
    <3>1. j \in 1 .. l + 1
      BY <2>6
    <3>2. CASE j = l + 1
      <4>1. Append(c, i)[j] = i /\ j - 1 = l
        BY <2>4, <3>2 DEF TermCode
      <4> QED BY <2>5, <4>1
    <3>3. CASE j # l + 1
      <4>1. Append(c, i)[j] = c[j] /\ j \in DOMAIN c
        BY <2>4, <3>1, <3>3 DEF TermCode
      <4> QED BY <4>1 DEF TermCode
    <3> QED BY <3>2, <3>3
  <2>8. PICK d : d = Append(c, i)
    OBVIOUS
  <2>9. TermCode(d, k)
    BY <2>6, <2>7, <2>8 DEF TermCode
  <2>10. ValueOf([code |-> d, val |-> k + Len(c) + 1], k)
    BY <2>4, <2>6, <2>8 DEF ValueOf
  <2>11. PICK e : e = [code |-> d, val |-> k + Len(c) + 1]
    OBVIOUS
  <2>12. e.code = d /\ ValueOf(e, k)
    BY <2>10, <2>11
  <2>13. IsTerm(e, k)
    BY <2>9, <2>12 DEF IsTerm
  <2> QED BY <2>2, <2>8, <2>11, <2>13
<1> QED BY <1>1, <1>2

\* genIRExpr, kind by kind.
LEMMA genIRExprCases ==
  ASSUME WellFormedTree(tree), NEW n \in Exprs, NEW k \in Nat
  PROVE  LET kind == tree[n].kind
             e == genIRExpr[n][k]
             a == genIRExpr[Kids(n)[1]][k]
             b == genIRExpr[Kids(n)[2]][k + Len(a.code)]
         IN  /\ kind = "cnst" => e = [code |-> <<>>, val |-> Constant(tree[n].value)]
             /\ kind = "var" =>
                  e = [code |-> <<Instr("load", <<>>, name[n], <<>>)>>, val |-> k + 1]
             /\ kind = "read" =>
                  e = [code |-> <<Instr("read", <<>>, <<"">>, <<>>)>>, val |-> k + 1]
             /\ kind = "uexpr" => e = Build("arith", "sub", Constant(0), a.val, a.code, k)
             /\ kind = "bexpr" =>
                  e = Build("arith", tree[n].op, a.val, b.val, a.code \o b.code, k)
             /\ kind = "rexpr" =>
                  e = Build("icmp", tree[n].op, a.val, b.val, a.code \o b.code, k)
<1>1. genIRExpr[n] = CodeAt(genIRExpr, n)
  BY genIRExprDef
<1>2. CASE tree[n].kind = "cnst"
  BY <1>1, <1>2 DEF CodeAt
<1>3. CASE tree[n].kind = "var"
  BY <1>1, <1>3 DEF CodeAt
<1>4. CASE tree[n].kind = "read"
  BY <1>1, <1>4 DEF CodeAt
<1>5. CASE tree[n].kind = "uexpr"
  BY <1>1, <1>5 DEF CodeAt
<1>6. CASE tree[n].kind = "bexpr"
  BY <1>1, <1>6 DEF CodeAt
<1>7. CASE tree[n].kind = "rexpr"
  BY <1>1, <1>7 DEF CodeAt
<1> QED BY <1>2, <1>3, <1>4, <1>5, <1>6, <1>7, ExprFacts DEF Expressions

\* An operator of a node, and the value of a constant.
LEMMA NodeFacts ==
  ASSUME WellFormedTree(tree), NEW n \in Exprs
  PROVE  /\ tree[n].value \in Word
         /\ tree[n].kind = "bexpr" => tree[n].op \in Operations
         /\ tree[n].kind = "rexpr" => tree[n].op \in Predicates
<1>1. tree[n] \in Node /\ n \in DOMAIN tree
  BY TreeFacts DEF Exprs
<1>2. tree[n].value \in Values
  BY <1>1 DEF Node
<1>3. tree[n].op \in OperatorsOf(tree[n].kind)
  BY <1>1 DEF WellFormedTree
<1> QED BY <1>2, <1>3, ValuesAssumption DEF OperatorsOf, Operations, Predicates

(***************************************************************************)
(* The code of a term loads variables and computes with values of its own; *)
(* its value is a constant, or what its last instruction computes.         *)
(***************************************************************************)
LEMMA TermsCode ==
  ASSUME Prepared
  PROVE  \A n \in TermNodes, k \in Nat : IsTerm(genIRExpr[n][k], k)
<1> DEFINE P == {n \in Exprs : n \in TermNodes => \A k \in Nat : IsTerm(genIRExpr[n][k], k)}
<1>0. WellFormedTree(tree)
  BY DEF Prepared
<1>1. ASSUME NEW n \in Exprs, \A i \in DOMAIN Kids(n) : Kids(n)[i] \in P,
             n \in TermNodes, NEW k \in Nat
      PROVE  IsTerm(genIRExpr[n][k], k)
  <2>1. \A i \in DOMAIN Kids(n) : Kids(n)[i] \in TermNodes
    BY <1>0, <1>1, ExprFacts DEF TermNodes
  <2>2. \A i \in DOMAIN Kids(n), l \in Nat : IsTerm(genIRExpr[Kids(n)[i]][l], l)
    BY <1>1, <2>1
  <2>3. tree[n].kind \in {"cnst", "var", "uexpr", "bexpr"}
    BY <1>1 DEF TermNodes, Terms
  <2>4. PICK e : e = genIRExpr[n][k]
    OBVIOUS
  <2>5. CASE tree[n].kind = "cnst"
    <3>1. e = [code |-> <<>>, val |-> Constant(tree[n].value)]
      BY <1>0, <2>4, <2>5, genIRExprCases
    <3>2. IsWord(e.val) /\ e.code = <<>>
      BY <1>0, <3>1, NodeFacts, WordFacts
    <3>3. TermCode(<<>>, k)
      BY DEF TermCode
    <3> QED BY <2>4, <3>2, <3>3 DEF IsTerm, ValueOf
  <2>6. CASE tree[n].kind = "var"
    <3>1. PICK i : i = Instr("load", <<>>, name[n], <<>>)
      OBVIOUS
    <3>2. e = [code |-> <<i>>, val |-> k + 1]
      BY <1>0, <2>4, <2>6, <3>1, genIRExprCases
    <3>3. name[n] \in Vars /\ name[n] \in AllSyms
      <4>1. n \in Uses
        BY <2>6 DEF Uses, Exprs
      <4> QED BY <4>1, NameFacts, BuiltFacts
    <3>4. i \in Built /\ Loads(i)
      <4>1. <<>> \in Seq(Nat) /\ <<>> \in Seq(Int)
        OBVIOUS
      <4>2. "load" \in AllOps
        BY DEF AllOps
      <4> QED BY <3>1, <3>3, <4>1, <4>2, BuiltFacts DEF Loads
    <3>5. TermCode(<<i>>, k)
      BY <3>4 DEF TermCode
    <3>6. e.code = <<i>> /\ Len(e.code) = 1 /\ e.val = k + 1
      BY <3>2
    <3> QED BY <2>4, <3>5, <3>6 DEF IsTerm, ValueOf
  <2>7. CASE tree[n].kind = "uexpr"
    <3>1. PICK a : a = genIRExpr[Kids(n)[1]][k]
      OBVIOUS
    <3>2. IsTerm(a, k)
      BY <1>0, <2>2, <2>7, <3>1, ExprFacts
    <3>3. e = Build("arith", "sub", Constant(0), a.val, a.code, k)
      BY <1>0, <2>4, <2>7, <3>1, genIRExprCases
    <3>4. PICK l \in Nat : l = Len(a.code)
      BY <3>2 DEF IsTerm, TermCode
    <3>5. a.val \in Int /\ OperandIn(a.val, k, l) /\ (a.val < 0 => a.code = <<>>)
      BY <3>2, <3>4, ValueIn
    <3>6. Constant(0) \in Int /\ OperandIn(Constant(0), k, l)
      BY WordFacts DEF OperandIn, IsWord
    <3>7. TermCode(a.code, k) /\ "sub" \in Operations
      BY <3>2 DEF IsTerm, Operations
    <3> QED BY <2>4, <3>3, <3>4, <3>5, <3>6, <3>7, BuildArith
  <2>8. CASE tree[n].kind = "bexpr"
    <3>1. PICK a : a = genIRExpr[Kids(n)[1]][k]
      OBVIOUS
    <3>2. DOMAIN Kids(n) = {1, 2}
      BY <1>0, <2>8, ExprFacts
    <3>3. IsTerm(a, k)
      BY <2>2, <3>1, <3>2
    <3>4. PICK l \in Nat : l = Len(a.code)
      BY <3>3 DEF IsTerm, TermCode
    <3>5. PICK b : b = genIRExpr[Kids(n)[2]][k + l]
      OBVIOUS
    <3>6. IsTerm(b, k + l)
      BY <2>2, <3>2, <3>5
    <3>7. e = Build("arith", tree[n].op, a.val, b.val, a.code \o b.code, k)
      BY <1>0, <2>4, <2>8, <3>1, <3>4, <3>5, genIRExprCases
    <3>8. PICK m \in Nat : m = Len(b.code)
      BY <3>6 DEF IsTerm, TermCode
    <3>9. TermCode(a.code \o b.code, k) /\ Len(a.code \o b.code) = l + m
      BY <3>3, <3>4, <3>6, <3>8, TermCodeJoin DEF IsTerm
    <3>10. a.val \in Int /\ OperandIn(a.val, k, l + m) /\ (a.val < 0 => a.code = <<>>)
      <4>1. l + m \in Nat /\ Len(a.code) <= l + m
        BY <3>4
      <4> QED BY <3>3, <4>1, ValueIn
    <3>11. b.val \in Int /\ OperandIn(b.val, k + l, m) /\ (b.val < 0 => b.code = <<>>)
      BY <3>4, <3>6, <3>8, ValueIn
    <3>12. OperandIn(b.val, k, l + m)
      BY <3>11 DEF OperandIn
    <3>13. a.val < 0 /\ b.val < 0 => a.code \o b.code = <<>>
      BY <3>10, <3>11
    <3>14. tree[n].op \in Operations
      BY <1>0, <2>8, NodeFacts
    <3>15. PICK c : c = a.code \o b.code
      OBVIOUS
    <3> QED BY <2>4, <3>7, <3>9, <3>10, <3>11, <3>12, <3>13, <3>14, <3>15, BuildArith
  <2> QED BY <2>3, <2>4, <2>5, <2>6, <2>7, <2>8
<1>2. \A n \in Exprs : (\A i \in DOMAIN Kids(n) : Kids(n)[i] \in P) => n \in P
  BY <1>1
<1>3. Exprs \subseteq P
  <2> HIDE DEF P
  <2> QED BY <1>0, <1>2, ExprInduction
<1> QED BY <1>3 DEF TermNodes

-----------------------------------------------------------------------------

\* The code of a condition: two terms, and the comparison of their values.
CondCode(e, k) ==
  \/ e.code = <<>> /\ IsWord(e.val)
  \/ \E c, i : /\ TermCode(c, k) /\ e.code = Append(c, i) /\ e.val = k + Len(c) + 1
               /\ i = Instr("icmp", i.args, i.sym, <<>>)
               /\ \E a, b \in Int : /\ i.args = <<a, b>>
                                    /\ OperandIn(a, k, Len(c)) /\ OperandIn(b, k, Len(c))
               /\ \E p \in Predicates : i.sym = <<p>>

\* The code of a condition ends in its comparison, unless that is a constant.
LEMMA CondsCode ==
  ASSUME Prepared, NEW n \in Conds, NEW k \in Nat
  PROVE  CondCode(genIRExpr[n][k], k)
<1>0. WellFormedTree(tree) /\ n \in Exprs /\ tree[n].kind = "rexpr"
  BY DEF Prepared, Conds
<1>1. PICK a : a = genIRExpr[Kids(n)[1]][k]
  OBVIOUS
<1>2. Kids(n)[1] \in TermNodes /\ Kids(n)[2] \in TermNodes
  BY <1>0, ExprFacts DEF TermNodes
<1>3. IsTerm(a, k)
  BY <1>1, <1>2, TermsCode
<1>4. PICK l \in Nat : l = Len(a.code)
  BY <1>3 DEF IsTerm, TermCode
<1>5. PICK b : b = genIRExpr[Kids(n)[2]][k + l]
  OBVIOUS
<1>6. IsTerm(b, k + l)
  BY <1>2, <1>5, TermsCode
<1>7. PICK e : e = genIRExpr[n][k]
  OBVIOUS
<1>8. PICK c : c = a.code \o b.code
  OBVIOUS
<1>9. e = Build("icmp", tree[n].op, a.val, b.val, c, k)
  BY <1>0, <1>1, <1>4, <1>5, <1>7, <1>8, genIRExprCases
<1>10. PICK m \in Nat : m = Len(b.code)
  BY <1>6 DEF IsTerm, TermCode
<1>11. TermCode(c, k) /\ Len(c) = l + m
  <2>1. TermCode(a.code, k) /\ TermCode(b.code, k + Len(a.code))
    BY <1>3, <1>4, <1>6 DEF IsTerm
  <2>2. TermCode(a.code \o b.code, k) /\ Len(a.code \o b.code) = Len(a.code) + Len(b.code)
    BY <2>1, TermCodeJoin
  <2> QED BY <1>4, <1>8, <1>10, <2>2
<1>12. a.val \in Int /\ OperandIn(a.val, k, l + m) /\ (a.val < 0 => a.code = <<>>)
  <2>1. l + m \in Nat /\ Len(a.code) <= l + m
    BY <1>4
  <2> QED BY <1>3, <2>1, ValueIn
<1>13. b.val \in Int /\ OperandIn(b.val, k + l, m) /\ (b.val < 0 => b.code = <<>>)
  BY <1>6, <1>10, ValueIn
<1>14. OperandIn(b.val, k, l + m)
  BY <1>13 DEF OperandIn
<1>15. a.val < 0 /\ b.val < 0 => c = <<>>
  BY <1>8, <1>12, <1>13
<1>16. tree[n].op \in Predicates
  BY <1>0, NodeFacts
<1>17. CASE a.val < 0 /\ b.val < 0
  <2>1. PICK w \in {0, 1} : e = [code |-> c, val |-> Constant(w)]
    BY <1>9, <1>17 DEF Build
  <2>2. w \in Word
    BY ModulusAssumption DEF Word
  <2>3. IsWord(Constant(w))
    BY <2>2, WordFacts
  <2> QED BY <1>7, <1>15, <1>17, <2>1, <2>3 DEF CondCode
<1>18. CASE ~(a.val < 0 /\ b.val < 0)
  <2>1. PICK i : i = Instr("icmp", <<a.val, b.val>>, <<tree[n].op>>, <<>>)
    OBVIOUS
  <2>2. e = [code |-> Append(c, i), val |-> k + Len(c) + 1]
    BY <1>9, <1>18, <2>1 DEF Build
  <2>3. i.args = <<a.val, b.val>> /\ i.sym = <<tree[n].op>>
    BY <2>1 DEF Instr
  <2>4. i = Instr("icmp", i.args, i.sym, <<>>)
    BY <2>1, <2>3
  <2>5. e.code = Append(c, i) /\ e.val = k + Len(c) + 1
    BY <2>2
  <2>6. OperandIn(a.val, k, Len(c)) /\ OperandIn(b.val, k, Len(c))
    BY <1>11, <1>12, <1>14
  <2> QED BY <1>7, <1>11, <1>12, <1>13, <1>16, <2>3, <2>4, <2>5, <2>6 DEF CondCode
<1> QED BY <1>17, <1>18

LEMMA ReadCode ==
  ASSUME Prepared, NEW n \in Exprs, tree[n].kind = "read", NEW k \in Nat
  PROVE  genIRExpr[n][k] = [code |-> <<Instr("read", <<>>, <<"">>, <<>>)>>, val |-> k + 1]
BY genIRExprCases DEF Prepared

-----------------------------------------------------------------------------

\* An instruction by itself.
Fits(i) ==
  /\ i.op \in {"load", "read", "br"} => i.args = <<>>
  /\ i.op \in {"store", "print", "condbr", "ret"} => Len(i.args) = 1
  /\ i.op \in {"arith", "icmp"} => Len(i.args) = 2
  /\ i.op = "br" => Len(i.succ) = 1
  /\ i.op = "condbr" => Len(i.succ) = 2
  /\ i.op \notin {"br", "condbr"} => i.succ = <<>>
  /\ i.op \in {"load", "store"} => i.sym \in Allocas
  /\ i.op = "arith" => \E o \in Operations : i.sym = <<o>>
  /\ i.op = "icmp" => \E p \in Predicates : i.sym = <<p>>

PureOps == {"load", "arith", "icmp", "read"}

\* Operand v of instruction j of code s: where there are k instructions before it, and
\* the operand is not among those, and where the instruction uses it.
OperandFits(s, j, v, k) ==
  /\ v < 0 => WordOf(v) \in Word
  /\ v = 0 => s[j].op = "store"
  /\ v > 0 => /\ v - k \in 1 .. j - 1
              /\ s[v - k].bb = s[j].bb /\ s[v - k].op \in PureOps
              /\ s[v - k].op = "icmp" => s[j].op = "condbr"

UsedNext(s, j, k, op) ==
  j + 1 \in DOMAIN s /\ s[j + 1].op = op /\ s[j + 1].args = <<k + j>> /\ s[j + 1].bb = s[j].bb

InstrFits(s, j, k) ==
  /\ Fits(s[j])
  /\ \A i \in DOMAIN s[j].args : OperandFits(s, j, s[j].args[i], k)
  /\ s[j].op = "read" => UsedNext(s, j, k, "store")
  /\ s[j].op = "icmp" => UsedNext(s, j, k, "condbr")
  /\ s[j].op = "condbr" =>
       s[j].args[1] < 0 \/ (j > 1 /\ s[j - 1].op = "icmp" /\ s[j].args[1] = k + (j - 1))

\* Code that is built after k instructions.
GoodCode(s, k) == s \in Seq(Built) /\ \A j \in DOMAIN s : InstrFits(s, j, k)

\* Code with a block.
LEMMA InFacts ==
  ASSUME NEW b \in Nat, NEW c \in Seq(Built)
  PROVE  /\ In(b, c) \in Seq(Built) /\ Len(In(b, c)) = Len(c) /\ DOMAIN In(b, c) = DOMAIN c
         /\ \A j \in DOMAIN c : /\ In(b, c)[j].op = c[j].op /\ In(b, c)[j].args = c[j].args
                                /\ In(b, c)[j].sym = c[j].sym /\ In(b, c)[j].succ = c[j].succ
                                /\ In(b, c)[j].bb = b
<1>1. PICK l \in Nat : Len(c) = l /\ DOMAIN c = 1 .. l
  OBVIOUS
<1>2. \A j \in DOMAIN c : c[j] \in Built
  OBVIOUS
<1>3. In(b, c) = [j \in 1 .. l |-> [c[j] EXCEPT !.bb = b]]
  BY <1>1 DEF In
<1>4. \A j \in 1 .. l : [c[j] EXCEPT !.bb = b] \in Built
  BY <1>1, <1>2 DEF Built
<1>5. In(b, c) \in Seq(Built)
  BY <1>1, <1>3, <1>4
<1>6. Len(In(b, c)) = l /\ DOMAIN In(b, c) = 1 .. l
  BY <1>1, <1>3, <1>5
<1>7. ASSUME NEW j \in 1 .. l
      PROVE  LET i == [c[j] EXCEPT !.bb = b] IN
               i.op = c[j].op /\ i.args = c[j].args /\ i.sym = c[j].sym /\
                  i.succ = c[j].succ /\ i.bb = b
  BY <1>1, <1>2 DEF Built
<1> QED BY <1>1, <1>3, <1>5, <1>6, <1>7

\* Code stays good when it is put in a block.
LEMMA GoodIn ==
  ASSUME NEW b \in Nat, NEW k \in Nat, NEW c, GoodCode(c, k)
  PROVE  GoodCode(In(b, c), k)
<1>1. c \in Seq(Built)
  BY DEF GoodCode
<1>2. PICK d \in Seq(Built) : d = In(b, c)
  BY <1>1, InFacts
<1>3. PICK l \in Nat : Len(c) = l /\ DOMAIN c = 1 .. l
  BY <1>1
<1>4. /\ DOMAIN d = 1 .. l
      /\ \A j \in 1 .. l : /\ d[j].op = c[j].op /\ d[j].args = c[j].args
                           /\ d[j].sym = c[j].sym /\ d[j].succ = c[j].succ
                           /\ d[j].bb = b
  BY <1>1, <1>2, <1>3, InFacts
<1>5. ASSUME NEW j \in 1 .. l PROVE InstrFits(d, j, k)
  <2>1. InstrFits(c, j, k)
    BY <1>3 DEF GoodCode
  <2>2. Fits(d[j])
    BY <1>4, <2>1 DEF InstrFits, Fits
  <2>3. ASSUME NEW i \in DOMAIN d[j].args PROVE OperandFits(d, j, d[j].args[i], k)
    <3>0. c[j] \in Built
      BY <1>1, <1>3
    <3>1. c[j].args \in Seq(Int) /\ d[j].args = c[j].args
      BY <1>4, <3>0 DEF Built
    <3>2. PICK v \in Int : v = c[j].args[i] /\ v = d[j].args[i]
      BY <2>3, <3>1
    <3>3. OperandFits(c, j, v, k)
      BY <2>1, <2>3, <3>1, <3>2 DEF InstrFits
    <3>4. v > 0 => v - k \in 1 .. l
      BY <3>3 DEF OperandFits
    <3> QED BY <1>4, <3>2, <3>3, <3>4 DEF OperandFits
  <2>4. \A op : UsedNext(c, j, k, op) => UsedNext(d, j, k, op)
    BY <1>3, <1>4 DEF UsedNext
  <2>5. j > 1 => j - 1 \in 1 .. l
    OBVIOUS
  <2> QED BY <1>4, <2>1, <2>2, <2>3, <2>4, <2>5 DEF InstrFits
<1> QED BY <1>2, <1>4, <1>5 DEF GoodCode

\* Good code after good code is good.
LEMMA GoodJoin ==
  ASSUME NEW k \in Nat, NEW c, NEW d, GoodCode(c, k), GoodCode(d, k + Len(c))
  PROVE  GoodCode(c \o d, k)
<1>1. c \in Seq(Built) /\ d \in Seq(Built)
  BY DEF GoodCode
<1>2. PICK l \in Nat : l = Len(c) /\ DOMAIN c = 1 .. l
  BY <1>1
<1>3. PICK m \in Nat : m = Len(d) /\ DOMAIN d = 1 .. m
  BY <1>1
<1>4. PICK s \in Seq(Built) : s = c \o d /\ Len(s) = l + m /\ DOMAIN s = 1 .. l + m
  <2>1. c \o d \in Seq(Built) /\ Len(c \o d) = l + m
    BY <1>1, <1>2, <1>3
  <2>2. DOMAIN (c \o d) = 1 .. l + m
    <3>1. PICK s \in Seq(Built) : s = c \o d
      BY <2>1
    <3>2. Len(s) = l + m
      BY <2>1, <3>1
    <3> QED BY <3>1, <3>2
  <2> QED BY <2>1, <2>2
<1>5. /\ \A j \in 1 .. l : s[j] = c[j]
      /\ \A j \in 1 .. m : s[l + j] = d[j]
  BY <1>1, <1>2, <1>3, <1>4
<1>6. ASSUME NEW j \in 1 .. l PROVE InstrFits(s, j, k)
  <2>1. InstrFits(c, j, k) /\ s[j] = c[j] /\ s[j].args \in Seq(Int)
    <3>1. s[j] \in Built
      BY <1>4
    <3> QED BY <1>2, <1>5, <3>1 DEF GoodCode, Built
  <2>2. ASSUME NEW i \in DOMAIN s[j].args PROVE OperandFits(s, j, s[j].args[i], k)
    <3>1. PICK v \in Int : v = s[j].args[i]
      BY <2>1, <2>2
    <3>2. OperandFits(c, j, v, k)
      BY <2>1, <2>2, <3>1 DEF InstrFits
    <3>3. v > 0 => v - k \in 1 .. l
      BY <3>2 DEF OperandFits
    <3> QED BY <1>5, <2>1, <3>1, <3>2, <3>3 DEF OperandFits
  <2>3. \A op : UsedNext(c, j, k, op) => UsedNext(s, j, k, op)
    <3>1. j + 1 \in DOMAIN c => j + 1 \in 1 .. l /\ j + 1 \in DOMAIN s
      BY <1>2, <1>4
    <3> QED BY <1>5, <2>1, <3>1 DEF UsedNext
  <2>4. j > 1 => j - 1 \in 1 .. l
    OBVIOUS
  <2> QED BY <1>5, <2>1, <2>2, <2>3, <2>4 DEF InstrFits
<1>7. ASSUME NEW j \in 1 .. m PROVE InstrFits(s, l + j, k)
  <2>1. InstrFits(d, j, k + l) /\ s[l + j] = d[j] /\ s[l + j].args \in Seq(Int)
    <3>1. d[j] \in Built
      BY <1>1, <1>3
    <3> QED BY <1>2, <1>3, <1>5, <3>1 DEF GoodCode, Built
  <2>2. ASSUME NEW i \in DOMAIN s[l + j].args PROVE OperandFits(s, l + j, s[l + j].args[i], k)
    <3>1. PICK v \in Int : v = s[l + j].args[i]
      BY <2>1, <2>2
    <3>2. OperandFits(d, j, v, k + l)
      BY <2>1, <2>2, <3>1 DEF InstrFits
    <3>3. v > 0 => /\ v - (k + l) \in 1 .. j - 1 /\ v - (k + l) \in 1 .. m
                   /\ v - k \in 1 .. (l + j) - 1 /\ v - k = l + (v - (k + l))
      BY <3>2 DEF OperandFits
    <3>4. v > 0 => s[v - k] = d[v - (k + l)]
      BY <1>5, <3>3
    <3> QED BY <2>1, <3>1, <3>2, <3>3, <3>4 DEF OperandFits
  <2>3. ASSUME NEW op, UsedNext(d, j, k + l, op) PROVE UsedNext(s, l + j, k, op)
    <3>1. j + 1 \in 1 .. m /\ (l + j) + 1 \in DOMAIN s /\ (l + j) + 1 = l + (j + 1)
      BY <1>3, <1>4, <2>3 DEF UsedNext
    <3>2. s[(l + j) + 1] = d[j + 1] /\ (k + l) + j = k + (l + j)
      BY <1>5, <3>1
    <3> QED BY <2>1, <2>3, <3>1, <3>2 DEF UsedNext
  <2>4. j > 1 => /\ j - 1 \in 1 .. m /\ (l + j) - 1 = l + (j - 1) /\ l + j > 1
                 /\ (k + l) + (j - 1) = k + ((l + j) - 1)
    OBVIOUS
  <2>5. j > 1 => s[(l + j) - 1] = d[j - 1]
    BY <1>5, <2>4
  <2> QED BY <2>1, <2>2, <2>3, <2>4, <2>5 DEF InstrFits
<1>8. ASSUME NEW j \in DOMAIN s PROVE InstrFits(s, j, k)
  <2>1. CASE j <= l
    BY <1>4, <1>6, <2>1
  <2>2. CASE j > l
    <3>1. PICK n \in 1 .. m : j = l + n
      <4>1. j - l \in 1 .. m /\ j = l + (j - l)
        BY <1>4, <2>2
      <4> QED BY <4>1
    <3> QED BY <1>7, <3>1
  <2> QED BY <1>4, <2>1, <2>2
<1> QED BY <1>4, <1>8 DEF GoodCode

-----------------------------------------------------------------------------

\* Code without a terminator, and code whose last instruction is its only one.
Straight(c) == \A j \in DOMAIN c : c[j].op \notin Terminators

Ended(c) ==
  \E d, i : /\ c = Append(d, i) /\ d \in Seq(Built) /\ i \in Built
            /\ Straight(d) /\ i.op \in Terminators

\* One more instruction.
LEMMA AppendFacts ==
  ASSUME NEW c \in Seq(Built), NEW i \in Built, NEW l \in Nat, l = Len(c)
  PROVE  /\ Append(c, i) \in Seq(Built) /\ DOMAIN c = 1 .. l /\ DOMAIN Append(c, i) = 1 .. l + 1
         /\ Len(Append(c, i)) = l + 1
         /\ Append(c, i)[l + 1] = i /\ \A j \in 1 .. l : Append(c, i)[j] = c[j]
<1>1. Append(c, i) \in Seq(Built) /\ Len(Append(c, i)) = l + 1
  OBVIOUS
<1>2. PICK s \in Seq(Built) : s = Append(c, i)
  BY <1>1
<1>3. DOMAIN s = 1 .. l + 1
  BY <1>1, <1>2
<1> QED BY <1>1, <1>2, <1>3

LEMMA InstrFields ==
  ASSUME NEW op, NEW a, NEW x, NEW t
  PROVE  LET i == Instr(op, a, x, t) IN
           i.op = op /\ i.args = a /\ i.sym = x /\ i.succ = t /\ i.bb = 0
BY DEF Instr

\* What is known of an instruction of a term.
LEMMA TermInstr ==
  ASSUME NEW k \in Nat, NEW c, TermCode(c, k), NEW j \in DOMAIN c
  PROVE  /\ c[j].bb = 0 /\ c[j].op \in {"load", "arith"} /\ Fits(c[j])
         /\ \A n \in DOMAIN c[j].args : OperandIn(c[j].args[n], k, j - 1)
<1>1. CASE Loads(c[j])
  <2>1. PICK x \in Vars : c[j] = Instr("load", <<>>, x, <<>>)
    BY <1>1 DEF Loads
  <2>2. c[j].op = "load" /\ c[j].args = <<>> /\ c[j].sym = x /\ c[j].succ = <<>> /\ c[j].bb = 0
    BY <2>1, InstrFields
  <2>3. x \in Allocas
    BY DEF Vars, Allocas
  <2>4. DOMAIN c[j].args = {}
    BY <2>2
  <2> QED BY <2>2, <2>3, <2>4 DEF Fits
<1>2. CASE Arithmetic(c[j], k, j - 1)
  <2>1. c[j].op = "arith" /\ c[j].succ = <<>> /\ c[j].bb = 0
    BY <1>2, InstrFields DEF Arithmetic
  <2>2. PICK a, b \in Int : /\ c[j].args = <<a, b>>
                            /\ OperandIn(a, k, j - 1) /\ OperandIn(b, k, j - 1)
    BY <1>2 DEF Arithmetic
  <2>3. \E o \in Operations : c[j].sym = <<o>>
    BY <1>2 DEF Arithmetic
  <2>4. Len(c[j].args) = 2 /\ \A n \in DOMAIN c[j].args : c[j].args[n] \in {a, b}
    BY <2>2
  <2> QED BY <2>1, <2>2, <2>3, <2>4 DEF Fits
<1> QED BY <1>1, <1>2 DEF TermCode

LEMMA TermGood ==
  ASSUME NEW k \in Nat, NEW c, TermCode(c, k)
  PROVE  GoodCode(c, k) /\ Straight(c)
<1>1. PICK l \in Nat : l = Len(c) /\ DOMAIN c = 1 .. l /\ c \in Seq(Built)
  BY DEF TermCode
<1>2. ASSUME NEW j \in 1 .. l PROVE InstrFits(c, j, k)
  <2>1. /\ c[j].bb = 0 /\ c[j].op \in {"load", "arith"} /\ Fits(c[j])
        /\ \A n \in DOMAIN c[j].args : OperandIn(c[j].args[n], k, j - 1)
    BY <1>1, TermInstr
  <2>2. ASSUME NEW n \in DOMAIN c[j].args PROVE OperandFits(c, j, c[j].args[n], k)
    <3>1. PICK v : v = c[j].args[n]
      OBVIOUS
    <3>2. IsWord(v) \/ (v \in Int /\ k < v /\ v <= k + (j - 1))
      BY <2>1, <3>1 DEF OperandIn
    <3>3. CASE IsWord(v)
      BY <3>1, <3>3 DEF OperandFits, IsWord
    <3>4. CASE v \in Int /\ k < v /\ v <= k + (j - 1)
      <4>1. v - k \in 1 .. j - 1 /\ v - k \in 1 .. l /\ v > 0
        BY <3>4
      <4>2. c[v - k].bb = 0 /\ c[v - k].op \in {"load", "arith"}
        BY <1>1, <4>1, TermInstr
      <4> QED BY <2>1, <3>1, <3>4, <4>1, <4>2 DEF OperandFits, PureOps
    <3> QED BY <3>2, <3>3, <3>4
  <2> QED BY <2>1, <2>2 DEF InstrFits
<1>3. Straight(c)
  BY TermInstr DEF Straight, Terminators
<1> QED BY <1>1, <1>2, <1>3 DEF GoodCode

\* A term, and an instruction that uses its value or none.
LEMMA TermThen ==
  ASSUME NEW k \in Nat, NEW c, TermCode(c, k), NEW i \in Built, Fits(i), i.bb = 0,
         i.op \notin {"read", "icmp"},
         \A n \in DOMAIN i.args : OperandIn(i.args[n], k, Len(c)),
         i.op = "condbr" => i.args[1] < 0
  PROVE  GoodCode(Append(c, i), k)
<1>1. PICK l \in Nat : l = Len(c) /\ DOMAIN c = 1 .. l /\ c \in Seq(Built)
  BY DEF TermCode
<1>2. PICK s \in Seq(Built) : /\ s = Append(c, i) /\ DOMAIN s = 1 .. l + 1
                              /\ s[l + 1] = i /\ \A j \in 1 .. l : s[j] = c[j]
  <2>1. /\ Append(c, i) \in Seq(Built) /\ DOMAIN Append(c, i) = 1 .. l + 1
        /\ Append(c, i)[l + 1] = i /\ \A j \in 1 .. l : Append(c, i)[j] = c[j]
    BY <1>1, AppendFacts
  <2> QED BY <2>1
<1>3. ASSUME NEW j \in 1 .. l PROVE InstrFits(s, j, k)
  <2>1. InstrFits(c, j, k) /\ c[j].op \in {"load", "arith"} /\ s[j] = c[j]
    BY <1>1, <1>2, TermGood, TermInstr DEF GoodCode
  <2>2. ASSUME NEW n \in DOMAIN s[j].args PROVE OperandFits(s, j, s[j].args[n], k)
    <3>1. c[j] \in Built
      BY <1>1
    <3>2. c[j].args \in Seq(Int)
      BY <3>1 DEF Built
    <3>3. PICK v \in Int : v = c[j].args[n]
      BY <2>1, <2>2, <3>2
    <3>4. OperandFits(c, j, v, k)
      BY <2>1, <2>2, <3>3 DEF InstrFits
    <3>5. v > 0 => v - k \in 1 .. l
      BY <3>4 DEF OperandFits
    <3> QED BY <1>2, <2>1, <3>3, <3>4, <3>5 DEF OperandFits
  <2> QED BY <2>1, <2>2 DEF InstrFits
<1>4. InstrFits(s, l + 1, k)
  <2>1. ASSUME NEW n \in DOMAIN i.args PROVE OperandFits(s, l + 1, i.args[n], k)
    <3>1. PICK v : v = i.args[n]
      OBVIOUS
    <3>2. IsWord(v) \/ (v \in Int /\ k < v /\ v <= k + l)
      BY <1>1, <3>1 DEF OperandIn
    <3>3. CASE IsWord(v)
      BY <3>1, <3>3 DEF OperandFits, IsWord
    <3>4. CASE v \in Int /\ k < v /\ v <= k + l
      <4>1. v - k \in 1 .. (l + 1) - 1 /\ v - k \in 1 .. l /\ v > 0
        BY <3>4
      <4>2. s[v - k].bb = 0 /\ s[v - k].op \in {"load", "arith"}
        BY <1>1, <1>2, <4>1, TermInstr
      <4>3. s[l + 1].bb = 0
        BY <1>2
      <4> QED BY <3>1, <3>4, <4>1, <4>2, <4>3 DEF OperandFits, PureOps
    <3> QED BY <3>2, <3>3, <3>4
  <2> QED BY <1>2, <2>1 DEF InstrFits
<1>5. \A j \in 1 .. l + 1 : j = l + 1 \/ j \in 1 .. l
  OBVIOUS
<1> QED BY <1>2, <1>3, <1>4, <1>5 DEF GoodCode

\* A condition and its branch.
LEMMA CondThen ==
  ASSUME NEW k \in Nat, NEW e, CondCode(e, k), NEW t \in Nat, NEW f \in Nat
  PROVE  /\ GoodCode(Append(e.code, CondBr(e.val, t, f)), k)
         /\ Ended(Append(e.code, CondBr(e.val, t, f)))
         /\ e.val \in Int /\ e.code \in Seq(Built) /\ CondBr(e.val, t, f) \in Built
         /\ Straight(e.code)
<1>1. PICK i : i = CondBr(e.val, t, f)
  OBVIOUS
<1>2. /\ i.op = "condbr" /\ i.args = <<e.val>> /\ i.succ = <<t, f>> /\ i.sym = <<"">> /\ i.bb = 0
      /\ Len(i.args) = 1 /\ Len(i.succ) = 2 /\ i.args[1] = e.val /\ DOMAIN i.args = {1}
  <2>1. /\ i.op = "condbr" /\ i.args = <<e.val>> /\ i.succ = <<t, f>>
        /\ i.sym = <<"">> /\ i.bb = 0
    BY <1>1 DEF CondBr, Instr
  <2>2. Len(<<e.val>>) = 1 /\ Len(<<t, f>>) = 2 /\ <<e.val>>[1] = e.val /\ DOMAIN <<e.val>> = {1}
    OBVIOUS
  <2> QED BY <2>1, <2>2
<1>3. e.val \in Int
  BY DEF CondCode, IsWord, TermCode
<1>4. i \in Built /\ Fits(i)
  <2>1. <<e.val>> \in Seq(Int)
    BY <1>3
  <2>2. <<t, f>> \in Seq(Nat)
    OBVIOUS
  <2>3. <<"">> \in AllSyms /\ "condbr" \in AllOps
    BY BuiltFacts DEF Operators, AllOps
  <2>4. i = Instr("condbr", <<e.val>>, <<"">>, <<t, f>>)
    BY <1>1 DEF CondBr
  <2> QED BY <1>2, <2>1, <2>2, <2>3, <2>4, BuiltFacts DEF Fits
<1>5. CASE e.code = <<>> /\ IsWord(e.val)
  <2>1. TermCode(<<>>, k)
    BY DEF TermCode
  <2>2. GoodCode(Append(<<>>, i), k)
    <3>1. \A n \in DOMAIN i.args : OperandIn(i.args[n], k, Len(<<>>))
      BY <1>2, <1>5 DEF OperandIn
    <3> QED BY <1>2, <1>4, <1>5, <2>1, <3>1, TermThen DEF IsWord
  <2>3. Straight(<<>>) /\ <<>> \in Seq(Built)
    BY DEF Straight
  <2> QED BY <1>1, <1>2, <1>3, <1>4, <1>5, <2>2, <2>3 DEF Ended, Terminators
<1>6. ASSUME NEW c, NEW h, TermCode(c, k), e.code = Append(c, h), e.val = k + Len(c) + 1,
             h = Instr("icmp", h.args, h.sym, <<>>),
             NEW a \in Int, NEW b \in Int,
             h.args = <<a, b>>, OperandIn(a, k, Len(c)), OperandIn(b, k, Len(c)),
             NEW p \in Predicates, h.sym = <<p>>
      PROVE  GoodCode(Append(e.code, i), k) /\ e.code \in Seq(Built) /\ Straight(e.code)
  <2>1. PICK l \in Nat : l = Len(c) /\ DOMAIN c = 1 .. l /\ c \in Seq(Built)
    BY <1>6 DEF TermCode
  <2>2. h.op = "icmp" /\ h.succ = <<>> /\ h.bb = 0
    BY <1>6, InstrFields
  <2>3. h \in Built /\ Fits(h)
    <3>1. <<a, b>> \in Seq(Int) /\ Len(<<a, b>>) = 2
      OBVIOUS
    <3>2. <<>> \in Seq(Nat)
      OBVIOUS
    <3>3. "icmp" \in AllOps /\ <<p>> \in AllSyms
      BY BuiltFacts DEF AllOps, Operators, Predicates
    <3> QED BY <1>6, <2>2, <3>1, <3>2, <3>3, BuiltFacts DEF Fits
  <2>4. PICK d \in Seq(Built) : /\ d = Append(c, h) /\ Len(d) = l + 1 /\ DOMAIN d = 1 .. l + 1
                                /\ d[l + 1] = h /\ \A j \in 1 .. l : d[j] = c[j]
    <3>1. /\ Append(c, h) \in Seq(Built) /\ DOMAIN Append(c, h) = 1 .. l + 1
          /\ Len(Append(c, h)) = l + 1
          /\ Append(c, h)[l + 1] = h /\ \A j \in 1 .. l : Append(c, h)[j] = c[j]
      BY <2>1, <2>3, AppendFacts
    <3> QED BY <3>1
  <2>5. l + 1 \in Nat /\ (l + 1) + 1 = l + 2
    OBVIOUS
  <2>6. PICK s \in Seq(Built) : /\ s = Append(d, i) /\ DOMAIN s = 1 .. l + 2
                                /\ s[l + 2] = i /\ \A j \in 1 .. l + 1 : s[j] = d[j]
    <3>1. PICK m \in Nat : m = l + 1 /\ m + 1 = l + 2
      BY <2>5
    <3>2. /\ Append(d, i) \in Seq(Built) /\ DOMAIN Append(d, i) = 1 .. m + 1
          /\ Append(d, i)[m + 1] = i /\ \A j \in 1 .. m : Append(d, i)[j] = d[j]
      BY <1>4, <2>4, <3>1, AppendFacts
    <3> QED BY <3>1, <3>2
  <2>7. \A j \in 1 .. l : s[j] = c[j]
    BY <2>4, <2>6
  <2>8. s[l + 1] = h
    BY <2>4, <2>6
  <2>9. ASSUME NEW j \in 1 .. l PROVE InstrFits(s, j, k)
    <3>1. InstrFits(c, j, k) /\ c[j].op \in {"load", "arith"} /\ s[j] = c[j]
      BY <1>6, <2>1, <2>7, TermGood, TermInstr DEF GoodCode
    <3>2. ASSUME NEW n \in DOMAIN s[j].args PROVE OperandFits(s, j, s[j].args[n], k)
      <4>1. c[j] \in Built
        BY <2>1
      <4>2. c[j].args \in Seq(Int)
        BY <4>1 DEF Built
      <4>3. PICK v \in Int : v = c[j].args[n]
        BY <3>1, <3>2, <4>2
      <4>4. OperandFits(c, j, v, k)
        BY <3>1, <3>2, <4>3 DEF InstrFits
      <4>5. v > 0 => v - k \in 1 .. l
        BY <4>4 DEF OperandFits
      <4> QED BY <2>7, <3>1, <4>3, <4>4, <4>5 DEF OperandFits
    <3> QED BY <3>1, <3>2 DEF InstrFits
  <2>10. InstrFits(s, l + 1, k)
    <3>1. ASSUME NEW n \in DOMAIN h.args PROVE OperandFits(s, l + 1, h.args[n], k)
      <4>1. PICK v : v = h.args[n]
        OBVIOUS
      <4>2. v \in {a, b}
        BY <1>6, <3>1, <4>1
      <4>3. IsWord(v) \/ (v \in Int /\ k < v /\ v <= k + l)
        BY <1>6, <2>1, <4>2 DEF OperandIn
      <4>4. CASE IsWord(v)
        BY <4>1, <4>4 DEF OperandFits, IsWord
      <4>5. CASE v \in Int /\ k < v /\ v <= k + l
        <5>1. v - k \in 1 .. (l + 1) - 1 /\ v - k \in 1 .. l /\ v > 0
          BY <4>5
        <5>2. s[v - k].bb = 0 /\ s[v - k].op \in {"load", "arith"}
          BY <1>6, <2>1, <2>7, <5>1, TermInstr
        <5> QED BY <2>2, <2>8, <4>1, <4>5, <5>1, <5>2 DEF OperandFits, PureOps
      <4> QED BY <4>3, <4>4, <4>5
    <3>2. UsedNext(s, l + 1, k, "condbr")
      <4>1. e.val = k + (l + 1)
        BY <1>6, <2>1
      <4>2. (l + 1) + 1 \in DOMAIN s /\ s[(l + 1) + 1] = i
        BY <2>5, <2>6
      <4> QED BY <1>2, <2>2, <2>8, <4>1, <4>2 DEF UsedNext
    <3> QED BY <2>2, <2>3, <2>8, <3>1, <3>2 DEF InstrFits
  <2>11. InstrFits(s, l + 2, k)
    <3>1. e.val = k + (l + 1) /\ e.val > 0 /\ e.val - k = l + 1 /\ l + 1 \in 1 .. (l + 2) - 1
      BY <1>6, <2>1
    <3>2. OperandFits(s, l + 2, e.val, k)
      <4>1. PICK v \in Int : v = e.val
        BY <1>3
      <4>2. s[v - k] = h /\ s[l + 2].op = "condbr" /\ s[l + 2].bb = 0
        BY <1>2, <2>6, <2>8, <3>1, <4>1
      <4> QED BY <2>2, <3>1, <4>1, <4>2 DEF OperandFits, PureOps
    <3>3. (l + 2) - 1 = l + 1 /\ l + 2 > 1
      OBVIOUS
    <3>4. \A n \in DOMAIN i.args : i.args[n] = e.val
      BY <1>2
    <3> QED BY <1>2, <1>4, <2>2, <2>6, <2>8, <3>1, <3>2, <3>3, <3>4 DEF InstrFits
  <2>12. \A j \in 1 .. l + 2 : j = l + 2 \/ j = l + 1 \/ j \in 1 .. l
    OBVIOUS
  <2>13. GoodCode(s, k)
    BY <2>6, <2>9, <2>10, <2>11, <2>12 DEF GoodCode
  <2>14. ASSUME NEW j \in DOMAIN d PROVE d[j].op \notin Terminators
    <3>1. CASE j = l + 1
      BY <2>2, <2>4, <3>1 DEF Terminators
    <3>2. CASE j # l + 1
      <4>1. j \in 1 .. l
        BY <2>4, <3>2
      <4>2. c[j].op \in {"load", "arith"}
        BY <1>6, <2>1, <4>1, TermInstr
      <4> QED BY <2>4, <4>1, <4>2 DEF Terminators
    <3> QED BY <3>1, <3>2
  <2> QED BY <1>6, <2>4, <2>6, <2>13, <2>14 DEF Straight
<1>7. CASE ~(e.code = <<>> /\ IsWord(e.val))
  <2>1. GoodCode(Append(e.code, i), k) /\ e.code \in Seq(Built) /\ Straight(e.code)
    BY <1>6, <1>7 DEF CondCode
  <2> QED BY <1>1, <1>2, <1>3, <1>4, <2>1 DEF Ended, Terminators
<1> QED BY <1>5, <1>7

LEMMA BuiltStmt ==
  ASSUME NEW v \in Int, NEW x \in Allocas, NEW b \in Nat, Prepared
  PROVE  /\ Store(v, x) \in Built /\ Fits(Store(v, x)) /\ Store(v, x).op = "store"
         /\ Store(v, x).args = <<v>> /\ Store(v, x).bb = 0 /\ Store(v, x).succ = <<>>
         /\ Br(b) \in Built /\ Fits(Br(b)) /\ Br(b).op = "br"
         /\ Br(b).args = <<>> /\ Br(b).bb = 0 /\ Br(b).succ = <<b>>
<1>1. PICK i : i = Store(v, x)
  OBVIOUS
<1>2. /\ i.op = "store" /\ i.args = <<v>> /\ i.sym = x /\ i.succ = <<>> /\ i.bb = 0
      /\ i = Instr("store", <<v>>, x, <<>>)
  BY <1>1 DEF Store, Instr
<1>3. <<v>> \in Seq(Int) /\ Len(<<v>>) = 1
  OBVIOUS
<1>4. <<>> \in Seq(Nat)
  OBVIOUS
<1>5. x \in AllSyms /\ "store" \in AllOps /\ "br" \in AllOps
  BY NameFacts, BuiltFacts DEF AllOps
<1>6. i \in Built /\ Fits(i)
  BY <1>2, <1>3, <1>4, <1>5, BuiltFacts DEF Fits
<1>7. PICK j : j = Br(b)
  OBVIOUS
<1>8. /\ j.op = "br" /\ j.args = <<>> /\ j.sym = <<"">> /\ j.succ = <<b>> /\ j.bb = 0
      /\ j = Instr("br", <<>>, <<"">>, <<b>>)
  BY <1>7 DEF Br, Instr
<1>9. <<b>> \in Seq(Nat) /\ Len(<<b>>) = 1
  OBVIOUS
<1>10. <<>> \in Seq(Int)
  OBVIOUS
<1>11. <<"">> \in AllSyms
  BY BuiltFacts DEF Operators
<1>12. j \in Built /\ Fits(j)
  BY <1>5, <1>8, <1>9, <1>10, <1>11, BuiltFacts DEF Fits
<1> QED BY <1>1, <1>2, <1>6, <1>7, <1>8, <1>12

\* A branch alone.
LEMMA BrGood ==
  ASSUME NEW k \in Nat, NEW b \in Nat, Prepared
  PROVE  GoodCode(<<Br(b)>>, k) /\ Ended(<<Br(b)>>)
<1>1. PICK i : i = Br(b)
  OBVIOUS
<1>2. i \in Built /\ Fits(i) /\ i.op = "br" /\ i.args = <<>> /\ i.bb = 0
  <2>1. 0 \in Int /\ ret_ref \in Allocas
    BY DEF Allocas
  <2> QED BY <1>1, <2>1, BuiltStmt
<1>3. TermCode(<<>>, k) /\ Straight(<<>>) /\ <<>> \in Seq(Built)
  BY DEF TermCode, Straight
<1>4. DOMAIN i.args = {}
  BY <1>2
<1>5. GoodCode(Append(<<>>, i), k)
  BY <1>2, <1>3, <1>4, TermThen
<1>6. Append(<<>>, i) = <<i>>
  OBVIOUS
<1> QED BY <1>1, <1>2, <1>3, <1>5, <1>6 DEF Ended, Terminators

\* A term and a store of its value.
LEMMA StoreGood ==
  ASSUME NEW k \in Nat, NEW e, IsTerm(e, k), NEW x \in Allocas, Prepared
  PROVE  /\ GoodCode(Append(e.code, Store(e.val, x)), k)
         /\ Straight(Append(e.code, Store(e.val, x)))
<1>1. PICK l \in Nat : l = Len(e.code) /\ e.code \in Seq(Built)
  BY DEF IsTerm, TermCode
<1>2. e.val \in Int /\ OperandIn(e.val, k, l)
  BY <1>1, ValueIn
<1>3. PICK i : i = Store(e.val, x)
  OBVIOUS
<1>4. i \in Built /\ Fits(i) /\ i.op = "store" /\ i.args = <<e.val>> /\ i.bb = 0
  <2>1. 0 \in Nat
    OBVIOUS
  <2> QED BY <1>2, <1>3, <2>1, BuiltStmt
<1>5. \A n \in DOMAIN i.args : OperandIn(i.args[n], k, Len(e.code))
  BY <1>1, <1>2, <1>4
<1>6. TermCode(e.code, k) /\ Straight(e.code)
  BY TermGood DEF IsTerm
<1>7. GoodCode(Append(e.code, i), k)
  BY <1>4, <1>5, <1>6, TermThen
<1>8. Straight(Append(e.code, i))
  <2>1. DOMAIN e.code = 1 .. l /\ DOMAIN Append(e.code, i) = 1 .. l + 1
        /\ Append(e.code, i)[l + 1] = i /\ \A j \in 1 .. l : Append(e.code, i)[j] = e.code[j]
    BY <1>1, <1>4, AppendFacts
  <2>2. \A j \in 1 .. l + 1 : j = l + 1 \/ j \in 1 .. l
    OBVIOUS
  <2> QED BY <1>4, <1>6, <2>1, <2>2 DEF Straight, Terminators
<1> QED BY <1>3, <1>7, <1>8

LEMMA PrintGood ==
  ASSUME NEW k \in Nat, NEW e, IsTerm(e, k), Prepared
  PROVE  LET c == Append(e.code, Instr("print", <<e.val>>, <<"">>, <<>>)) IN
           GoodCode(c, k) /\ Straight(c)
<1>1. PICK l \in Nat : l = Len(e.code) /\ e.code \in Seq(Built)
  BY DEF IsTerm, TermCode
<1>2. e.val \in Int /\ OperandIn(e.val, k, l)
  BY <1>1, ValueIn
<1>3. PICK i : i = Instr("print", <<e.val>>, <<"">>, <<>>)
  OBVIOUS
<1>4. i.op = "print" /\ i.args = <<e.val>> /\ i.bb = 0 /\ i.succ = <<>>
  BY <1>3 DEF Instr
<1>9. i \in Built /\ Fits(i)
  <2>1. <<e.val>> \in Seq(Int) /\ Len(<<e.val>>) = 1
    BY <1>2
  <2>2. <<>> \in Seq(Nat)
    OBVIOUS
  <2>3. <<"">> \in AllSyms /\ "print" \in AllOps
    BY BuiltFacts DEF AllOps, Operators
  <2> QED BY <1>3, <1>4, <2>1, <2>2, <2>3, BuiltFacts DEF Fits
<1>5. \A n \in DOMAIN i.args : OperandIn(i.args[n], k, Len(e.code))
  BY <1>1, <1>2, <1>4
<1>6. TermCode(e.code, k) /\ Straight(e.code)
  BY TermGood DEF IsTerm
<1>7. GoodCode(Append(e.code, i), k)
  BY <1>4, <1>5, <1>6, <1>9, TermThen
<1>8. Straight(Append(e.code, i))
  <2>1. DOMAIN e.code = 1 .. l /\ DOMAIN Append(e.code, i) = 1 .. l + 1
        /\ Append(e.code, i)[l + 1] = i /\ \A j \in 1 .. l : Append(e.code, i)[j] = e.code[j]
    BY <1>1, <1>9, AppendFacts
  <2>2. \A j \in 1 .. l + 1 : j = l + 1 \/ j \in 1 .. l
    OBVIOUS
  <2> QED BY <1>4, <1>6, <2>1, <2>2 DEF Straight, Terminators
<1> QED BY <1>3, <1>7, <1>8

\* A read and the store of what it returns.
LEMMA ReadGood ==
  ASSUME NEW k \in Nat, NEW x \in Allocas, Prepared
  PROVE  LET c == Append(<<Instr("read", <<>>, <<"">>, <<>>)>>, Store(k + 1, x)) IN
           GoodCode(c, k) /\ Straight(c)
<1>1. PICK i : i = Instr("read", <<>>, <<"">>, <<>>)
  OBVIOUS
<1>2. PICK h : h = Store(k + 1, x)
  OBVIOUS
<1>3. i.op = "read" /\ i.args = <<>> /\ i.bb = 0 /\ i.succ = <<>>
  BY <1>1 DEF Instr
<1>4. i \in Built /\ Fits(i)
  <2>1. <<>> \in Seq(Int)
    OBVIOUS
  <2>2. <<>> \in Seq(Nat)
    OBVIOUS
  <2>3. <<"">> \in AllSyms /\ "read" \in AllOps
    BY BuiltFacts DEF AllOps, Operators
  <2> QED BY <1>1, <1>3, <2>1, <2>2, <2>3, BuiltFacts DEF Fits
<1>5. h \in Built /\ Fits(h) /\ h.op = "store" /\ h.args = <<k + 1>> /\ h.bb = 0
  <2>1. k + 1 \in Int /\ 0 \in Nat
    OBVIOUS
  <2> QED BY <1>2, <2>1, BuiltStmt
<1>6. PICK c : c = Append(<<i>>, h)
  OBVIOUS
<1>7. c \in Seq(Built) /\ DOMAIN c = {1, 2} /\ c[1] = i /\ c[2] = h
  <2>1. <<i>> \in Seq(Built) /\ Len(<<i>>) = 1 /\ <<i>>[1] = i
    BY <1>4
  <2>2. /\ Append(<<i>>, h) \in Seq(Built) /\ DOMAIN Append(<<i>>, h) = 1 .. 1 + 1
        /\ Append(<<i>>, h)[1 + 1] = h /\ \A j \in 1 .. 1 : Append(<<i>>, h)[j] = <<i>>[j]
    BY <1>5, <2>1, AppendFacts
  <2>3. 1 .. 1 + 1 = {1, 2} /\ 1 + 1 = 2 /\ 1 \in 1 .. 1
    OBVIOUS
  <2> QED BY <1>6, <2>1, <2>2, <2>3
<1>8. InstrFits(c, 1, k)
  <2>1. 1 + 1 = 2
    OBVIOUS
  <2>2. DOMAIN c[1].args = {}
    BY <1>3, <1>7
  <2>3. UsedNext(c, 1, k, "store")
    BY <1>3, <1>5, <1>7, <2>1 DEF UsedNext
  <2> QED BY <1>3, <1>4, <1>7, <2>2, <2>3 DEF InstrFits
<1>9. InstrFits(c, 2, k)
  <2>1. \A n \in DOMAIN c[2].args : c[2].args[n] = k + 1
    BY <1>5, <1>7
  <2>2. (k + 1) - k = 1 /\ k + 1 > 0 /\ 1 \in 1 .. 2 - 1
    OBVIOUS
  <2>3. OperandFits(c, 2, k + 1, k)
    BY <1>3, <1>5, <1>7, <2>2 DEF OperandFits, PureOps
  <2> QED BY <1>5, <1>7, <2>1, <2>3 DEF InstrFits
<1>10. GoodCode(c, k) /\ Straight(c)
  BY <1>3, <1>5, <1>7, <1>8, <1>9 DEF GoodCode, Straight, Terminators
<1> QED BY <1>1, <1>2, <1>6, <1>10

-----------------------------------------------------------------------------

\* The blocks of code: without a terminator yet, or with it as the last instruction.
Unended(s, b) == \A j \in DOMAIN s : s[j].bb = b => s[j].op \notin Terminators

EndedBy(s, b, i) ==
  /\ i \in DOMAIN s /\ s[i].bb = b /\ s[i].op \in Terminators
  /\ \A j \in DOMAIN s : s[j].bb = b => j <= i /\ (s[j].op \in Terminators => j = i)

Closed(s, b) == \E i \in DOMAIN s : EndedBy(s, b, i)

Inside(s, nb) ==
  \A j \in DOMAIN s : s[j].bb \in 1 .. nb /\ \A k \in DOMAIN s[j].succ : s[j].succ[k] \in 1 .. nb

\* The code built so far, with nb blocks of which those in open are unended.
Function(s, nb, open) ==
  /\ GoodCode(s, 0) /\ nb \in Nat /\ nb >= 2
  /\ Inside(s, nb)
  /\ open \subseteq 1 .. nb
  /\ \A b \in 1 .. nb : IF b \in open THEN Unended(s, b) ELSE Closed(s, b)

\* A new block, with nothing in it, is unended.
LEMMA MoreBlocks ==
  ASSUME NEW s, NEW nb, NEW open, Function(s, nb, open), NEW m \in Nat
  PROVE  Function(s, nb + m, open \cup (nb + 1 .. nb + m))
<1>1. nb \in Nat /\ nb >= 2
  BY DEF Function
<1>2. 1 .. nb \subseteq 1 .. nb + m /\ open \subseteq 1 .. nb
  BY <1>1 DEF Function
<1>3. Inside(s, nb + m)
  BY <1>2 DEF Function, Inside
<1>4. \A b \in nb + 1 .. nb + m : Unended(s, b)
  <2>1. \A b \in nb + 1 .. nb + m : b \notin 1 .. nb
    BY <1>1
  <2> QED BY <2>1 DEF Function, Inside, Unended
<1>5. \A b \in 1 .. nb + m : b \in 1 .. nb \/ b \in nb + 1 .. nb + m
  BY <1>1
<1>6. open \cup (nb + 1 .. nb + m) \subseteq 1 .. nb + m
  BY <1>1, <1>2
<1>7. \A b \in 1 .. nb : b \notin nb + 1 .. nb + m
  BY <1>1
<1> QED BY <1>1, <1>3, <1>4, <1>5, <1>6, <1>7 DEF Function

\* What code for the current block does to the function.
LEMMA Extended ==
  ASSUME NEW s, NEW nb, NEW open, Function(s, nb, open), NEW b \in open,
         NEW c, GoodCode(c, Len(s)),
         \A j \in DOMAIN c : \A k \in DOMAIN c[j].succ : c[j].succ[k] \in 1 .. nb
  PROVE  /\ Straight(c) => Function(s \o In(b, c), nb, open)
         /\ Ended(c) => Function(s \o In(b, c), nb, open \ {b})
<1>1. s \in Seq(Built) /\ c \in Seq(Built) /\ b \in Nat /\ b \in 1 .. nb
  <2>1. nb \in Nat /\ open \subseteq 1 .. nb /\ GoodCode(s, 0)
    BY DEF Function
  <2>2. s \in Seq(Built) /\ c \in Seq(Built)
    BY <2>1 DEF GoodCode
  <2> QED BY <2>1, <2>2
<1>2. PICK l \in Nat : l = Len(s) /\ DOMAIN s = 1 .. l
  BY <1>1
<1>3. PICK m \in Nat : m = Len(c) /\ DOMAIN c = 1 .. m
  BY <1>1
<1>4. PICK d \in Seq(Built) : d = In(b, c) /\ Len(d) = m /\ DOMAIN d = 1 .. m
  <2>1. In(b, c) \in Seq(Built) /\ Len(In(b, c)) = m /\ DOMAIN In(b, c) = 1 .. m
    BY <1>1, <1>3, InFacts
  <2> QED BY <2>1
<1>5. \A j \in 1 .. m : d[j].op = c[j].op /\ d[j].succ = c[j].succ /\ d[j].bb = b
  BY <1>1, <1>3, <1>4, InFacts
<1>6. GoodCode(s \o d, 0)
  <2>1. GoodCode(d, Len(s))
    BY <1>1, <1>2, <1>4, GoodIn
  <2>2. 0 + Len(s) = Len(s) /\ 0 \in Nat
    BY <1>2
  <2> QED BY <2>1, <2>2, GoodJoin DEF Function
<1>7. PICK t : t = s \o d
  OBVIOUS
<1>8. /\ t \in Seq(Built) /\ DOMAIN t = 1 .. l + m
      /\ \A j \in 1 .. l : t[j] = s[j]
      /\ \A j \in 1 .. m : t[l + j] = d[j]
  <2>1. s \o d \in Seq(Built) /\ Len(s \o d) = l + m
    BY <1>1, <1>2, <1>4
  <2>2. t \in Seq(Built) /\ DOMAIN t = 1 .. l + m
    BY <1>7, <2>1
  <2> QED BY <1>1, <1>2, <1>4, <1>7, <2>2
<1>9. \A j \in 1 .. l + m : j \in 1 .. l \/ \E n \in 1 .. m : j = l + n
  <2>1. \A j \in 1 .. l + m : j \notin 1 .. l => j - l \in 1 .. m /\ j = l + (j - l)
    OBVIOUS
  <2> QED BY <2>1
<1>10. Inside(t, nb)
  <2>1. ASSUME NEW j \in 1 .. l + m
        PROVE  t[j].bb \in 1 .. nb /\ \A k \in DOMAIN t[j].succ : t[j].succ[k] \in 1 .. nb
    <3>1. CASE j \in 1 .. l
      BY <1>2, <1>8, <3>1 DEF Function, Inside
    <3>2. CASE \E n \in 1 .. m : j = l + n
      <4>1. PICK n \in 1 .. m : j = l + n
        BY <3>2
      <4>2. t[j].bb = b /\ t[j].succ = c[n].succ
        BY <1>5, <1>8, <4>1
      <4> QED BY <1>1, <1>3, <4>1, <4>2
    <3> QED BY <1>9, <3>1, <3>2
  <2> QED BY <1>8, <2>1 DEF Inside
<1>11. ASSUME NEW x \in 1 .. nb, x # b PROVE IF x \in open THEN Unended(t, x) ELSE Closed(t, x)
  <2>1. \A j \in 1 .. l + m : t[j].bb = x => j \in 1 .. l /\ t[j] = s[j]
    <3>1. \A n \in 1 .. m : t[l + n].bb = b
      BY <1>5, <1>8
    <3> QED BY <1>8, <1>9, <1>11, <3>1
  <2>2. CASE x \in open
    BY <1>2, <1>8, <2>1, <2>2 DEF Function, Unended
  <2>3. CASE x \notin open
    <3>1. PICK i \in DOMAIN s : EndedBy(s, x, i)
      BY <2>3 DEF Function, Closed
    <3>2. i \in 1 .. l + m /\ t[i] = s[i]
      BY <1>2, <1>8
    <3>3. EndedBy(t, x, i)
      BY <1>2, <1>8, <2>1, <3>1, <3>2 DEF EndedBy
    <3>4. Closed(t, x)
      BY <1>8, <3>2, <3>3 DEF Closed
    <3> QED BY <2>3, <3>4
  <2> QED BY <2>2, <2>3
<1>12. Unended(s, b)
  BY <1>1 DEF Function
<1>13. ASSUME Straight(c) PROVE Unended(t, b)
  <2>1. ASSUME NEW j \in 1 .. l + m, t[j].bb = b PROVE t[j].op \notin Terminators
    <3>1. CASE j \in 1 .. l
      BY <1>2, <1>8, <1>12, <2>1, <3>1 DEF Unended
    <3>2. CASE \E n \in 1 .. m : j = l + n
      <4>1. PICK n \in 1 .. m : j = l + n
        BY <3>2
      <4>2. t[j].op = c[n].op
        BY <1>5, <1>8, <4>1
      <4> QED BY <1>3, <1>13, <4>1, <4>2 DEF Straight
    <3> QED BY <1>9, <3>1, <3>2
  <2> QED BY <1>8, <2>1 DEF Unended
<1>14. ASSUME Ended(c) PROVE Closed(t, b)
  <2>1. PICK f, i : c = Append(f, i) /\ f \in Seq(Built) /\ i \in Built /\ Straight(f)
                     /\ i.op \in Terminators
    BY <1>14 DEF Ended
  <2>2. PICK n \in Nat : n = Len(f)
    BY <2>1
  <2>3. m = n + 1 /\ c[m] = i /\ DOMAIN f = 1 .. n /\ \A j \in 1 .. n : c[j] = f[j]
    <3>1. Len(c) = n + 1 /\ c[n + 1] = i /\ DOMAIN f = 1 .. n /\ \A j \in 1 .. n : c[j] = f[j]
      BY <2>1, <2>2, AppendFacts
    <3> QED BY <1>3, <3>1
  <2>4. l + m \in 1 .. l + m /\ m \in 1 .. m
    BY <2>3
  <2>5. t[l + m].bb = b /\ t[l + m].op \in Terminators
    BY <1>5, <1>8, <2>1, <2>3, <2>4
  <2>6. ASSUME NEW j \in 1 .. l + m, t[j].bb = b, t[j].op \in Terminators PROVE j = l + m
    <3>1. CASE j \in 1 .. l
      BY <1>2, <1>8, <1>12, <2>6, <3>1 DEF Unended
    <3>2. CASE \E y \in 1 .. m : j = l + y
      <4>1. PICK y \in 1 .. m : j = l + y
        BY <3>2
      <4>2. c[y].op \in Terminators
        BY <1>5, <1>8, <2>6, <4>1
      <4>3. y \notin 1 .. n
        BY <2>1, <2>3, <4>2 DEF Straight
      <4>4. y = m
        BY <2>3, <4>3
      <4> QED BY <4>1, <4>4
    <3> QED BY <1>9, <3>1, <3>2
  <2>7. EndedBy(t, b, l + m)
    <3>1. \A j \in 1 .. l + m : j <= l + m
      OBVIOUS
    <3> QED BY <1>8, <2>4, <2>5, <2>6, <3>1 DEF EndedBy
  <2> QED BY <1>8, <2>4, <2>7 DEF Closed
<1>15. Straight(c) => Function(t, nb, open)
  BY <1>6, <1>7, <1>10, <1>11, <1>13 DEF Function
<1>16. Ended(c) => Function(t, nb, open \ {b})
  BY <1>6, <1>7, <1>10, <1>11, <1>14 DEF Function
<1> QED BY <1>4, <1>7, <1>15, <1>16

LEMMA ExtendedStraight ==
  ASSUME NEW s, NEW nb, NEW open, Function(s, nb, open), NEW b \in open,
         NEW c, GoodCode(c, Len(s)), Straight(c)
  PROVE  Function(s \o In(b, c), nb, open)
<1>1. \A j \in DOMAIN c : c[j].succ = <<>>
  BY DEF GoodCode, InstrFits, Fits, Straight, Terminators
<1>2. \A j \in DOMAIN c : DOMAIN c[j].succ = {}
  BY <1>1
<1> QED BY <1>2, Extended

LEMMA ExtendedEnded ==
  ASSUME NEW s, NEW nb, NEW open, Function(s, nb, open), NEW b \in open,
         NEW d \in Seq(Built), NEW i \in Built, GoodCode(Append(d, i), Len(s)), Straight(d),
         i.op \in Terminators, \A k \in DOMAIN i.succ : i.succ[k] \in 1 .. nb
  PROVE  Function(s \o In(b, Append(d, i)), nb, open \ {b})
<1>1. PICK l \in Nat : l = Len(d)
  OBVIOUS
<1>2. PICK c \in Seq(Built) : /\ c = Append(d, i) /\ DOMAIN c = 1 .. l + 1 /\ c[l + 1] = i
                              /\ DOMAIN d = 1 .. l /\ \A j \in 1 .. l : c[j] = d[j]
  <2>1. /\ Append(d, i) \in Seq(Built) /\ DOMAIN Append(d, i) = 1 .. l + 1
        /\ Append(d, i)[l + 1] = i /\ DOMAIN d = 1 .. l
        /\ \A j \in 1 .. l : Append(d, i)[j] = d[j]
    BY <1>1, AppendFacts
  <2> QED BY <2>1
<1>3. \A j \in 1 .. l + 1 : j = l + 1 \/ j \in 1 .. l
  OBVIOUS
<1>4. \A j \in 1 .. l : c[j].op \notin Terminators
  BY <1>2 DEF Straight
<1>5. \A j \in 1 .. l : c[j].succ = <<>>
  <2>1. \A j \in 1 .. l : Fits(c[j])
    BY <1>2 DEF GoodCode, InstrFits
  <2> QED BY <1>4, <2>1 DEF Fits, Terminators
<1>6. \A j \in 1 .. l : DOMAIN c[j].succ = {}
  BY <1>5
<1>7. \A j \in DOMAIN c : \A k \in DOMAIN c[j].succ : c[j].succ[k] \in 1 .. nb
  BY <1>2, <1>3, <1>6
<1>8. Ended(c)
  BY <1>2 DEF Ended
<1> QED BY <1>2, <1>7, <1>8, Extended

\* A block that is ended with a branch.
LEMMA ExtendedBr ==
  ASSUME NEW s, NEW nb, NEW open, Function(s, nb, open), NEW b \in open, NEW t \in 1 .. nb, Prepared
  PROVE  Function(s \o In(b, <<Br(t)>>), nb, open \ {b})
<1>1. PICK i : i = Br(t)
  OBVIOUS
<1>2. t \in Nat /\ Len(s) \in Nat
  BY DEF Function, GoodCode
<1>3. i \in Built /\ i.op = "br" /\ i.succ = <<t>>
  <2>1. 0 \in Int /\ ret_ref \in Allocas
    BY DEF Allocas
  <2> QED BY <1>1, <1>2, <2>1, BuiltStmt
<1>4. GoodCode(<<i>>, Len(s))
  BY <1>1, <1>2, BrGood
<1>5. Append(<<>>, i) = <<i>> /\ <<>> \in Seq(Built) /\ Straight(<<>>)
  BY DEF Straight
<1>6. \A k \in DOMAIN i.succ : i.succ[k] \in 1 .. nb
  BY <1>3
<1> QED BY <1>1, <1>3, <1>4, <1>5, <1>6, ExtendedEnded DEF Terminators

\* A block that is ended with a store to the result and a branch.
LEMMA ExtendedRet ==
  ASSUME NEW s, NEW nb, NEW open, Function(s, nb, open), NEW b \in open, NEW t \in 1 .. nb,
         Prepared,
         NEW e, IsTerm(e, Len(s))
  PROVE  Function(s \o In(b, e.code \o <<Store(e.val, ret_ref), Br(t)>>), nb, open \ {b})
<1>0. PICK k \in Nat : k = Len(s)
  BY DEF Function, GoodCode
<1>1. PICK i : i = Br(t)
  OBVIOUS
<1>2. PICK h : h = Store(e.val, ret_ref)
  OBVIOUS
<1>3. t \in Nat /\ ret_ref \in Allocas
  BY DEF Function, Allocas
<1>4. i \in Built /\ i.op = "br" /\ i.succ = <<t>>
  <2>1. 0 \in Int
    OBVIOUS
  <2> QED BY <1>1, <1>3, <2>1, BuiltStmt
<1>5. PICK l \in Nat : l = Len(e.code) /\ e.code \in Seq(Built)
  BY DEF IsTerm, TermCode
<1>6. h \in Built
  <2>1. e.val \in Int
    BY <1>0, <1>5, ValueIn
  <2> QED BY <1>2, <1>3, <2>1, BuiltStmt
<1>7. PICK d \in Seq(Built) : d = Append(e.code, h)
  <2>1. Append(e.code, h) \in Seq(Built)
    BY <1>5, <1>6, AppendFacts
  <2> QED BY <2>1
<1>8. GoodCode(d, k) /\ Straight(d)
  BY <1>0, <1>2, <1>3, <1>7, StoreGood
<1>9. GoodCode(<<i>>, k + Len(d))
  <2>1. k + Len(d) \in Nat
    BY <1>0
  <2> QED BY <1>1, <1>3, <2>1, BrGood
<1>10. GoodCode(d \o <<i>>, k)
  BY <1>8, <1>9, GoodJoin
<1>11. d \o <<i>> = Append(d, i) /\ e.code \o <<h, i>> = Append(d, i)
  <2>1. <<h>> \in Seq(Built) /\ <<i>> \in Seq(Built) /\ <<h, i>> = <<h>> \o <<i>>
    BY <1>4, <1>6
  <2>2. d = e.code \o <<h>> /\ Append(d, i) = d \o <<i>>
    BY <1>4, <1>5, <1>6, <1>7, AppendIsConcat
  <2>3. (e.code \o <<h>>) \o <<i>> = e.code \o (<<h>> \o <<i>>)
    BY <1>5, <2>1, ConcatAssociative
  <2> QED BY <2>1, <2>2, <2>3
<1>12. \A j \in DOMAIN i.succ : i.succ[j] \in 1 .. nb
  BY <1>4
<1>13. Function(s \o In(b, Append(d, i)), nb, open \ {b})
  BY <1>0, <1>4, <1>8, <1>10, <1>11, <1>12, ExtendedEnded DEF Terminators
<1> QED BY <1>1, <1>2, <1>11, <1>13

-----------------------------------------------------------------------------

\* What genIRStmt has left to do: statements, and the blocks it will go on with.
TasksIn(nb) ==
  {<<"stmt", n, 0>> : n \in StmtNodes}
    \cup ({"loop"} \X (1 .. nb) \X (1 .. nb))
    \cup {<<kind, b, 0>> : kind \in {"endif", "join"}, b \in 1 .. nb}
    \cup {<<"else", b, n>> : b \in 1 .. nb, n \in StmtNodes}

Owned(t) ==
  CASE t[1] = "loop" -> {t[3]}
    [] t[1] \in {"endif", "else", "join"} -> {t[2]}
    [] OTHER -> {}

\* The tasks in w, the blocks of which, all different, are those in owned.
LeftToDo(w, nb, owned) ==
  /\ w \in Seq(TasksIn(nb))
  /\ \A i, j \in DOMAIN w : i # j => Owned(w[i]) \cap Owned(w[j]) = {}
  /\ owned = UNION {Owned(w[i]) : i \in DOMAIN w}

LEMMA TaskKinds ==
  ASSUME NEW nb \in Nat, NEW t \in TasksIn(nb)
  PROVE  /\ t[1] \in {"stmt", "loop", "endif", "else", "join"}
         /\ t[1] = "stmt" => t[2] \in StmtNodes /\ Owned(t) = {}
         /\ t[1] = "loop" => t[2] \in 1 .. nb /\ Owned(t) = {t[3]}
         /\ t[1] \in {"endif", "else", "join"} => t[2] \in 1 .. nb /\ Owned(t) = {t[2]}
         /\ t[1] = "else" => t[3] \in StmtNodes
         /\ Owned(t) \subseteq 1 .. nb
<1>1. CASE t \in {<<"stmt", n, 0>> : n \in StmtNodes}
  BY <1>1 DEF Owned
<1>2. CASE t \in {"loop"} \X (1 .. nb) \X (1 .. nb)
  BY <1>2 DEF Owned
<1>3. CASE t \in {<<kind, b, 0>> : kind \in {"endif", "join"}, b \in 1 .. nb}
  BY <1>3 DEF Owned
<1>4. CASE t \in {<<"else", b, n>> : b \in 1 .. nb, n \in StmtNodes}
  BY <1>4 DEF Owned
<1> QED BY <1>1, <1>2, <1>3, <1>4 DEF TasksIn

\* The task is done.
LEMMA LeftTail ==
  ASSUME NEW nb \in Nat, NEW w, NEW owned, LeftToDo(w, nb, owned), w # <<>>
  PROVE  /\ LeftToDo(Tail(w), nb, owned \ Owned(Head(w)))
         /\ Head(w) \in TasksIn(nb) /\ Owned(Head(w)) \subseteq owned
<1>1. PICK l \in Nat : l = Len(w) /\ DOMAIN w = 1 .. l /\ l > 0
  BY DEF LeftToDo
<1>2. PICK v \in Seq(TasksIn(nb)) : /\ v = Tail(w) /\ DOMAIN v = 1 .. l - 1
                                    /\ \A i \in 1 .. l - 1 : v[i] = w[i + 1]
  <2>1. Tail(w) \in Seq(TasksIn(nb)) /\ Len(Tail(w)) = l - 1
    BY <1>1 DEF LeftToDo
  <2>2. \A i \in 1 .. l - 1 : Tail(w)[i] = w[i + 1]
    BY <1>1 DEF LeftToDo
  <2>3. PICK v \in Seq(TasksIn(nb)) : v = Tail(w)
    BY <2>1
  <2>4. DOMAIN v = 1 .. l - 1
    BY <2>1, <2>3
  <2> QED BY <2>2, <2>3, <2>4
<1>3. Head(w) = w[1] /\ 1 \in 1 .. l
  BY <1>1 DEF LeftToDo
<1>4. \A i, j \in 1 .. l - 1 : i # j => i + 1 # j + 1 /\ i + 1 \in 1 .. l /\ j + 1 \in 1 .. l
  OBVIOUS
<1>5. ASSUME NEW i \in DOMAIN v, NEW j \in DOMAIN v, i # j PROVE Owned(v[i]) \cap Owned(v[j]) = {}
  <2>1. i + 1 # j + 1 /\ i + 1 \in 1 .. l /\ j + 1 \in 1 .. l
    BY <1>2, <1>4, <1>5
  <2>2. v[i] = w[i + 1] /\ v[j] = w[j + 1]
    BY <1>2
  <2> QED BY <1>1, <2>1, <2>2 DEF LeftToDo
<1>6. owned \ Owned(w[1]) = UNION {Owned(v[i]) : i \in DOMAIN v}
  <2>1. ASSUME NEW x \in owned, x \notin Owned(w[1]) PROVE \E i \in DOMAIN v : x \in Owned(v[i])
    <3>1. PICK j \in 1 .. l : x \in Owned(w[j])
      BY <1>1, <2>1 DEF LeftToDo
    <3>2. j # 1
      BY <2>1, <3>1
    <3>3. j - 1 \in 1 .. l - 1 /\ (j - 1) + 1 = j
      BY <3>2
    <3> QED BY <1>2, <3>1, <3>3
  <2>2. ASSUME NEW i \in DOMAIN v, NEW x \in Owned(v[i]) PROVE x \in owned /\ x \notin Owned(w[1])
    <3>1. i + 1 \in 1 .. l /\ i + 1 # 1 /\ v[i] = w[i + 1]
      BY <1>2
    <3> QED BY <1>1, <1>3, <2>2, <3>1 DEF LeftToDo
  <2> QED BY <2>1, <2>2
<1>7. w[1] \in TasksIn(nb) /\ Owned(w[1]) \subseteq owned
  BY <1>1, <1>3 DEF LeftToDo
<1>8. LeftToDo(v, nb, owned \ Owned(w[1]))
  BY <1>5, <1>6 DEF LeftToDo
<1> QED BY <1>2, <1>3, <1>7, <1>8

\* One more task, which owns blocks that nobody does.
LEMMA LeftCons ==
  ASSUME NEW nb \in Nat, NEW w, NEW owned, LeftToDo(w, nb, owned), NEW t \in TasksIn(nb),
         Owned(t) \cap owned = {}
  PROVE  LeftToDo(<<t>> \o w, nb, owned \cup Owned(t))
<1>1. PICK l \in Nat : l = Len(w) /\ DOMAIN w = 1 .. l /\ w \in Seq(TasksIn(nb))
  BY DEF LeftToDo
<1>2. PICK v \in Seq(TasksIn(nb)) : /\ v = <<t>> \o w /\ DOMAIN v = 1 .. l + 1
                                    /\ v[1] = t /\ \A i \in 1 .. l : v[i + 1] = w[i]
  <2>1. <<t>> \in Seq(TasksIn(nb)) /\ Len(<<t>>) = 1 /\ <<t>>[1] = t
    OBVIOUS
  <2>2. PICK u \in Seq(TasksIn(nb)) : u = <<t>>
    BY <2>1
  <2>3. u \o w \in Seq(TasksIn(nb)) /\ Len(u \o w) = 1 + l /\ (u \o w)[1] = t
    BY <1>1, <2>1, <2>2
  <2>4. \A i \in 1 .. l : (u \o w)[i + 1] = w[i]
    BY <1>1, <2>1, <2>2
  <2>5. PICK v \in Seq(TasksIn(nb)) : v = u \o w
    BY <2>3
  <2>6. DOMAIN v = 1 .. l + 1
    BY <2>3, <2>5
  <2> QED BY <2>2, <2>3, <2>4, <2>5, <2>6
<1>3. \A i \in 1 .. l + 1 : i = 1 \/ \E j \in 1 .. l : i = j + 1
  <2>1. \A i \in 1 .. l + 1 : i # 1 => i - 1 \in 1 .. l /\ i = (i - 1) + 1
    OBVIOUS
  <2> QED BY <2>1
<1>4. \A j \in 1 .. l : Owned(w[j]) \subseteq owned /\ j + 1 \in 1 .. l + 1
  BY <1>1 DEF LeftToDo
<1>5. ASSUME NEW i \in DOMAIN v, NEW j \in DOMAIN v, i # j PROVE Owned(v[i]) \cap Owned(v[j]) = {}
  <2>1. CASE i = 1
    <3>1. PICK y \in 1 .. l : j = y + 1
      BY <1>2, <1>3, <1>5, <2>1
    <3> QED BY <1>2, <1>4, <2>1, <3>1
  <2>2. CASE j = 1
    <3>1. PICK y \in 1 .. l : i = y + 1
      BY <1>2, <1>3, <1>5, <2>2
    <3> QED BY <1>2, <1>4, <2>2, <3>1
  <2>3. CASE i # 1 /\ j # 1
    <3>1. PICK x \in 1 .. l : i = x + 1
      BY <1>2, <1>3, <2>3
    <3>2. PICK y \in 1 .. l : j = y + 1
      BY <1>2, <1>3, <2>3
    <3>3. x # y
      BY <1>5, <3>1, <3>2
    <3> QED BY <1>1, <1>2, <3>1, <3>2, <3>3 DEF LeftToDo
  <2> QED BY <2>1, <2>2, <2>3
<1>6. owned \cup Owned(t) = UNION {Owned(v[i]) : i \in DOMAIN v}
  <2>1. ASSUME NEW x \in owned PROVE \E i \in DOMAIN v : x \in Owned(v[i])
    <3>1. PICK j \in 1 .. l : x \in Owned(w[j])
      BY <1>1, <2>1 DEF LeftToDo
    <3> QED BY <1>2, <1>4, <3>1
  <2>2. ASSUME NEW i \in DOMAIN v, NEW x \in Owned(v[i]) PROVE x \in owned \cup Owned(t)
    <3>1. CASE i = 1
      BY <1>2, <2>2, <3>1
    <3>2. CASE i # 1
      <4>1. PICK j \in 1 .. l : i = j + 1
        BY <1>2, <1>3, <3>2
      <4> QED BY <1>2, <1>4, <2>2, <4>1
    <3> QED BY <3>1, <3>2
  <2>3. 1 \in DOMAIN v
    BY <1>2
  <2> QED BY <1>2, <2>1, <2>2, <2>3
<1>7. LeftToDo(v, nb, owned \cup Owned(t))
  BY <1>5, <1>6 DEF LeftToDo
<1> QED BY <1>2, <1>7

LEMMA LeftMore ==
  ASSUME NEW nb \in Nat, NEW m \in Nat, NEW w, NEW owned, LeftToDo(w, nb, owned)
  PROVE  LeftToDo(w, nb + m, owned) /\ owned \subseteq 1 .. nb
<1>1. 1 .. nb \subseteq 1 .. nb + m
  OBVIOUS
<1>2. TasksIn(nb) \subseteq TasksIn(nb + m)
  <2>1. ({"loop"} \X (1 .. nb) \X (1 .. nb)) \subseteq ({"loop"} \X (1 .. nb + m) \X (1 .. nb + m))
    BY <1>1
  <2> QED BY <1>1, <2>1 DEF TasksIn
<1>3. w \in Seq(TasksIn(nb + m))
  BY <1>2 DEF LeftToDo
<1>4. \A i \in DOMAIN w : Owned(w[i]) \subseteq 1 .. nb
  BY TaskKinds DEF LeftToDo
<1> QED BY <1>3, <1>4 DEF LeftToDo

\* The statements of a block, in front of what was left to do.
LEMMA LeftStmts ==
  ASSUME NEW nb \in Nat, NEW w, NEW owned, LeftToDo(w, nb, owned),
         NEW c \in Seq(Nat), \A i \in DOMAIN c : c[i] \in StmtNodes
  PROVE  LeftToDo([i \in DOMAIN c |-> Stmt(c[i])] \o w, nb, owned)
<1>1. PICK l \in Nat : l = Len(w) /\ DOMAIN w = 1 .. l /\ w \in Seq(TasksIn(nb))
  BY DEF LeftToDo
<1>2. PICK m \in Nat : m = Len(c) /\ DOMAIN c = 1 .. m
  OBVIOUS
<1>3. \A i \in 1 .. m : Stmt(c[i]) \in TasksIn(nb) /\ Owned(Stmt(c[i])) = {}
  BY <1>2 DEF Stmt, TasksIn, Owned
<1>4. PICK u \in Seq(TasksIn(nb)) : /\ u = [i \in DOMAIN c |-> Stmt(c[i])] /\ Len(u) = m
                                    /\ DOMAIN u = 1 .. m
                                    /\ \A i \in 1 .. m : Owned(u[i]) = {}
  <2>1. [i \in 1 .. m |-> Stmt(c[i])] \in Seq(TasksIn(nb))
    BY <1>3
  <2>2. PICK u \in Seq(TasksIn(nb)) : u = [i \in 1 .. m |-> Stmt(c[i])]
    BY <2>1
  <2>3. DOMAIN u = 1 .. m /\ \A i \in 1 .. m : u[i] = Stmt(c[i])
    BY <2>2
  <2>4. Len(u) = m
    BY <2>3
  <2> QED BY <1>2, <1>3, <2>2, <2>3, <2>4
<1>5. PICK v \in Seq(TasksIn(nb)) : /\ v = u \o w /\ DOMAIN v = 1 .. m + l
                                    /\ \A i \in 1 .. m : v[i] = u[i]
                                    /\ \A i \in 1 .. l : v[m + i] = w[i]
  <2>1. u \o w \in Seq(TasksIn(nb)) /\ Len(u \o w) = m + l
    BY <1>1, <1>4
  <2>2. (\A i \in 1 .. m : (u \o w)[i] = u[i]) /\ (\A i \in 1 .. l : (u \o w)[m + i] = w[i])
    BY <1>1, <1>4
  <2>3. PICK v \in Seq(TasksIn(nb)) : v = u \o w
    BY <2>1
  <2>4. DOMAIN v = 1 .. m + l
    BY <2>1, <2>3
  <2> QED BY <2>2, <2>3, <2>4
<1>6. \A i \in 1 .. m + l : i \in 1 .. m \/ \E j \in 1 .. l : i = m + j
  <2>1. \A i \in 1 .. m + l : i \notin 1 .. m => i - m \in 1 .. l /\ i = m + (i - m)
    OBVIOUS
  <2> QED BY <2>1
<1>7. \A i \in 1 .. m : Owned(v[i]) = {}
  BY <1>4, <1>5
<1>8. ASSUME NEW i \in DOMAIN v, NEW j \in DOMAIN v, i # j PROVE Owned(v[i]) \cap Owned(v[j]) = {}
  <2>1. CASE i \in 1 .. m \/ j \in 1 .. m
    BY <1>7, <2>1
  <2>2. CASE i \notin 1 .. m /\ j \notin 1 .. m
    <3>1. PICK x \in 1 .. l : i = m + x
      BY <1>5, <1>6, <2>2
    <3>2. PICK y \in 1 .. l : j = m + y
      BY <1>5, <1>6, <2>2
    <3>3. x # y
      BY <1>8, <3>1, <3>2
    <3>4. v[i] = w[x] /\ v[j] = w[y]
      BY <1>5, <3>1, <3>2
    <3> QED BY <1>1, <3>3, <3>4 DEF LeftToDo
  <2> QED BY <2>1, <2>2
<1>9. owned = UNION {Owned(v[i]) : i \in DOMAIN v}
  <2>1. ASSUME NEW x \in owned PROVE \E i \in DOMAIN v : x \in Owned(v[i])
    <3>1. PICK j \in 1 .. l : x \in Owned(w[j])
      BY <1>1, <2>1 DEF LeftToDo
    <3>2. m + j \in 1 .. m + l
      OBVIOUS
    <3>3. v[m + j] = w[j] /\ m + j \in DOMAIN v
      BY <1>5, <3>2
    <3> QED BY <3>1, <3>3
  <2>2. ASSUME NEW i \in DOMAIN v, NEW x \in Owned(v[i]) PROVE x \in owned
    <3>1. i \notin 1 .. m
      BY <1>7, <2>2
    <3>2. PICK j \in 1 .. l : i = m + j
      BY <1>5, <1>6, <3>1
    <3>3. v[i] = w[j]
      BY <1>5, <3>2
    <3> QED BY <1>1, <2>2, <3>3 DEF LeftToDo
  <2> QED BY <2>1, <2>2
<1>10. LeftToDo(v, nb, owned)
  BY <1>8, <1>9 DEF LeftToDo
<1> QED BY <1>4, <1>5, <1>10

-----------------------------------------------------------------------------

\* genIRStmt partway: s is built, c is the current block and w is left to do.
PartWay(s, nb, c, w) ==
  \E owned : LeftToDo(w, nb, owned) /\ c \notin owned /\ Function(s, nb, owned \cup {c})

\* These depend on the variables they name only.
LEMMA SameFunction ==
  ASSUME tree' = tree, name' = name
  PROVE  /\ \A s, nb, open : Function(s, nb, open) => Function(s, nb, open)'
         /\ \A s, nb, c, w : PartWay(s, nb, c, w) => PartWay(s, nb, c, w)'
<1>1. Allocas' = Allocas
  BY DEF Allocas, Decls
<1>2. StmtNodes' = StmtNodes
  BY DEF StmtNodes
<1>3. \A i : Fits(i) => Fits(i)'
  BY <1>1 DEF Fits
<1>4. ASSUME NEW s, NEW k, GoodCode(s, k) PROVE GoodCode(s, k)'
  <2>1. \A j : InstrFits(s, j, k) => InstrFits(s, j, k)'
    BY <1>3 DEF InstrFits, UsedNext, OperandFits
  <2> QED BY <1>4, <2>1 DEF GoodCode
<1>5. ASSUME NEW s, NEW nb, NEW open, Function(s, nb, open) PROVE Function(s, nb, open)'
  <2>1. GoodCode(s, 0)'
    BY <1>4, <1>5 DEF Function
  <2> QED BY <1>5, <2>1 DEF Function, Inside, Closed, Unended, EndedBy
<1>6. \A nb : TasksIn(nb)' = TasksIn(nb)
  BY <1>2 DEF TasksIn
<1>7. \A w, nb, owned : LeftToDo(w, nb, owned) => LeftToDo(w, nb, owned)'
  BY <1>6 DEF LeftToDo, Owned
<1>8. ASSUME NEW s, NEW nb, NEW c, NEW w, PartWay(s, nb, c, w) PROVE PartWay(s, nb, c, w)'
  <2>1. PICK owned : LeftToDo(w, nb, owned) /\ c \notin owned /\ Function(s, nb, owned \cup {c})
    BY <1>8 DEF PartWay
  <2>2. LeftToDo(w, nb, owned)' /\ Function(s, nb, owned \cup {c})'
    BY <1>5, <1>7, <2>1
  <2> QED BY <2>1, <2>2 DEF PartWay
<1> QED BY <1>5, <1>8

LEMMA SamePrepared ==
  ASSUME Prepared, UNCHANGED <<tree, var_counter, name>>
  PROVE  Prepared'
<1>1. PICK l : l = Len(tree) + 1
  OBVIOUS
<1>2. NamesOK(l)'
  BY <1>1, SameNames DEF Prepared
<1>3. l = Len(tree') + 1
  BY <1>1
<1> QED BY <1>2, <1>3 DEF Prepared

\* The facts that the actions of genIRStmt start from.
LEMMA AtTask ==
  ASSUME PartWay(instrs, nblocks, cur, work), work # <<>>
  PROVE  \E owned, rest :
           /\ rest = Tail(work) /\ LeftToDo(rest, nblocks, owned)
           /\ Task \in TasksIn(nblocks) /\ Owned(Task) \cap owned = {}
           /\ cur \notin owned /\ cur \notin Owned(Task)
           /\ Function(instrs, nblocks, owned \cup Owned(Task) \cup {cur})
           /\ nblocks \in Nat /\ instrs \in Seq(Built)
           /\ cur \in 1 .. nblocks /\ owned \subseteq 1 .. nblocks
<1>1. PICK all : LeftToDo(work, nblocks, all) /\ cur \notin all
                  /\ Function(instrs, nblocks, all \cup {cur})
  BY DEF PartWay
<1>2. nblocks \in Nat /\ instrs \in Seq(Built) /\ all \cup {cur} \subseteq 1 .. nblocks
  BY <1>1 DEF Function, GoodCode
<1>3. PICK owned : owned = all \ Owned(Task)
  OBVIOUS
<1>4. /\ LeftToDo(Tail(work), nblocks, owned) /\ Task \in TasksIn(nblocks)
      /\ Owned(Task) \subseteq all
  BY <1>1, <1>2, <1>3, LeftTail DEF Task
<1>5. all \cup {cur} = owned \cup Owned(Task) \cup {cur}
  BY <1>3, <1>4
<1> QED BY <1>1, <1>2, <1>3, <1>4, <1>5

\* What Lower makes of them.
LEMMA LowerTo ==
  ASSUME NEW code, NEW blocks, NEW next, NEW tasks, Lower(code, blocks, next, tasks),
         NEW owned, LeftToDo(tasks \o Tail(work), nblocks + blocks, owned), next \notin owned,
         Function(instrs \o code, nblocks + blocks, owned \cup {next})
  PROVE  PartWay(instrs, nblocks, cur, work)' /\ UNCHANGED <<scopevars, visited, kept, at>>
<1>1. /\ instrs' = instrs \o code /\ nblocks' = nblocks + blocks
      /\ cur' = next /\ work' = tasks \o Tail(work)
      /\ UNCHANGED <<scopevars, visited, kept, at>>
  BY DEF Lower, unchangedByLowering
<1>2. tree' = tree /\ name' = name
  BY <1>1 DEF scopevars, walkvars
<1>3. PICK s, nb, c, w : s = instrs' /\ nb = nblocks' /\ c = cur' /\ w = work'
  OBVIOUS
<1>4. PartWay(s, nb, c, w)
  BY <1>1, <1>3 DEF PartWay
<1>5. PartWay(s, nb, c, w)'
  BY <1>2, <1>4, SameFunction
<1> QED BY <1>1, <1>3, <1>5

LEMMA ExtendedCond ==
  ASSUME NEW s, NEW nb, NEW open, Function(s, nb, open), NEW b \in open,
         NEW e, CondCode(e, Len(s)), NEW t \in 1 .. nb, NEW f \in 1 .. nb
  PROVE  Function(s \o In(b, Append(e.code, CondBr(e.val, t, f))), nb, open \ {b})
<1>1. Len(s) \in Nat /\ t \in Nat /\ f \in Nat
  BY DEF Function, GoodCode
<1>2. PICK i : i = CondBr(e.val, t, f)
  OBVIOUS
<1>3. i.op = "condbr" /\ i.succ = <<t, f>>
  BY <1>2 DEF CondBr, Instr
<1>4. /\ GoodCode(Append(e.code, i), Len(s)) /\ Straight(e.code) /\ e.code \in Seq(Built)
      /\ i \in Built
  BY <1>1, <1>2, CondThen
<1>5. \A k \in DOMAIN i.succ : i.succ[k] \in 1 .. nb
  <2>1. DOMAIN <<t, f>> = {1, 2} /\ <<t, f>>[1] = t /\ <<t, f>>[2] = f
    OBVIOUS
  <2> QED BY <1>3, <2>1
<1> QED BY <1>2, <1>3, <1>4, <1>5, ExtendedEnded DEF Terminators

\* At the end only the current block is open.
LEMMA NoTasks ==
  ASSUME NEW w, NEW nb, NEW owned, LeftToDo(w, nb, owned)
  PROVE  LeftToDo(<<>> \o w, nb, owned)
<1>1. <<>> \o w = w
  BY DEF LeftToDo
<1> QED BY <1>1

LEMMA LowerAsgnStep ==
  ASSUME Prepared, PartWay(instrs, nblocks, cur, work), LowerAsgn
  PROVE  PartWay(instrs, nblocks, cur, work)' /\ UNCHANGED <<scopevars, visited, kept, at>>
<1>1. work # <<>> /\ Task[1] = "stmt" /\ tree[Task[2]].kind = "asgn"
  BY DEF LowerAsgn, Lowering
<1>2. PICK owned, rest :
           /\ rest = Tail(work) /\ LeftToDo(rest, nblocks, owned)
           /\ Task \in TasksIn(nblocks) /\ cur \notin owned
           /\ Function(instrs, nblocks, owned \cup Owned(Task) \cup {cur})
           /\ nblocks \in Nat /\ instrs \in Seq(Built)
  BY <1>1, AtTask
<1>3. Task[2] \in StmtNodes /\ Owned(Task) = {}
  BY <1>1, <1>2, TaskKinds
<1>4. /\ Part(1) \in Uses
      /\ Part(2) \in Exprs /\ tree[Part(2)].kind \in Terms \cup {"read"}
  BY <1>1, <1>3, StmtFacts DEF Part, Prepared
<1>5. PICK k \in Nat : k = Len(instrs)
  BY <1>2
<1>6. PICK e : e = Value(2, 0)
  OBVIOUS
<1>7. e = genIRExpr[Part(2)][k]
  BY <1>5, <1>6 DEF Value
<1>8. PICK x \in Allocas : x = name[Part(1)]
  BY <1>4, NameFacts
<1>9. PICK c : c = Append(e.code, Store(e.val, x))
  OBVIOUS
<1>10. GoodCode(c, k) /\ Straight(c)
  <2>1. CASE tree[Part(2)].kind \in Terms
    <3>1. IsTerm(e, k)
      BY <1>4, <1>7, <2>1, TermsCode DEF TermNodes
    <3> QED BY <1>9, <3>1, StoreGood
  <2>2. CASE tree[Part(2)].kind = "read"
    <3>1. e = [code |-> <<Instr("read", <<>>, <<"">>, <<>>)>>, val |-> k + 1]
      BY <1>4, <1>7, <2>2, ReadCode
    <3>2. c = Append(<<Instr("read", <<>>, <<"">>, <<>>)>>, Store(k + 1, x))
      BY <1>9, <3>1
    <3> QED BY <3>2, ReadGood
  <2> QED BY <1>4, <2>1, <2>2
<1>11. Function(instrs \o In(cur, c), nblocks, owned \cup {cur})
  <2>1. owned \cup Owned(Task) \cup {cur} = owned \cup {cur}
    BY <1>3
  <2> QED BY <1>2, <1>5, <1>10, <2>1, ExtendedStraight
<1>12. Lower(In(cur, c), 0, cur, <<>>)
  BY <1>6, <1>8, <1>9 DEF LowerAsgn
<1>13. nblocks + 0 = nblocks
  BY <1>2
<1>14. LeftToDo(<<>> \o Tail(work), nblocks + 0, owned)
  BY <1>2, <1>13, NoTasks
<1>15. PICK code : code = In(cur, c)
  OBVIOUS
<1>16. Lower(code, 0, cur, <<>>) /\ Function(instrs \o code, nblocks + 0, owned \cup {cur})
  BY <1>11, <1>12, <1>13, <1>15
<1> QED BY <1>2, <1>14, <1>16, LowerTo

-----------------------------------------------------------------------------
(***************************************************************************)
(* The statements: each step leaves a function with the blocks that are    *)
(* left to do unended.                                                     *)
(***************************************************************************)

LEMMA LowerPrintStep ==
  ASSUME Prepared, PartWay(instrs, nblocks, cur, work), LowerPrint
  PROVE  PartWay(instrs, nblocks, cur, work)' /\ UNCHANGED <<scopevars, visited, kept, at>>
<1>1. work # <<>> /\ Task[1] = "stmt" /\ tree[Task[2]].kind = "print"
  BY DEF LowerPrint, Lowering
<1>2. PICK owned, rest :
           /\ rest = Tail(work) /\ LeftToDo(rest, nblocks, owned)
           /\ Task \in TasksIn(nblocks) /\ cur \notin owned
           /\ Function(instrs, nblocks, owned \cup Owned(Task) \cup {cur})
           /\ nblocks \in Nat /\ instrs \in Seq(Built)
  BY <1>1, AtTask
<1>3. Task[2] \in StmtNodes /\ Owned(Task) = {}
  BY <1>1, <1>2, TaskKinds
<1>4. Part(1) \in TermNodes
  BY <1>1, <1>3, StmtFacts DEF Part, Prepared
<1>5. PICK k \in Nat : k = Len(instrs)
  BY <1>2
<1>6. PICK e : e = Value(1, 0)
  OBVIOUS
<1>7. e = genIRExpr[Part(1)][k]
  BY <1>5, <1>6 DEF Value
<1>8. IsTerm(e, k)
  BY <1>4, <1>7, TermsCode
<1>9. PICK c : c = Append(e.code, Instr("print", <<e.val>>, <<"">>, <<>>))
  OBVIOUS
<1>10. GoodCode(c, k) /\ Straight(c)
  BY <1>8, <1>9, PrintGood
<1>11. Function(instrs \o In(cur, c), nblocks, owned \cup {cur})
  <2>1. owned \cup Owned(Task) \cup {cur} = owned \cup {cur}
    BY <1>3
  <2> QED BY <1>2, <1>5, <1>10, <2>1, ExtendedStraight
<1>12. Lower(In(cur, c), 0, cur, <<>>)
  BY <1>6, <1>9 DEF LowerPrint
<1>13. nblocks + 0 = nblocks
  BY <1>2
<1>14. LeftToDo(<<>> \o Tail(work), nblocks + 0, owned)
  BY <1>2, <1>13, NoTasks
<1>15. PICK code : code = In(cur, c)
  OBVIOUS
<1>16. Lower(code, 0, cur, <<>>) /\ Function(instrs \o code, nblocks + 0, owned \cup {cur})
  BY <1>11, <1>12, <1>13, <1>15
<1> QED BY <1>2, <1>14, <1>16, LowerTo

\* The two parts of the code of a loop.
LEMMA Pairs ==
  ASSUME NEW a, NEW b
  PROVE  <<a>> \o <<b>> = <<a, b>>
<1>1. PICK S : a \in S /\ b \in S
  <2>1. a \in {a, b} /\ b \in {a, b}
    OBVIOUS
  <2> QED BY <2>1
<1>2. <<a>> \in Seq(S)
  BY <1>1
<1>3. Append(<<a>>, b) = <<a>> \o <<b>>
  BY <1>1, <1>2, AppendIsConcat
<1>4. PICK s \in Seq(S) : /\ s = Append(<<a>>, b) /\ Len(s) = 2 /\ s[1] = a /\ s[2] = b
  <2>1. Append(<<a>>, b) \in Seq(S) /\ Len(Append(<<a>>, b)) = 2
    BY <1>1, <1>2
  <2>2. Append(<<a>>, b)[1] = a /\ Append(<<a>>, b)[2] = b
    BY <1>1, <1>2
  <2> QED BY <2>1, <2>2
<1>5. PICK t \in Seq(S) : t = <<a, b>> /\ Len(t) = 2 /\ t[1] = a /\ t[2] = b
  <2>1. <<a, b>> \in Seq(S) /\ Len(<<a, b>>) = 2
    BY <1>1
  <2> QED BY <2>1
<1>6. \A i \in 1 .. 2 : i = 1 \/ i = 2
  OBVIOUS
<1>7. s = t
  BY <1>4, <1>5, <1>6, SeqEqual
<1> QED BY <1>3, <1>4, <1>5, <1>7

\* A statement and what comes after it, in front of the rest.
LEMMA TwoTasks ==
  ASSUME NEW nb \in Nat, NEW w, NEW owned, LeftToDo(w, nb, owned),
         NEW n \in StmtNodes, NEW t \in TasksIn(nb), Owned(t) \cap owned = {}
  PROVE  LeftToDo(<<Stmt(n), t>> \o w, nb, owned \cup Owned(t))
<1>1. Stmt(n) \in TasksIn(nb) /\ Owned(Stmt(n)) = {}
  BY DEF Stmt, TasksIn, Owned
<1>2. LeftToDo(<<t>> \o w, nb, owned \cup Owned(t))
  BY LeftCons
<1>3. LeftToDo(<<Stmt(n)>> \o (<<t>> \o w), nb, owned \cup Owned(t) \cup Owned(Stmt(n)))
  BY <1>1, <1>2, LeftCons
<1>4. PICK a : a = Stmt(n)
  OBVIOUS
<1>5. <<a>> \o (<<t>> \o w) = <<a, t>> \o w
  <2>1. w \in Seq(TasksIn(nb)) /\ <<a>> \in Seq(TasksIn(nb)) /\ <<t>> \in Seq(TasksIn(nb))
    BY <1>1, <1>4 DEF LeftToDo
  <2>2. <<a>> \o <<t>> = <<a, t>>
    BY Pairs
  <2>3. (<<a>> \o <<t>>) \o w = <<a>> \o (<<t>> \o w)
    BY <2>1, ConcatAssociative
  <2> QED BY <2>2, <2>3
<1>6. owned \cup Owned(t) \cup Owned(Stmt(n)) = owned \cup Owned(t)
  BY <1>1
<1> QED BY <1>3, <1>4, <1>5, <1>6

LEMMA LowerWhileStep ==
  ASSUME Prepared, PartWay(instrs, nblocks, cur, work), LowerWhile
  PROVE  PartWay(instrs, nblocks, cur, work)' /\ UNCHANGED <<scopevars, visited, kept, at>>
<1>1. work # <<>> /\ Task[1] = "stmt" /\ tree[Task[2]].kind = "while"
  BY DEF LowerWhile, Lowering
<1>2. PICK owned, rest :
           /\ rest = Tail(work) /\ LeftToDo(rest, nblocks, owned)
           /\ Task \in TasksIn(nblocks) /\ cur \notin owned
           /\ Function(instrs, nblocks, owned \cup Owned(Task) \cup {cur})
           /\ nblocks \in Nat /\ instrs \in Seq(Built)
           /\ cur \in 1 .. nblocks /\ owned \subseteq 1 .. nblocks
  BY <1>1, AtTask
<1>3. Task[2] \in StmtNodes /\ Owned(Task) = {}
  BY <1>1, <1>2, TaskKinds
<1>4. Part(1) \in Conds /\ Part(2) \in StmtNodes
  BY <1>1, <1>3, StmtFacts DEF Part, Prepared
<1>5. PICK k \in Nat : k = Len(instrs)
  BY <1>2
<1>6. PICK nb \in Nat : nb = nblocks
  BY <1>2
<1>7. PICK e : e = Value(1, 1)
  OBVIOUS
<1>8. CondCode(e, k + 1)
  <2>1. e = genIRExpr[Part(1)][k + 1] /\ k + 1 \in Nat
    BY <1>5, <1>7 DEF Value
  <2> QED BY <1>4, <2>1, CondsCode
<1>9. PICK x, y, z \in Nat : x = nb + 1 /\ y = nb + 2 /\ z = nb + 3
  <2>1. nb + 1 \in Nat /\ nb + 2 \in Nat /\ nb + 3 \in Nat
    OBVIOUS
  <2> QED BY <2>1
<1>10. PICK a : a = In(cur, <<Br(x)>>)
  OBVIOUS
<1>11. PICK b : b = In(x, Append(e.code, CondBr(e.val, y, z)))
  OBVIOUS
<1>12. Lower(a \o b, 3, y, <<Stmt(Part(2)), <<"loop", x, z>> >>)
  BY <1>6, <1>7, <1>9, <1>10, <1>11 DEF LowerWhile
<1>13. /\ x \notin 1 .. nb /\ y \notin 1 .. nb /\ z \notin 1 .. nb /\ x # y /\ x # z /\ y # z
       /\ nb + 1 .. nb + 3 = {x, y, z} /\ x \in 1 .. z /\ y \in 1 .. z /\ z \in 1 .. z
  BY <1>9
<1>14. Function(instrs, z, owned \cup {cur} \cup {x, y, z})
  <2>1. owned \cup Owned(Task) \cup {cur} = owned \cup {cur}
    BY <1>3
  <2>2. Function(instrs, nb, owned \cup {cur})
    BY <1>2, <1>6, <2>1
  <2>3. Function(instrs, nb + 3, owned \cup {cur} \cup (nb + 1 .. nb + 3))
    BY <2>2, MoreBlocks
  <2> QED BY <1>9, <1>13, <2>3
<1>15. Function(instrs \o a, z, owned \cup {x, y, z})
  <2>1. Function(instrs \o a, z, (owned \cup {cur} \cup {x, y, z}) \ {cur})
    BY <1>10, <1>13, <1>14, ExtendedBr
  <2>2. (owned \cup {cur} \cup {x, y, z}) \ {cur} = owned \cup {x, y, z}
    BY <1>2, <1>6, <1>13
  <2> QED BY <2>1, <2>2
<1>16. a \in Seq(Built) /\ Len(a) = 1
  <2>1. Br(x) \in Built
    <3>1. 0 \in Int /\ ret_ref \in Allocas
      BY DEF Allocas
    <3> QED BY <3>1, BuiltStmt
  <2>2. <<Br(x)>> \in Seq(Built) /\ Len(<<Br(x)>>) = 1
    BY <2>1
  <2>3. PICK one \in Seq(Built) : one = <<Br(x)>> /\ Len(one) = 1
    BY <2>2
  <2>4. PICK n \in Nat : n = cur
    BY <1>2
  <2> QED BY <1>10, <2>3, <2>4, InFacts
<1>17. Len(instrs \o a) = k + 1
  <2>1. Len(instrs \o a) = Len(instrs) + Len(a)
    BY <1>2, <1>16, ConcatProperties
  <2> QED BY <1>5, <1>16, <2>1
<1>18. Function((instrs \o a) \o b, z, owned \cup {y, z})
  <2>1. Function((instrs \o a) \o b, z, (owned \cup {x, y, z}) \ {x})
    BY <1>8, <1>11, <1>13, <1>15, <1>17, ExtendedCond
  <2>2. (owned \cup {x, y, z}) \ {x} = owned \cup {y, z}
    BY <1>2, <1>6, <1>13
  <2> QED BY <2>1, <2>2
<1>19. instrs \o (a \o b) = (instrs \o a) \o b
  <2>1. b \in Seq(Built)
    <3>1. Append(e.code, CondBr(e.val, y, z)) \in Seq(Built)
      <4>1. k + 1 \in Nat
        OBVIOUS
      <4>2. e.code \in Seq(Built) /\ CondBr(e.val, y, z) \in Built
        BY <1>8, <4>1, CondThen
      <4> QED BY <4>2, AppendFacts
    <3> QED BY <1>11, <3>1, InFacts
  <2> QED BY <1>2, <1>16, <2>1, ConcatAssociative
<1>20. LeftToDo(<<Stmt(Part(2)), <<"loop", x, z>> >> \o Tail(work), z, owned \cup {z})
  <2>1. PICK t : t = <<"loop", x, z>>
    OBVIOUS
  <2>2. t \in TasksIn(z) /\ Owned(t) = {z}
    BY <1>13, <2>1 DEF TasksIn, Owned
  <2>3. LeftToDo(rest, z, owned)
    BY <1>2, <1>6, <1>9, LeftMore
  <2>4. Owned(t) \cap owned = {}
    BY <1>2, <1>6, <1>13, <2>2
  <2>5. LeftToDo(<<Stmt(Part(2)), t>> \o rest, z, owned \cup Owned(t))
    BY <1>4, <2>2, <2>3, <2>4, TwoTasks
  <2> QED BY <1>2, <2>1, <2>2, <2>5
<1>21. y \notin owned \cup {z}
  BY <1>2, <1>6, <1>13
<1>22. owned \cup {z} \cup {y} = owned \cup {y, z}
  OBVIOUS
<1>23. PICK code, tasks, all : /\ code = a \o b /\ all = owned \cup {z}
                               /\ tasks = <<Stmt(Part(2)), <<"loop", x, z>> >>
  OBVIOUS
<1>24. /\ Lower(code, 3, y, tasks) /\ LeftToDo(tasks \o Tail(work), nblocks + 3, all)
       /\ y \notin all /\ Function(instrs \o code, nblocks + 3, all \cup {y})
  BY <1>6, <1>9, <1>12, <1>18, <1>19, <1>20, <1>21, <1>22, <1>23
<1> QED BY <1>24, LowerTo

LEMMA EndWhileStep ==
  ASSUME Prepared, PartWay(instrs, nblocks, cur, work), EndWhile
  PROVE  PartWay(instrs, nblocks, cur, work)' /\ UNCHANGED <<scopevars, visited, kept, at>>
<1>1. work # <<>> /\ Task[1] = "loop"
  BY DEF EndWhile, Closing
<1>2. PICK owned, rest :
           /\ rest = Tail(work) /\ LeftToDo(rest, nblocks, owned)
           /\ Task \in TasksIn(nblocks) /\ cur \notin owned
           /\ Owned(Task) \cap owned = {} /\ cur \notin Owned(Task)
           /\ Function(instrs, nblocks, owned \cup Owned(Task) \cup {cur})
           /\ nblocks \in Nat /\ instrs \in Seq(Built)
  BY <1>1, AtTask
<1>3. Task[2] \in 1 .. nblocks /\ Owned(Task) = {Task[3]}
  BY <1>1, <1>2, TaskKinds
<1>4. PICK code : code = In(cur, <<Br(Task[2])>>)
  OBVIOUS
<1>5. Function(instrs \o code, nblocks, (owned \cup Owned(Task) \cup {cur}) \ {cur})
  BY <1>2, <1>3, <1>4, ExtendedBr
<1>6. (owned \cup Owned(Task) \cup {cur}) \ {cur} = owned \cup {Task[3]} /\ Task[3] \notin owned
  BY <1>2, <1>3
<1>7. nblocks + 0 = nblocks
  BY <1>2
<1>8. LeftToDo(<<>> \o Tail(work), nblocks + 0, owned)
  BY <1>2, <1>7, NoTasks
<1>9. Lower(code, 0, Task[3], <<>>)
  BY <1>4 DEF EndWhile
<1>10. PICK f : f = Task[3]
  OBVIOUS
<1>11. /\ Lower(code, 0, f, <<>>) /\ f \notin owned
       /\ Function(instrs \o code, nblocks + 0, owned \cup {f})
  BY <1>5, <1>6, <1>7, <1>9, <1>10
<1> QED BY <1>8, <1>11, LowerTo

LEMMA EndIfStep ==
  ASSUME Prepared, PartWay(instrs, nblocks, cur, work), EndIf
  PROVE  PartWay(instrs, nblocks, cur, work)' /\ UNCHANGED <<scopevars, visited, kept, at>>
<1>1. work # <<>> /\ Task[1] = "endif"
  BY DEF EndIf, Closing
<1>2. PICK owned, rest :
           /\ rest = Tail(work) /\ LeftToDo(rest, nblocks, owned)
           /\ Task \in TasksIn(nblocks) /\ cur \notin owned
           /\ Owned(Task) \cap owned = {} /\ cur \notin Owned(Task)
           /\ Function(instrs, nblocks, owned \cup Owned(Task) \cup {cur})
           /\ nblocks \in Nat /\ instrs \in Seq(Built)
  BY <1>1, AtTask
<1>3. Task[2] \in 1 .. nblocks /\ Owned(Task) = {Task[2]}
  BY <1>1, <1>2, TaskKinds
<1>4. PICK code : code = In(cur, <<Br(Task[2])>>)
  OBVIOUS
<1>5. Function(instrs \o code, nblocks, (owned \cup Owned(Task) \cup {cur}) \ {cur})
  BY <1>2, <1>3, <1>4, ExtendedBr
<1>6. (owned \cup Owned(Task) \cup {cur}) \ {cur} = owned \cup {Task[2]} /\ Task[2] \notin owned
  BY <1>2, <1>3
<1>7. nblocks + 0 = nblocks
  BY <1>2
<1>8. LeftToDo(<<>> \o Tail(work), nblocks + 0, owned)
  BY <1>2, <1>7, NoTasks
<1>9. Lower(code, 0, Task[2], <<>>)
  BY <1>4 DEF EndIf
<1>10. PICK f : f = Task[2]
  OBVIOUS
<1>11. /\ Lower(code, 0, f, <<>>) /\ f \notin owned
       /\ Function(instrs \o code, nblocks + 0, owned \cup {f})
  BY <1>5, <1>6, <1>7, <1>9, <1>10
<1> QED BY <1>8, <1>11, LowerTo

LEMMA LowerIfStep ==
  ASSUME Prepared, PartWay(instrs, nblocks, cur, work), LowerIf
  PROVE  PartWay(instrs, nblocks, cur, work)' /\ UNCHANGED <<scopevars, visited, kept, at>>
<1>1. work # <<>> /\ Task[1] = "stmt" /\ tree[Task[2]].kind = "if"
  BY DEF LowerIf, Lowering
<1>2. PICK owned, rest :
           /\ rest = Tail(work) /\ LeftToDo(rest, nblocks, owned)
           /\ Task \in TasksIn(nblocks) /\ cur \notin owned
           /\ Function(instrs, nblocks, owned \cup Owned(Task) \cup {cur})
           /\ nblocks \in Nat /\ instrs \in Seq(Built)
           /\ cur \in 1 .. nblocks /\ owned \subseteq 1 .. nblocks
  BY <1>1, AtTask
<1>3. Task[2] \in StmtNodes /\ Owned(Task) = {}
  BY <1>1, <1>2, TaskKinds
<1>4. /\ Part(1) \in Conds /\ Part(2) \in StmtNodes /\ Len(Kids(Task[2])) \in {2, 3}
      /\ Len(Kids(Task[2])) = 3 => Part(3) \in StmtNodes
  BY <1>1, <1>3, StmtFacts DEF Part, Prepared
<1>5. PICK k \in Nat : k = Len(instrs)
  BY <1>2
<1>6. PICK nb \in Nat : nb = nblocks
  BY <1>2
<1>7. PICK e : e = Value(1, 0)
  OBVIOUS
<1>8. CondCode(e, k)
  <2>1. e = genIRExpr[Part(1)][k]
    BY <1>5, <1>7 DEF Value
  <2> QED BY <1>4, <2>1, CondsCode
<1>9. PICK y, z \in Nat : y = nb + 1 /\ z = nb + 2
  <2>1. nb + 1 \in Nat /\ nb + 2 \in Nat
    OBVIOUS
  <2> QED BY <2>1
<1>10. PICK code : code = In(cur, Append(e.code, CondBr(e.val, y, z)))
  OBVIOUS
<1>11. PICK t : /\ Lower(code, 2, y, <<Stmt(Part(2)), t>>)
                /\ t = IF Len(Kids(Task[2])) = 2 THEN <<"endif", z, 0>> ELSE <<"else", z, Part(3)>>
  <2>1. Lower(code, 2, y, IF Len(Kids(Task[2])) = 2
                            THEN <<Stmt(Part(2)), <<"endif", z, 0>> >>
                            ELSE <<Stmt(Part(2)), <<"else", z, Part(3)>> >>)
    BY <1>6, <1>7, <1>9, <1>10 DEF LowerIf
  <2> QED BY <2>1
<1>12. /\ y \notin 1 .. nb /\ z \notin 1 .. nb /\ y # z
       /\ nb + 1 .. nb + 2 = {y, z} /\ y \in 1 .. z /\ z \in 1 .. z
  BY <1>9
<1>13. t \in TasksIn(z) /\ Owned(t) = {z}
  BY <1>4, <1>11, <1>12 DEF TasksIn, Owned
<1>14. Function(instrs, z, owned \cup {cur} \cup {y, z})
  <2>1. owned \cup Owned(Task) \cup {cur} = owned \cup {cur}
    BY <1>3
  <2>2. Function(instrs, nb, owned \cup {cur})
    BY <1>2, <1>6, <2>1
  <2>3. Function(instrs, nb + 2, owned \cup {cur} \cup (nb + 1 .. nb + 2))
    BY <2>2, MoreBlocks
  <2> QED BY <1>9, <1>12, <2>3
<1>15. Function(instrs \o code, z, owned \cup {y, z})
  <2>1. Function(instrs \o code, z, (owned \cup {cur} \cup {y, z}) \ {cur})
    BY <1>5, <1>8, <1>10, <1>12, <1>14, ExtendedCond
  <2>2. (owned \cup {cur} \cup {y, z}) \ {cur} = owned \cup {y, z}
    BY <1>2, <1>6, <1>12
  <2> QED BY <2>1, <2>2
<1>16. LeftToDo(<<Stmt(Part(2)), t>> \o Tail(work), z, owned \cup {z})
  <2>1. LeftToDo(rest, z, owned)
    BY <1>2, <1>6, <1>9, LeftMore
  <2>2. Owned(t) \cap owned = {}
    BY <1>2, <1>6, <1>12, <1>13
  <2>3. LeftToDo(<<Stmt(Part(2)), t>> \o rest, z, owned \cup Owned(t))
    BY <1>4, <1>13, <2>1, <2>2, TwoTasks
  <2> QED BY <1>2, <1>13, <2>3
<1>17. y \notin owned \cup {z} /\ owned \cup {z} \cup {y} = owned \cup {y, z}
  BY <1>2, <1>6, <1>12
<1>18. PICK tasks, all : all = owned \cup {z} /\ tasks = <<Stmt(Part(2)), t>>
  OBVIOUS
<1>19. /\ Lower(code, 2, y, tasks) /\ LeftToDo(tasks \o Tail(work), nblocks + 2, all)
       /\ y \notin all /\ Function(instrs \o code, nblocks + 2, all \cup {y})
  BY <1>6, <1>9, <1>11, <1>15, <1>16, <1>17, <1>18
<1> QED BY <1>19, LowerTo

LEMMA NoCode ==
  ASSUME NEW nb, NEW open, Function(instrs, nb, open)
  PROVE  Function(instrs \o <<>>, nb, open)
<1>1. instrs \o <<>> = instrs
  BY DEF Function, GoodCode
<1> QED BY <1>1

LEMMA ElseStep ==
  ASSUME Prepared, PartWay(instrs, nblocks, cur, work), Else
  PROVE  PartWay(instrs, nblocks, cur, work)' /\ UNCHANGED <<scopevars, visited, kept, at>>
<1>1. work # <<>> /\ Task[1] = "else"
  BY DEF Else, Closing
<1>2. PICK owned, rest :
           /\ rest = Tail(work) /\ LeftToDo(rest, nblocks, owned)
           /\ Task \in TasksIn(nblocks) /\ cur \notin owned
           /\ Owned(Task) \cap owned = {} /\ cur \notin Owned(Task)
           /\ Function(instrs, nblocks, owned \cup Owned(Task) \cup {cur})
           /\ nblocks \in Nat /\ instrs \in Seq(Built) /\ cur \in 1 .. nblocks
  BY <1>1, AtTask
<1>3. Task[2] \in 1 .. nblocks /\ Task[3] \in StmtNodes /\ Owned(Task) = {Task[2]}
  BY <1>1, <1>2, TaskKinds
<1>4. PICK t : t = <<"join", cur, 0>>
  OBVIOUS
<1>5. t \in TasksIn(nblocks) /\ Owned(t) = {cur}
  BY <1>2, <1>4 DEF TasksIn, Owned
<1>6. LeftToDo(<<Stmt(Task[3]), t>> \o rest, nblocks, owned \cup Owned(t))
  BY <1>2, <1>3, <1>5, TwoTasks
<1>7. PICK tasks, all, f : /\ all = owned \cup {cur} /\ tasks = <<Stmt(Task[3]), t>> /\ f = Task[2]
  OBVIOUS
<1>8. nblocks + 0 = nblocks
  BY <1>2
<1>9. f \notin all /\ owned \cup Owned(Task) \cup {cur} = all \cup {f}
  BY <1>2, <1>3, <1>7
<1>10. Lower(<<>>, 0, f, tasks)
  BY <1>4, <1>7 DEF Else
<1>11. Function(instrs \o <<>>, nblocks + 0, all \cup {f})
  BY <1>2, <1>8, <1>9, NoCode
<1>12. LeftToDo(tasks \o Tail(work), nblocks + 0, all)
  BY <1>2, <1>5, <1>6, <1>7, <1>8
<1> QED BY <1>9, <1>10, <1>11, <1>12, LowerTo

LEMMA EndElseStep ==
  ASSUME Prepared, PartWay(instrs, nblocks, cur, work), EndElse
  PROVE  PartWay(instrs, nblocks, cur, work)' /\ UNCHANGED <<scopevars, visited, kept, at>>
<1>1. work # <<>> /\ Task[1] = "join"
  BY DEF EndElse, Closing
<1>2. PICK owned, rest :
           /\ rest = Tail(work) /\ LeftToDo(rest, nblocks, owned)
           /\ Task \in TasksIn(nblocks) /\ cur \notin owned
           /\ Owned(Task) \cap owned = {} /\ cur \notin Owned(Task)
           /\ Function(instrs, nblocks, owned \cup Owned(Task) \cup {cur})
           /\ nblocks \in Nat /\ instrs \in Seq(Built)
           /\ cur \in 1 .. nblocks /\ owned \subseteq 1 .. nblocks
  BY <1>1, AtTask
<1>3. Task[2] \in 1 .. nblocks /\ Owned(Task) = {Task[2]}
  BY <1>1, <1>2, TaskKinds
<1>4. PICK nb, x \in Nat : nb = nblocks /\ x = nb + 1
  BY <1>2
<1>5. PICK f : f = Task[2] /\ f \in 1 .. nb
  BY <1>3, <1>4
<1>6. PICK a : a = In(f, <<Br(x)>>)
  OBVIOUS
<1>7. PICK b : b = In(cur, <<Br(x)>>)
  OBVIOUS
<1>8. Lower(a \o b, 1, x, <<>>)
  BY <1>4, <1>5, <1>6, <1>7 DEF EndElse
<1>9. x \notin 1 .. nb /\ nb + 1 .. nb + 1 = {x} /\ x \in 1 .. x /\ f # cur /\ f \notin owned
  BY <1>2, <1>3, <1>4, <1>5
<1>10. Function(instrs, x, owned \cup {f, cur} \cup {x})
  <2>1. owned \cup Owned(Task) \cup {cur} = owned \cup {f, cur}
    BY <1>3, <1>5
  <2>2. Function(instrs, nb, owned \cup {f, cur})
    BY <1>2, <1>4, <2>1
  <2>3. Function(instrs, nb + 1, owned \cup {f, cur} \cup (nb + 1 .. nb + 1))
    BY <2>2, MoreBlocks
  <2> QED BY <1>4, <1>9, <2>3
<1>11. Function(instrs \o a, x, owned \cup {cur} \cup {x})
  <2>1. Function(instrs \o a, x, (owned \cup {f, cur} \cup {x}) \ {f})
    BY <1>6, <1>9, <1>10, ExtendedBr
  <2>2. (owned \cup {f, cur} \cup {x}) \ {f} = owned \cup {cur} \cup {x}
    BY <1>4, <1>5, <1>9
  <2> QED BY <2>1, <2>2
<1>12. Function((instrs \o a) \o b, x, owned \cup {x})
  <2>1. Function((instrs \o a) \o b, x, (owned \cup {cur} \cup {x}) \ {cur})
    BY <1>7, <1>9, <1>11, ExtendedBr
  <2>2. (owned \cup {cur} \cup {x}) \ {cur} = owned \cup {x}
    BY <1>2, <1>4, <1>9
  <2> QED BY <2>1, <2>2
<1>13. instrs \o (a \o b) = (instrs \o a) \o b
  <2>1. Br(x) \in Built
    <3>1. 0 \in Int /\ ret_ref \in Allocas
      BY DEF Allocas
    <3> QED BY <3>1, BuiltStmt
  <2>2. <<Br(x)>> \in Seq(Built)
    BY <2>1
  <2>3. PICK one \in Seq(Built) : one = <<Br(x)>>
    BY <2>2
  <2>4. PICK n, m \in Nat : n = cur /\ m = f
    BY <1>2, <1>5
  <2>5. a \in Seq(Built) /\ b \in Seq(Built)
    BY <1>6, <1>7, <2>3, <2>4, InFacts
  <2>6. instrs \in Seq(Built)
    BY <1>2
  <2> QED BY <2>5, <2>6, ConcatAssociative
<1>14. LeftToDo(<<>> \o Tail(work), x, owned)
  <2>1. LeftToDo(rest, x, owned)
    BY <1>2, <1>4, LeftMore
  <2> QED BY <1>2, <2>1, NoTasks
<1>15. PICK code : code = a \o b
  OBVIOUS
<1>16. /\ Lower(code, 1, x, <<>>) /\ LeftToDo(<<>> \o Tail(work), nblocks + 1, owned)
       /\ x \notin owned /\ Function(instrs \o code, nblocks + 1, owned \cup {x})
  BY <1>2, <1>4, <1>8, <1>9, <1>12, <1>13, <1>14, <1>15
<1> QED BY <1>16, LowerTo

LEMMA LowerRetStep ==
  ASSUME Prepared, PartWay(instrs, nblocks, cur, work), LowerRet
  PROVE  PartWay(instrs, nblocks, cur, work)' /\ UNCHANGED <<scopevars, visited, kept, at>>
<1>1. work # <<>> /\ Task[1] = "stmt" /\ tree[Task[2]].kind = "ret"
  BY DEF LowerRet, Lowering
<1>2. PICK owned, rest :
           /\ rest = Tail(work) /\ LeftToDo(rest, nblocks, owned)
           /\ Task \in TasksIn(nblocks) /\ cur \notin owned
           /\ Function(instrs, nblocks, owned \cup Owned(Task) \cup {cur})
           /\ nblocks \in Nat /\ instrs \in Seq(Built)
           /\ cur \in 1 .. nblocks /\ owned \subseteq 1 .. nblocks
  BY <1>1, AtTask
<1>3. Task[2] \in StmtNodes /\ Owned(Task) = {}
  BY <1>1, <1>2, TaskKinds
<1>4. Part(1) \in TermNodes
  BY <1>1, <1>3, StmtFacts DEF Part, Prepared
<1>5. PICK k \in Nat : k = Len(instrs)
  BY <1>2
<1>6. PICK nb, x \in Nat : nb = nblocks /\ x = nb + 1
  BY <1>2
<1>7. PICK e : e = Value(1, 0)
  OBVIOUS
<1>8. IsTerm(e, k)
  <2>1. e = genIRExpr[Part(1)][k]
    BY <1>5, <1>7 DEF Value
  <2> QED BY <1>4, <2>1, TermsCode
<1>9. PICK code : code = In(cur, e.code \o <<Store(e.val, ret_ref), Br(retBB)>>)
  OBVIOUS
<1>10. Lower(code, 1, x, <<>>)
  BY <1>6, <1>7, <1>9 DEF LowerRet
<1>11. x \notin 1 .. nb /\ nb + 1 .. nb + 1 = {x} /\ x \in 1 .. x
  BY <1>6
<1>12. Function(instrs, x, owned \cup {cur} \cup {x}) /\ retBB \in 1 .. x
  <2>1. owned \cup Owned(Task) \cup {cur} = owned \cup {cur}
    BY <1>3
  <2>2. Function(instrs, nb, owned \cup {cur})
    BY <1>2, <1>6, <2>1
  <2>3. Function(instrs, nb + 1, owned \cup {cur} \cup (nb + 1 .. nb + 1))
    BY <2>2, MoreBlocks
  <2>4. nb >= 2
    BY <2>2 DEF Function
  <2> QED BY <1>6, <1>11, <2>3, <2>4 DEF retBB
<1>13. Function(instrs \o code, x, owned \cup {x})
  <2>1. Function(instrs \o code, x, (owned \cup {cur} \cup {x}) \ {cur})
    BY <1>5, <1>8, <1>9, <1>12, ExtendedRet
  <2>2. (owned \cup {cur} \cup {x}) \ {cur} = owned \cup {x}
    BY <1>2, <1>6, <1>11
  <2> QED BY <2>1, <2>2
<1>14. LeftToDo(<<>> \o Tail(work), x, owned)
  <2>1. LeftToDo(rest, x, owned)
    BY <1>2, <1>6, LeftMore
  <2> QED BY <1>2, <2>1, NoTasks
<1>15. /\ LeftToDo(<<>> \o Tail(work), nblocks + 1, owned)
       /\ x \notin owned /\ Function(instrs \o code, nblocks + 1, owned \cup {x})
  BY <1>2, <1>6, <1>11, <1>13, <1>14
<1> QED BY <1>10, <1>15, LowerTo

LEMMA LowerBlockStep ==
  ASSUME Prepared, PartWay(instrs, nblocks, cur, work), LowerBlock
  PROVE  PartWay(instrs, nblocks, cur, work)' /\ UNCHANGED <<scopevars, visited, kept, at>>
<1>1. work # <<>> /\ Task[1] = "stmt" /\ tree[Task[2]].kind = "block"
  BY DEF LowerBlock, Lowering
<1>2. PICK owned, rest :
           /\ rest = Tail(work) /\ LeftToDo(rest, nblocks, owned)
           /\ Task \in TasksIn(nblocks) /\ cur \notin owned
           /\ Function(instrs, nblocks, owned \cup Owned(Task) \cup {cur})
           /\ nblocks \in Nat /\ instrs \in Seq(Built)
  BY <1>1, AtTask
<1>3. Task[2] \in StmtNodes /\ Owned(Task) = {}
  BY <1>1, <1>2, TaskKinds
<1>4. PICK c \in Seq(Nat) : c = Kids(Task[2]) /\ \A i \in DOMAIN c : c[i] \in StmtNodes
  BY <1>1, <1>3, StmtFacts DEF Prepared
<1>5. PICK tasks : tasks = [i \in DOMAIN c |-> Stmt(c[i])]
  OBVIOUS
<1>6. Lower(<<>>, 0, cur, tasks)
  BY <1>4, <1>5 DEF LowerBlock, Part
<1>7. nblocks + 0 = nblocks
  BY <1>2
<1>8. LeftToDo(tasks \o Tail(work), nblocks + 0, owned)
  BY <1>2, <1>4, <1>5, <1>7, LeftStmts
<1>9. Function(instrs \o <<>>, nblocks + 0, owned \cup {cur})
  <2>1. owned \cup Owned(Task) \cup {cur} = owned \cup {cur}
    BY <1>3
  <2> QED BY <1>2, <1>7, <2>1, NoCode
<1> QED BY <1>2, <1>6, <1>8, <1>9, LowerTo

LEMMA LowerDeclStep ==
  ASSUME Prepared, PartWay(instrs, nblocks, cur, work), LowerDecl
  PROVE  PartWay(instrs, nblocks, cur, work)' /\ UNCHANGED <<scopevars, visited, kept, at>>
<1>1. work # <<>> /\ Task[1] = "stmt" /\ Lower(<<>>, 0, cur, <<>>)
  BY DEF LowerDecl, Lowering
<1>2. PICK owned, rest :
           /\ rest = Tail(work) /\ LeftToDo(rest, nblocks, owned)
           /\ Task \in TasksIn(nblocks) /\ cur \notin owned
           /\ Function(instrs, nblocks, owned \cup Owned(Task) \cup {cur})
           /\ nblocks \in Nat /\ instrs \in Seq(Built)
  BY <1>1, AtTask
<1>3. Owned(Task) = {}
  BY <1>1, <1>2, TaskKinds
<1>4. nblocks + 0 = nblocks
  BY <1>2
<1>5. LeftToDo(<<>> \o Tail(work), nblocks + 0, owned)
  BY <1>2, <1>4, NoTasks
<1>6. Function(instrs \o <<>>, nblocks + 0, owned \cup {cur})
  <2>1. owned \cup Owned(Task) \cup {cur} = owned \cup {cur}
    BY <1>3
  <2> QED BY <1>2, <1>4, <2>1, NoCode
<1> QED BY <1>1, <1>2, <1>5, <1>6, LowerTo

-----------------------------------------------------------------------------
\* An empty function with the two blocks that build_ir makes.
LEMMA TwoBlocks == Function(<<>>, 2, {1, 2})
<1>1. GoodCode(<<>>, 0)
  BY DEF GoodCode
<1>2. \A j \in DOMAIN <<>> : FALSE
  OBVIOUS
<1>3. {1, 2} = 1 .. 2 /\ 2 \in Nat /\ 2 >= 2
  OBVIOUS
<1> QED BY <1>1, <1>2, <1>3 DEF Function, Inside, Unended

\* The argument of the call, put into the variable of the parameter.
LEMMA ParamGood ==
  ASSUME NEW x \in Allocas, Prepared
  PROVE  GoodCode(<<Store(0, x)>>, 0) /\ Straight(<<Store(0, x)>>) /\ <<Store(0, x)>> \in Seq(Built)
<1>1. PICK i \in Built : i = Store(0, x) /\ Fits(i) /\ i.op = "store" /\ i.args = <<0>>
  <2>1. 0 \in Int /\ 0 \in Nat
    OBVIOUS
  <2> QED BY <2>1, BuiltStmt
<1>2. PICK c \in Seq(Built) : c = <<i>> /\ DOMAIN c = {1} /\ c[1] = i
  <2>1. <<i>> \in Seq(Built) /\ DOMAIN <<i>> = {1} /\ <<i>>[1] = i
    OBVIOUS
  <2> QED BY <2>1
<1>3. OperandFits(c, 1, 0, 0)
  BY <1>1, <1>2 DEF OperandFits
<1>4. \A n \in DOMAIN i.args : i.args[n] = 0
  BY <1>1
<1>5. InstrFits(c, 1, 0)
  BY <1>1, <1>2, <1>3, <1>4 DEF InstrFits
<1> QED BY <1>1, <1>2, <1>5 DEF GoodCode, Straight, Terminators

\* The result, loaded and returned.
LEMMA RetGood ==
  ASSUME NEW k \in Nat, Prepared
  PROVE  LET l == Instr("load", <<>>, ret_ref, <<>>)
             r == Instr("ret", <<k + 1>>, <<"">>, <<>>)
         IN  /\ GoodCode(Append(<<l>>, r), k) /\ Straight(<<l>>) /\ <<l>> \in Seq(Built)
             /\ r \in Built /\ r.op = "ret" /\ r.succ = <<>> /\ Append(<<l>>, r) = <<l, r>>
<1>1. PICK i : i = Instr("load", <<>>, ret_ref, <<>>)
  OBVIOUS
<1>2. PICK h : h = Instr("ret", <<k + 1>>, <<"">>, <<>>)
  OBVIOUS
<1>3. i.op = "load" /\ i.args = <<>> /\ i.sym = ret_ref /\ i.bb = 0 /\ i.succ = <<>>
  BY <1>1 DEF Instr
<1>4. h.op = "ret" /\ h.args = <<k + 1>> /\ h.bb = 0 /\ h.succ = <<>>
  BY <1>2 DEF Instr
<1>5. <<>> \in Seq(Int)
  OBVIOUS
<1>6. <<>> \in Seq(Nat)
  OBVIOUS
<1>7. <<k + 1>> \in Seq(Int) /\ Len(<<k + 1>>) = 1
  OBVIOUS
<1>8. i \in Built /\ Fits(i)
  <2>1. ret_ref \in Allocas /\ ret_ref \in AllSyms /\ "load" \in AllOps
    BY BuiltFacts DEF Allocas, AllOps
  <2> QED BY <1>1, <1>3, <1>5, <1>6, <2>1, BuiltFacts DEF Fits
<1>9. h \in Built /\ Fits(h)
  <2>1. <<"">> \in AllSyms /\ "ret" \in AllOps
    BY BuiltFacts DEF Operators, AllOps
  <2> QED BY <1>2, <1>4, <1>6, <1>7, <2>1, BuiltFacts DEF Fits
<1>10. PICK c : c = Append(<<i>>, h)
  OBVIOUS
<1>11. c \in Seq(Built) /\ DOMAIN c = {1, 2} /\ c[1] = i /\ c[2] = h /\ <<i>> \in Seq(Built)
  <2>1. <<i>> \in Seq(Built) /\ Len(<<i>>) = 1 /\ <<i>>[1] = i
    BY <1>8
  <2>2. /\ Append(<<i>>, h) \in Seq(Built) /\ DOMAIN Append(<<i>>, h) = 1 .. 1 + 1
        /\ Append(<<i>>, h)[1 + 1] = h /\ \A j \in 1 .. 1 : Append(<<i>>, h)[j] = <<i>>[j]
    BY <1>9, <2>1, AppendFacts
  <2>3. 1 .. 1 + 1 = {1, 2} /\ 1 + 1 = 2 /\ 1 \in 1 .. 1
    OBVIOUS
  <2> QED BY <1>10, <2>1, <2>2, <2>3
<1>12. InstrFits(c, 1, k)
  <2>1. DOMAIN c[1].args = {}
    BY <1>3, <1>11
  <2> QED BY <1>3, <1>8, <1>11, <2>1 DEF InstrFits
<1>13. InstrFits(c, 2, k)
  <2>1. \A n \in DOMAIN c[2].args : c[2].args[n] = k + 1
    BY <1>4, <1>11
  <2>2. (k + 1) - k = 1 /\ k + 1 > 0 /\ 1 \in 1 .. 2 - 1
    OBVIOUS
  <2>3. OperandFits(c, 2, k + 1, k)
    BY <1>3, <1>4, <1>11, <2>2 DEF OperandFits, PureOps
  <2> QED BY <1>4, <1>9, <1>11, <2>1, <2>3 DEF InstrFits
<1>14. GoodCode(c, k)
  BY <1>11, <1>12, <1>13 DEF GoodCode
<1>15. Straight(<<i>>)
  BY <1>3 DEF Straight, Terminators
<1>16. Append(<<i>>, h) = <<i, h>>
  <2>1. <<i>> \in Seq(Built) /\ h \in Built
    BY <1>9, <1>11
  <2>2. Append(<<i>>, h) = <<i>> \o <<h>>
    BY <2>1, AppendIsConcat
  <2> QED BY <2>2, Pairs
<1> QED BY <1>1, <1>2, <1>4, <1>9, <1>10, <1>11, <1>14, <1>15, <1>16

-----------------------------------------------------------------------------

LEMMA BeginIRStep ==
  ASSUME Prepared, BeginIR
  PROVE  PartWay(instrs, nblocks, cur, work)'
<1>0. PICK stores : /\ stores = IF Params = {} THEN <<>>
                                ELSE In(entryBB, <<Store(0, name[CHOOSE p \in Params : TRUE])>>)
                    /\ instrs' = stores \o In(retBB,
                                             <<Instr("load", <<>>, ret_ref, <<>>),
                                               Instr("ret", <<Len(stores) + 1>>, <<"">>, <<>>)>>)
  BY DEF BeginIR
<1>1. nblocks' = 2 /\ cur' = 1 /\ work' = <<Stmt(Body)>> /\ tree' = tree /\ name' = name
  BY DEF BeginIR, entryBB
<1>2. Function(<<>> \o stores, 2, {1, 2})
  <2>1. CASE Params = {}
    <3>1. <<>> \o <<>> = <<>>
      OBVIOUS
    <3> QED BY <1>0, <2>1, <3>1, TwoBlocks
  <2>2. CASE Params # {}
    <3>1. PICK x \in Allocas : x = name[CHOOSE p \in Params : TRUE]
      <4>1. PICK p \in Params : p = CHOOSE q \in Params : TRUE
        BY <2>2
      <4>2. p \in Decls
        BY <4>1, RootFacts DEF Decls, Prepared
      <4> QED BY <4>1, <4>2 DEF Allocas
    <3>2. PICK c : c = <<Store(0, x)>>
      OBVIOUS
    <3>3. GoodCode(c, 0) /\ Straight(c) /\ Len(<<>>) = 0
      BY <3>2, ParamGood
    <3>4. Function(<<>> \o In(1, c), 2, {1, 2})
      BY <3>3, TwoBlocks, ExtendedStraight
    <3>5. stores = In(1, c)
      BY <1>0, <2>2, <3>1, <3>2 DEF entryBB
    <3> QED BY <3>4, <3>5
  <2> QED BY <2>1, <2>2
<1>3. <<>> \o stores = stores /\ stores \in Seq(Built)
  <2>1. CASE Params = {}
    <3>1. <<>> \o <<>> = <<>> /\ <<>> \in Seq(Built)
      OBVIOUS
    <3> QED BY <1>0, <2>1, <3>1
  <2>2. CASE Params # {}
    <3>1. PICK x \in Allocas : x = name[CHOOSE p \in Params : TRUE]
      <4>1. PICK p \in Params : p = CHOOSE q \in Params : TRUE
        BY <2>2
      <4>2. p \in Decls
        BY <4>1, RootFacts DEF Decls, Prepared
      <4> QED BY <4>1, <4>2 DEF Allocas
    <3>2. PICK c \in Seq(Built) : c = <<Store(0, x)>>
      BY ParamGood
    <3>3. stores = In(1, c) /\ 1 \in Nat
      BY <1>0, <2>2, <3>1, <3>2 DEF entryBB
    <3>4. stores \in Seq(Built)
      BY <3>3, InFacts
    <3> QED BY <3>4
  <2> QED BY <2>1, <2>2
<1>4. Function(stores, 2, {1, 2})
  BY <1>2, <1>3
<1>5. PICK k \in Nat : k = Len(stores)
  BY <1>3
<1>6. PICK l \in Built : l = Instr("load", <<>>, ret_ref, <<>>)
  <2>1. <<>> \in Seq(Int)
    OBVIOUS
  <2>2. <<>> \in Seq(Nat)
    OBVIOUS
  <2>3. "load" \in AllOps
    BY DEF AllOps
  <2> QED BY <2>1, <2>2, <2>3, BuiltFacts
<1>7. PICK r : r = Instr("ret", <<k + 1>>, <<"">>, <<>>)
  OBVIOUS
<1>8. /\ GoodCode(Append(<<l>>, r), k) /\ Straight(<<l>>) /\ <<l>> \in Seq(Built)
      /\ r \in Built /\ r.op = "ret" /\ r.succ = <<>> /\ Append(<<l>>, r) = <<l, r>>
  BY <1>6, <1>7, RetGood
<1>9. \A j \in DOMAIN r.succ : r.succ[j] \in 1 .. 2
  BY <1>8
<1>10. Function(stores \o In(2, Append(<<l>>, r)), 2, {1, 2} \ {2})
  BY <1>4, <1>5, <1>8, <1>9, ExtendedEnded DEF Terminators
<1>11. {1, 2} \ {2} = {} \cup {1} /\ 1 \notin {}
  OBVIOUS
<1>12. instrs' = stores \o In(2, <<l, r>>)
  BY <1>0, <1>5, <1>6, <1>7 DEF retBB
<1>13. PICK s : s = instrs'
  OBVIOUS
<1>14. Function(s, 2, {} \cup {1})
  BY <1>8, <1>10, <1>11, <1>12, <1>13
<1>15. PICK w : w = work'
  OBVIOUS
<1>16. LeftToDo(w, 2, {})
  <2>1. Body \in StmtNodes
    BY BodyStmt DEF Prepared
  <2>2. Stmt(Body) \in TasksIn(2) /\ Owned(Stmt(Body)) = {}
    BY <2>1 DEF Stmt, TasksIn, Owned
  <2>3. w = <<Stmt(Body)>>
    BY <1>1, <1>15
  <2>4. w \in Seq(TasksIn(2)) /\ DOMAIN w = {1} /\ w[1] = Stmt(Body)
    BY <2>2, <2>3
  <2> QED BY <2>2, <2>4 DEF LeftToDo
<1>17. PartWay(s, 2, 1, w)
  BY <1>11, <1>14, <1>16 DEF PartWay
<1>18. PartWay(s, 2, 1, w)'
  BY <1>1, <1>17, SameFunction
<1> QED BY <1>1, <1>13, <1>15, <1>18

LEMMA FinishStep ==
  ASSUME Prepared, PartWay(instrs, nblocks, cur, work), Finish
  PROVE  Function(instrs, nblocks, {})' /\ (cur \in 1 .. nblocks)'
<1>1. PICK owned : LeftToDo(work, nblocks, owned) /\ Function(instrs, nblocks, owned \cup {cur})
  BY DEF PartWay
<1>2. work = <<>>
  BY DEF Finish
<1>3. owned = {}
  BY <1>1, <1>2 DEF LeftToDo
<1>4. Function(instrs, nblocks, {cur})
  BY <1>1, <1>3
<1>5. instrs \in Seq(Built) /\ nblocks \in Nat /\ nblocks >= 2 /\ cur \in 1 .. nblocks
  BY <1>4 DEF Function, GoodCode
<1>6. Ends(cur) = {}
  BY <1>4, <1>5 DEF Function, Unended, Ends
<1>7. instrs' = instrs \o In(cur, <<Store(Constant(0), ret_ref), Br(retBB)>>)
  BY <1>6 DEF Finish
<1>8. UNCHANGED <<tree, name, nblocks, cur>>
  BY DEF Finish, unchangedByDeleting
<1>9. PICK e : e = [code |-> <<>>, val |-> Constant(0)]
  OBVIOUS
<1>10. IsTerm(e, Len(instrs))
  <2>1. TermCode(<<>>, Len(instrs))
    BY DEF TermCode
  <2>2. IsWord(Constant(0))
    BY WordFacts
  <2> QED BY <1>9, <2>1, <2>2 DEF IsTerm, ValueOf
<1>11. retBB \in 1 .. nblocks
  BY <1>5 DEF retBB
<1>12. Function(instrs \o In(cur, e.code \o <<Store(e.val, ret_ref), Br(retBB)>>),
               nblocks, {cur} \ {cur})
  BY <1>4, <1>10, <1>11, ExtendedRet
<1>13. {cur} \ {cur} = {}
  OBVIOUS
<1>14. e.code \o <<Store(e.val, ret_ref), Br(retBB)>> = <<Store(Constant(0), ret_ref), Br(retBB)>>
  <2>1. Store(Constant(0), ret_ref) \in Built /\ Br(retBB) \in Built
    <3>1. Constant(0) \in Int /\ ret_ref \in Allocas /\ retBB \in Nat
      BY DEF Constant, Allocas, retBB
    <3> QED BY <3>1, BuiltStmt
  <2>2. PICK c \in Seq(Built) : c = <<Store(Constant(0), ret_ref), Br(retBB)>>
    <3>1. <<Store(Constant(0), ret_ref), Br(retBB)>> \in Seq(Built)
      BY <2>1
    <3> QED BY <3>1
  <2>3. <<>> \o c = c
    OBVIOUS
  <2> QED BY <1>9, <2>2, <2>3
<1>15. PICK s, nb : s = instrs' /\ nb = nblocks'
  OBVIOUS
<1>16. Function(s, nb, {})
  BY <1>7, <1>8, <1>12, <1>13, <1>14, <1>15
<1>17. Function(s, nb, {})'
  BY <1>8, <1>16, SameFunction
<1> QED BY <1>5, <1>8, <1>15, <1>17

-----------------------------------------------------------------------------

\* One more step from the blocks in near.
Wider(near) == near \cup UNION {Succs(b) : b \in near}

WidenedBy(n, g) ==
  g = [k \in 0 .. n |-> IF k = 0 THEN {entryBB}
                        ELSE LET near == g[k - 1] IN near \cup UNION {Succs(b) : b \in near}]

\* The recursive definition in Reachable has a solution.
LEMMA WidenedExists ==
  ASSUME NEW m \in Nat
  PROVE  \E g : WidenedBy(m, g)
<1> DEFINE T == {n \in Nat : \E g : WidenedBy(n, g)}
<1>1. 0 \in T
  <2> DEFINE g == [k \in 0 .. 0 |-> {entryBB}]
  <2>1. g = [k \in 0 .. 0 |-> IF k = 0 THEN {entryBB}
                              ELSE LET near == g[k - 1] IN near \cup UNION {Succs(b) : b \in near}]
    OBVIOUS
  <2>2. WidenedBy(0, g)
    BY <2>1 DEF WidenedBy
  <2> QED BY <2>2
<1>2. ASSUME NEW n \in Nat, n \in T PROVE n + 1 \in T
  <2>1. PICK g : WidenedBy(n, g)
    BY <1>2
  <2> DEFINE h == [k \in 0 .. n + 1 |-> IF k <= n THEN g[k] ELSE Wider(g[n])]
  <2>2. /\ g[0] = {entryBB}
        /\ \A k \in 1 .. n : g[k] = Wider(g[k - 1])
    <3>1. \A k \in 0 .. n : g[k] = IF k = 0 THEN {entryBB} ELSE Wider(g[k - 1])
      BY <2>1 DEF WidenedBy, Wider
    <3>2. 0 \in 0 .. n /\ \A k \in 1 .. n : k \in 0 .. n /\ k # 0
      OBVIOUS
    <3> QED BY <3>1, <3>2
  <2>3. ASSUME NEW k \in 0 .. n + 1
        PROVE  h[k] = IF k = 0 THEN {entryBB} ELSE Wider(h[k - 1])
    <3>1. CASE k = 0
      BY <2>2, <3>1
    <3>2. CASE k \in 1 .. n
      <4>1. k - 1 \in 0 .. n + 1 /\ k - 1 <= n /\ k <= n /\ k # 0
        BY <3>2
      <4>2. h[k - 1] = g[k - 1] /\ h[k] = g[k]
        BY <4>1
      <4> HIDE DEF h
      <4> QED BY <2>2, <3>2, <4>1, <4>2
    <3>3. CASE k = n + 1
      <4>1. k - 1 = n /\ ~(k <= n) /\ k # 0 /\ n \in 0 .. n + 1 /\ n <= n
        BY <3>3
      <4>2. h[k - 1] = g[n] /\ h[k] = Wider(g[n])
        BY <4>1
      <4> HIDE DEF h
      <4> QED BY <4>1, <4>2
    <3> QED BY <3>1, <3>2, <3>3
  <2>4. h = [k \in 0 .. n + 1 |-> IF k = 0 THEN {entryBB} ELSE Wider(h[k - 1])]
    <3>1. PICK f : f = [k \in 0 .. n + 1 |-> IF k = 0 THEN {entryBB} ELSE Wider(h[k - 1])]
      OBVIOUS
    <3>2. \A k \in 0 .. n + 1 : f[k] = h[k]
      BY <2>3, <3>1
    <3>3. h = [k \in 0 .. n + 1 |-> h[k]] /\ f = [k \in 0 .. n + 1 |-> f[k]]
      BY <3>1
    <3> HIDE DEF h
    <3>4. f = h
      BY <3>2, <3>3
    <3> QED BY <3>1, <3>4
  <2> HIDE DEF h
  <2>5. WidenedBy(n + 1, h)
    BY <2>4 DEF WidenedBy, Wider
  <2> QED BY <2>5
<1> HIDE DEF T
<1>3. \A n \in Nat : n \in T
  BY <1>1, <1>2, NatSetInduction
<1> QED BY <1>3 DEF T

\* markReachableBB has been at the entry, and goes nowhere from where it has been.
Settled(bbs) ==
  bbs \subseteq 1 .. nblocks /\ entryBB \in bbs /\ \A b \in bbs : Succs(b) \subseteq bbs

\* nblocks rounds are enough: each but the last adds a block.
LEMMA ReachableSettled ==
  ASSUME Function(instrs, nblocks, {})
  PROVE  Settled(Reachable)
<1>0. nblocks \in Nat /\ nblocks >= 2
  BY DEF Function
<1> DEFINE g == CHOOSE g : WidenedBy(nblocks, g)
<1>1. WidenedBy(nblocks, g)
  BY <1>0, WidenedExists
<1>2. Reachable = g[nblocks]
  BY Zenon DEF Reachable, WidenedBy
<1> HIDE DEF g
<1>3. g[0] = {entryBB} /\ \A k \in 1 .. nblocks : g[k] = Wider(g[k - 1])
  <2>1. \A k \in 0 .. nblocks : g[k] = IF k = 0 THEN {entryBB} ELSE Wider(g[k - 1])
    BY <1>1 DEF WidenedBy, Wider
  <2>2. 0 \in 0 .. nblocks /\ \A k \in 1 .. nblocks : k \in 0 .. nblocks /\ k # 0
    BY <1>0
  <2> QED BY <2>1, <2>2
<1>4. \A b : Succs(b) \subseteq 1 .. nblocks
  BY DEF Function, Inside, Succs, Ends
<1>5. IsFiniteSet(1 .. nblocks) /\ Cardinality(1 .. nblocks) = nblocks
  BY <1>0, FS_Interval
<1> DEFINE Done(k) == \A b \in g[k] : Succs(b) \subseteq g[k]
           Good(k) == /\ entryBB \in g[k] /\ g[k] \subseteq 1 .. nblocks
                      /\ Done(k) \/ Cardinality(g[k]) >= k
           T == {k \in Nat : k <= nblocks => Good(k)}
<1>6. 0 \in T
  <2>1. entryBB \in g[0] /\ g[0] \subseteq 1 .. nblocks
    BY <1>0, <1>3 DEF entryBB
  <2>2. Cardinality(g[0]) \in Nat
    BY <2>1, <1>5, FS_Subset, FS_CardinalityType
  <2> QED BY <2>1, <2>2
<1>7. ASSUME NEW k \in Nat, k \in T PROVE k + 1 \in T
  <2> SUFFICES ASSUME k + 1 <= nblocks PROVE Good(k + 1)
    BY <1>7
  <2>0. k + 1 \in 1 .. nblocks /\ (k + 1) - 1 = k /\ k <= nblocks
    BY <1>0
  <2>1. g[k + 1] = Wider(g[k]) /\ Good(k)
    BY <1>3, <1>7, <2>0
  <2>2. PICK a, c : a = g[k] /\ c = g[k + 1] /\ c = Wider(a)
    BY <2>1
  <2>3. entryBB \in a /\ a \subseteq 1 .. nblocks /\ a \subseteq c /\ c \subseteq 1 .. nblocks
    BY <1>4, <2>1, <2>2 DEF Wider
  <2>4. IsFiniteSet(a) /\ IsFiniteSet(c)
    BY <1>5, <2>3, FS_Subset
  <2>5. CASE \A b \in a : Succs(b) \subseteq a
    <3>1. c = a
      BY <2>2, <2>5 DEF Wider
    <3> QED BY <2>2, <2>3, <2>5, <3>1
  <2>6. CASE ~(\A b \in a : Succs(b) \subseteq a)
    <3>1. a # c
      BY <2>2, <2>6 DEF Wider
    <3>2. Cardinality(a) \in Nat /\ Cardinality(c) \in Nat
      BY <2>4, FS_CardinalityType
    <3>3. Cardinality(a) <= Cardinality(c) /\ Cardinality(a) # Cardinality(c)
      BY <2>3, <2>4, <3>1, FS_Subset
    <3>4. Cardinality(a) >= k
      BY <2>1, <2>2, <2>6
    <3>5. Cardinality(c) >= k + 1
      BY <3>2, <3>3, <3>4
    <3> QED BY <2>2, <2>3, <3>5
  <2> QED BY <2>5, <2>6
<1> HIDE DEF T
<1>8. nblocks \in T
  BY <1>0, <1>6, <1>7, NatSetInduction
<1>9. Good(nblocks)
  BY <1>0, <1>8 DEF T
<1>10. CASE Cardinality(g[nblocks]) >= nblocks
  <2>1. Cardinality(g[nblocks]) \in Nat /\ Cardinality(g[nblocks]) <= nblocks
    BY <1>5, <1>9, FS_Subset, FS_CardinalityType
  <2>2. g[nblocks] = 1 .. nblocks
    BY <1>0, <1>5, <1>9, <1>10, <2>1, FS_Subset
  <2> QED BY <1>2, <1>4, <1>9, <2>2 DEF Settled
<1> QED BY <1>2, <1>9, <1>10 DEF Settled

-----------------------------------------------------------------------------
(***************************************************************************)
(* The invariant                                                           *)
(***************************************************************************)

ScopesPhases == {"analysis", "rejected", "rename", "renamed"}

DeletePhases == {"delete", "built", "aborted", "run"}

NothingKept == kept = {} /\ at = 0

\* rmUnreachableBB has looked at the blocks before at.
Deleting ==
  /\ Settled(visited)
  /\ at \in 1 .. nblocks + 1
  /\ kept = {b \in 1 .. nblocks : b < at => b \in visited}

BuiltIInv ==
  /\ phase \in ScopesPhases \cup {"lower", "mark"} \cup DeletePhases
  /\ phase \in ScopesPhases => ScopesIInv
  /\ phase \notin ScopesPhases => Prepared
  /\ phase \in ScopesPhases \cup {"lower", "mark"} => NothingKept
  /\ phase = "lower" => PartWay(instrs, nblocks, cur, work)
  /\ phase \in {"mark"} \cup DeletePhases => Function(instrs, nblocks, {}) /\ cur \in 1 .. nblocks
  /\ phase \in DeletePhases => Deleting
  /\ phase = "delete" => at <= nblocks
  /\ phase \in {"built", "run"} => at = nblocks + 1

LEMMA BuiltStart == BRInit => BuiltIInv
BY ScopesStart DEF BRInit, IRInit, BuiltIInv, ScopesPhases, DeletePhases, NothingKept, ScopesInit

LEMMA WalkStep ==
  ASSUME BuiltIInv, Walk
  PROVE  BuiltIInv'
<1>1. phase \in {"analysis", "rename"} /\ (Analyze \/ Rename)
  BY DEF Walk, Analyze, AnalyzeFunc, AnalyzeBlock, LeaveTable, AnalyzeDecl, AnalyzeVar,
         AnalyzeParts,
         Accept, Analyzing, Rename, RenameFunc, RenameBlock, LeaveScope, RenameDecl, RenameVar,
         RenameParts, EndRenaming, Renaming
<1>2. ScopesIInv /\ NothingKept
  BY <1>1 DEF BuiltIInv, ScopesPhases
<1>3. ScopesIInv'
  BY <1>1, <1>2, AnalyzeStep, RenameStep
<1>4. phase' \in ScopesPhases
  BY <1>3 DEF ScopesIInv, ScopesPhases
<1>5. NothingKept'
  BY <1>2 DEF Walk, irvars, NothingKept
<1> QED BY <1>3, <1>4, <1>5 DEF BuiltIInv, ScopesPhases, DeletePhases

\* What does not change.
LEMMA SameBuilt ==
  ASSUME Prepared, UNCHANGED <<tree, var_counter, name, instrs, nblocks>>
  PROVE  /\ Prepared'
         /\ Function(instrs, nblocks, {}) => Function(instrs, nblocks, {})'
         /\ Settled(visited) /\ visited' = visited => Settled(visited)'
         /\ \A b : Succs(b)' = Succs(b)
<1>1. Prepared'
  BY SamePrepared
<1>2. PICK s, nb : s = instrs /\ nb = nblocks
  OBVIOUS
<1>3. Function(s, nb, {}) => Function(s, nb, {})'
  BY SameFunction
<1>4. \A b : Succs(b)' = Succs(b)
  BY DEF Succs, Ends
<1>5. Settled(visited) /\ visited' = visited => Settled(visited)'
  BY <1>4 DEF Settled
<1> QED BY <1>1, <1>2, <1>3, <1>4, <1>5

LEMMA BuiltStutter ==
  ASSUME BuiltIInv, UNCHANGED buildvars
  PROVE  BuiltIInv'
<1>1. UNCHANGED <<tree, phase, todo, symbol_tables, error_code, renamings, var_counter, name>>
  BY DEF buildvars, scopevars, walkvars
<1>2. UNCHANGED <<instrs, nblocks, cur, work, visited, kept, at>>
  BY DEF buildvars, irvars
<1>3. CASE phase \in ScopesPhases
  <2>1. ScopesIInv'
    BY <1>3, ScopesStutter DEF BuiltIInv, buildvars
  <2>2. NothingKept'
    BY <1>2, <1>3 DEF BuiltIInv, NothingKept
  <2> QED BY <1>1, <1>3, <2>1, <2>2 DEF BuiltIInv, ScopesPhases, DeletePhases
<1>4. CASE phase = "lower"
  <2>1. Prepared /\ NothingKept /\ PartWay(instrs, nblocks, cur, work)
    BY <1>4 DEF BuiltIInv, ScopesPhases
  <2>2. PICK s, nb, c, w : s = instrs /\ nb = nblocks /\ c = cur /\ w = work
    OBVIOUS
  <2>3. PartWay(s, nb, c, w)'
    BY <1>1, <2>1, <2>2, SameFunction
  <2>4. PartWay(instrs, nblocks, cur, work)'
    BY <1>2, <2>2, <2>3
  <2>5. Prepared' /\ NothingKept'
    BY <1>1, <1>2, <2>1, SamePrepared DEF NothingKept
  <2> QED BY <1>1, <1>4, <2>4, <2>5 DEF BuiltIInv, ScopesPhases, DeletePhases
<1>5. CASE phase \in {"mark"} \cup DeletePhases
  <2>1. Prepared /\ Function(instrs, nblocks, {}) /\ cur \in 1 .. nblocks
    BY <1>5 DEF BuiltIInv, ScopesPhases, DeletePhases
  <2>2. Prepared' /\ Function(instrs, nblocks, {})' /\ (Settled(visited) => Settled(visited)')
    BY <1>1, <1>2, <2>1, SameBuilt
  <2>3. (phase = "mark" => NothingKept)'
    BY <1>1, <1>2 DEF BuiltIInv, NothingKept
  <2>4. (phase \in DeletePhases => Deleting)'
    BY <1>1, <1>2, <2>2 DEF BuiltIInv, Deleting
  <2> QED BY <1>1, <1>2, <1>5, <2>1, <2>2, <2>3, <2>4 DEF BuiltIInv, ScopesPhases, DeletePhases
<1> QED BY <1>3, <1>4, <1>5 DEF BuiltIInv

LEMMA BeginStep ==
  ASSUME BuiltIInv, BeginIR
  PROVE  BuiltIInv'
<1>1. phase = "renamed" /\ phase' = "lower" /\ UNCHANGED <<tree, var_counter, name, kept, at>>
  BY DEF BeginIR
<1>2. ScopesIInv /\ NothingKept
  BY <1>1 DEF BuiltIInv, ScopesPhases
<1>3. Prepared
  BY <1>1, <1>2 DEF ScopesIInv, Prepared
<1>4. Prepared' /\ PartWay(instrs, nblocks, cur, work)' /\ NothingKept'
  BY <1>1, <1>2, <1>3, BeginIRStep, SamePrepared DEF NothingKept
<1> QED BY <1>1, <1>4 DEF BuiltIInv, ScopesPhases, DeletePhases

LEMMA LowerStep ==
  ASSUME BuiltIInv, LowerStmt
  PROVE  BuiltIInv'
<1>1. phase = "lower"
  BY DEF LowerStmt, LowerAsgn, LowerPrint, LowerWhile, EndWhile, LowerIf, EndIf, Else, EndElse,
         LowerRet, LowerBlock, LowerDecl, Lowering, Closing
<1>2. Prepared /\ PartWay(instrs, nblocks, cur, work) /\ NothingKept
  BY <1>1 DEF BuiltIInv, ScopesPhases
<1>3. PartWay(instrs, nblocks, cur, work)' /\ UNCHANGED <<scopevars, visited, kept, at>>
  BY <1>2, LowerAsgnStep, LowerPrintStep, LowerWhileStep, EndWhileStep, LowerIfStep, EndIfStep,
     ElseStep, EndElseStep, LowerRetStep, LowerBlockStep, LowerDeclStep DEF LowerStmt
<1>4. UNCHANGED <<tree, phase, var_counter, name, kept, at>>
  BY <1>3 DEF scopevars, walkvars
<1>5. Prepared' /\ NothingKept'
  BY <1>2, <1>4, SamePrepared DEF NothingKept
<1> QED BY <1>1, <1>3, <1>4, <1>5 DEF BuiltIInv, ScopesPhases, DeletePhases

LEMMA EndStep ==
  ASSUME BuiltIInv, Finish
  PROVE  BuiltIInv'
<1>1. phase = "lower" /\ phase' = "mark" /\ UNCHANGED <<tree, var_counter, name, kept, at>>
  BY DEF Finish, unchangedByDeleting
<1>2. Prepared /\ PartWay(instrs, nblocks, cur, work) /\ NothingKept
  BY <1>1 DEF BuiltIInv, ScopesPhases
<1>3. Function(instrs, nblocks, {})' /\ (cur \in 1 .. nblocks)'
  BY <1>2, FinishStep
<1>4. Prepared' /\ NothingKept'
  BY <1>1, <1>2, SamePrepared DEF NothingKept
<1> QED BY <1>1, <1>3, <1>4 DEF BuiltIInv, ScopesPhases, DeletePhases

LEMMA MarkStep ==
  ASSUME BuiltIInv, MarkReachable
  PROVE  BuiltIInv'
<1>1. /\ phase = "mark" /\ phase' = "delete"
      /\ UNCHANGED <<tree, var_counter, name, instrs, nblocks, cur>>
      /\ visited' = Reachable /\ kept' = 1 .. nblocks /\ at' = 1
  BY DEF MarkReachable, unchangedByDeleting, entryBB
<1>2. Prepared /\ Function(instrs, nblocks, {}) /\ cur \in 1 .. nblocks
  BY <1>1 DEF BuiltIInv, ScopesPhases
<1>3. Prepared' /\ Function(instrs, nblocks, {})' /\ \A b : Succs(b)' = Succs(b)
  BY <1>1, <1>2, SameBuilt
<1>4. PICK v : v = Reachable
  OBVIOUS
<1>5. Settled(v)
  BY <1>2, <1>4, ReachableSettled
<1>6. Settled(visited)'
  BY <1>1, <1>3, <1>4, <1>5 DEF Settled
<1>7. nblocks \in Nat /\ nblocks >= 2
  BY <1>2 DEF Function
<1>8. 1 \in 1 .. nblocks + 1 /\ 1 <= nblocks
      /\ 1 .. nblocks = {b \in 1 .. nblocks : b < 1 => b \in v}
  BY <1>7
<1>9. Deleting' /\ (at <= nblocks)'
  BY <1>1, <1>4, <1>6, <1>8 DEF Deleting
<1> QED BY <1>1, <1>2, <1>3, <1>9 DEF BuiltIInv, ScopesPhases, DeletePhases

LEMMA RemoveStep ==
  ASSUME BuiltIInv, Remove
  PROVE  BuiltIInv'
<1>1. /\ phase = "delete"
      /\ UNCHANGED <<tree, var_counter, name, instrs, nblocks, cur, visited>>
  BY DEF Remove, KeepBlock, DeleteBlock, AbortDelete, unchangedByDeleting
<1>2. /\ Prepared /\ Function(instrs, nblocks, {}) /\ cur \in 1 .. nblocks
      /\ Deleting /\ at <= nblocks
  BY <1>1 DEF BuiltIInv, ScopesPhases, DeletePhases
<1>3. Prepared' /\ Function(instrs, nblocks, {})' /\ Settled(visited)'
  BY <1>1, <1>2, SameBuilt DEF Deleting
<1>4. nblocks \in Nat /\ at \in 1 .. nblocks
      /\ kept = {b \in 1 .. nblocks : b < at => b \in visited}
  BY <1>2 DEF Function, Deleting
<1>5. ASSUME Onward, kept' = {b \in 1 .. nblocks : b < at + 1 => b \in visited} PROVE BuiltIInv'
  <2>1. /\ at' = at + 1 /\ phase' = IF at = nblocks THEN "built" ELSE "delete"
    BY <1>5 DEF Onward
  <2>2. at + 1 \in 1 .. nblocks + 1 /\ (at # nblocks => at + 1 <= nblocks)
    BY <1>4
  <2>3. Deleting'
    BY <1>1, <1>3, <1>5, <2>1, <2>2 DEF Deleting
  <2>4. phase' \in {"built", "delete"} /\ (phase' = "delete" => at # nblocks)
    BY <2>1
  <2>5. (phase = "delete" => at <= nblocks)' /\ (phase \in {"built", "run"} => at = nblocks + 1)'
    BY <1>1, <2>1, <2>2
  <2> QED BY <1>1, <1>2, <1>3, <2>3, <2>4, <2>5 DEF BuiltIInv, ScopesPhases, DeletePhases
<1>6. CASE KeepBlock
  <2>1. Onward /\ at \in visited /\ kept' = kept
    BY <1>6 DEF KeepBlock
  <2>2. \A b \in 1 .. nblocks : b < at + 1 <=> b < at \/ b = at
    BY <1>4
  <2>3. kept = {b \in 1 .. nblocks : b < at + 1 => b \in visited}
    BY <1>4, <2>1, <2>2
  <2> QED BY <1>5, <2>1, <2>3
<1>7. CASE DeleteBlock
  <2>1. Onward /\ at \notin visited /\ kept' = kept \ {at}
    BY <1>7 DEF DeleteBlock
  <2>2. \A b \in 1 .. nblocks : b < at + 1 <=> b < at \/ b = at
    BY <1>4
  <2>3. kept \ {at} = {b \in 1 .. nblocks : b < at + 1 => b \in visited}
    BY <1>4, <2>1, <2>2
  <2> QED BY <1>5, <2>1, <2>3
<1>8. CASE AbortDelete
  <2>1. phase' = "aborted" /\ UNCHANGED <<kept, at>>
    BY <1>8 DEF AbortDelete
  <2>2. Deleting'
    BY <1>1, <1>2, <1>3, <2>1 DEF Deleting
  <2> QED BY <1>1, <1>2, <1>3, <2>1, <2>2 DEF BuiltIInv, ScopesPhases, DeletePhases
<1> QED BY <1>6, <1>7, <1>8 DEF Remove

LEMMA RunStep ==
  ASSUME BuiltIInv, Run
  PROVE  BuiltIInv'
<1>1. CASE StartRun
  <2>1. /\ phase = "built" /\ phase' = "run"
        /\ UNCHANGED <<tree, var_counter, name, instrs, nblocks, cur, visited, kept, at>>
    BY <1>1 DEF StartRun, irvars
  <2>2. Prepared /\ Function(instrs, nblocks, {}) /\ cur \in 1 .. nblocks
        /\ Deleting /\ at = nblocks + 1
    BY <2>1 DEF BuiltIInv, ScopesPhases, DeletePhases
  <2>3. Prepared' /\ Function(instrs, nblocks, {})' /\ Settled(visited)'
    BY <2>1, <2>2, SameBuilt DEF Deleting
  <2>4. Deleting'
    BY <2>1, <2>2, <2>3 DEF Deleting
  <2> QED BY <2>1, <2>2, <2>3, <2>4 DEF BuiltIInv, ScopesPhases, DeletePhases
<1>2. CASE ~StartRun
  <2>1. UNCHANGED buildvars
    BY <1>2 DEF Run, RunSilent, RunPure, RunRead, RunCallStore, RunStore, RunPrint, RunBr,
                RunCondBr, Stopped, allvars
  <2> QED BY <2>1, BuiltStutter
<1> QED BY <1>1, <1>2

(***************************************************************************)
(* The inductive invariant: every step of semantic analysis, build_ir      *)
(* (src/src/ir_builder.cpp:161-419) and rmUnreachableBB keeps it.          *)
(***************************************************************************)
THEOREM BuiltInductive == BRSpec => []BuiltIInv
<1>1. ASSUME BuiltIInv, [BRNext]_allvars PROVE BuiltIInv'
  <2>1. CASE BuildStep
    BY <1>1, <2>1, WalkStep, BeginStep, LowerStep, EndStep, MarkStep, RemoveStep DEF BuildStep
  <2>2. CASE NotBuilt \/ UNCHANGED allvars
    BY <1>1, <2>2, BuiltStutter DEF NotBuilt, allvars
  <2>3. CASE Run
    BY <1>1, <2>3, RunStep
  <2> QED BY <1>1, <2>1, <2>2, <2>3 DEF BRNext
<1> QED BY <1>1, BuiltStart, PTL DEF BRSpec

\* Open of the model is what cur and the tasks own.
LEMMA OpenIs ==
  ASSUME phase = "lower", NEW owned, NEW nb \in Nat, LeftToDo(work, nb, owned)
  PROVE  Open = {cur} \cup owned
<1>1. ASSUME NEW j \in DOMAIN work
      PROVE  Owned(work[j]) = (IF work[j][1] \in {"endif", "else", "join"} THEN {work[j][2]}
                               ELSE {})
                                \cup (IF work[j][1] = "loop" THEN {work[j][3]} ELSE {})
  <2>1. PICK t \in TasksIn(nb) : t = work[j]
    BY <1>1 DEF LeftToDo
  <2>2. t[1] \in {"stmt", "loop", "endif", "else", "join"}
    BY <2>1, TaskKinds
  <2> QED BY <2>1, <2>2 DEF Owned
<1>2. owned = UNION {Owned(work[i]) : i \in DOMAIN work}
  BY DEF LeftToDo
<1>3. Open = {cur}
               \cup {work[i][2] : i \in {j \in DOMAIN work :
                                          work[j][1] \in {"endif", "else", "join"}}}
               \cup {work[i][3] : i \in {j \in DOMAIN work : work[j][1] = "loop"}}
  BY DEF Open
<1>4. ASSUME NEW x \in owned PROVE x \in Open
  <2>1. PICK j \in DOMAIN work : x \in Owned(work[j])
    BY <1>2, <1>4
  <2>2. \/ work[j][1] \in {"endif", "else", "join"} /\ x = work[j][2]
        \/ work[j][1] = "loop" /\ x = work[j][3]
    BY <1>1, <2>1
  <2> QED BY <1>3, <2>2
<1>5. ASSUME NEW j \in DOMAIN work, work[j][1] \in {"endif", "else", "join"}
      PROVE  work[j][2] \in owned
  BY <1>1, <1>2, <1>5
<1>6. ASSUME NEW j \in DOMAIN work, work[j][1] = "loop"
      PROVE  work[j][3] \in owned
  BY <1>1, <1>2, <1>6
<1> QED BY <1>3, <1>4, <1>5, <1>6

(***************************************************************************)
(* genIRStmt and build_ir (src/src/ir_builder.cpp:245-419) give every      *)
(* block one terminator, its last instruction, unless the block is still   *)
(* open; an open one has none.                                             *)
(***************************************************************************)
THEOREM WellEndedTheorem == BRSpec => []WellEnded
<1>1. ASSUME BuiltIInv, Building PROVE \E open : Open = open /\ Function(instrs, nblocks, open)
  <2>1. CASE phase = "lower"
    <3>1. PICK owned : LeftToDo(work, nblocks, owned) /\ Function(instrs, nblocks, owned \cup {cur})
      BY <1>1, <2>1 DEF BuiltIInv, PartWay
    <3>2. nblocks \in Nat
      BY <3>1 DEF Function
    <3>3. Open = {cur} \cup owned
      BY <2>1, <3>1, <3>2, OpenIs
    <3>4. {cur} \cup owned = owned \cup {cur}
      OBVIOUS
    <3> QED BY <3>1, <3>3, <3>4
  <2>2. CASE phase # "lower"
    <3>1. Open = {}
      BY <2>2 DEF Open
    <3>2. Function(instrs, nblocks, {})
      BY <1>1, <2>2 DEF BuiltIInv, Building, DeletePhases
    <3> QED BY <3>1, <3>2
  <2> QED BY <2>1, <2>2
<1>2. ASSUME BuiltIInv, Building, NEW b \in 1 .. nblocks
      PROVE  IF b \in Open THEN Ends(b) = {}
             ELSE \E i \in Ends(b) : \A j \in DOMAIN instrs :
                    instrs[j].bb = b => j <= i /\ (j \in Ends(b) => j = i)
  <2>1. PICK open : Open = open /\ Function(instrs, nblocks, open)
    BY <1>1, <1>2
  <2>2. IF b \in open THEN Unended(instrs, b) ELSE Closed(instrs, b)
    BY <2>1 DEF Function
  <2>3. CASE b \in open
    <3>1. Ends(b) = {}
      BY <2>2, <2>3 DEF Unended, Ends
    <3> QED BY <2>1, <2>3, <3>1
  <2>4. CASE b \notin open
    <3>1. PICK i \in DOMAIN instrs : EndedBy(instrs, b, i)
      BY <2>2, <2>4 DEF Closed
    <3>2. i \in Ends(b)
      BY <3>1 DEF EndedBy, Ends
    <3>3. \A j \in DOMAIN instrs : instrs[j].bb = b => j <= i /\ (j \in Ends(b) => j = i)
      BY <3>1 DEF EndedBy, Ends
    <3> QED BY <2>1, <2>4, <3>2, <3>3
  <2> QED BY <2>3, <2>4
<1>3. ASSUME BuiltIInv PROVE WellEnded
  BY <1>2, <1>3 DEF WellEnded
<1> QED BY <1>3, BuiltInductive, PTL

(***************************************************************************)
(* The types of what build_ir builds (src/src/ir_builder.cpp:161-419):     *)
(* loads and stores are of allocas that var_map has, branches go to blocks *)
(* of the function.                                                        *)
(***************************************************************************)
THEOREM IRTypeOKTheorem == BRSpec => []IRTypeOK
<1>1. ASSUME BuiltIInv, Building
      PROVE  /\ \E open : Function(instrs, nblocks, open)
             /\ cur \in 1 .. nblocks /\ kept \subseteq 1 .. nblocks /\ at \in 0 .. nblocks + 1
  <2>1. CASE phase = "lower"
    <3>1. PICK owned : Function(instrs, nblocks, owned \cup {cur})
      BY <1>1, <2>1 DEF BuiltIInv, PartWay
    <3>2. nblocks \in Nat /\ cur \in 1 .. nblocks
      BY <3>1 DEF Function
    <3>3. NothingKept
      BY <1>1, <2>1 DEF BuiltIInv
    <3> QED BY <3>1, <3>2, <3>3 DEF NothingKept
  <2>2. CASE phase # "lower"
    <3>1. Function(instrs, nblocks, {}) /\ cur \in 1 .. nblocks
      BY <1>1, <2>2 DEF BuiltIInv, Building, DeletePhases
    <3>2. nblocks \in Nat
      BY <3>1 DEF Function
    <3>3. (phase = "mark" /\ NothingKept) \/ Deleting
      BY <1>1, <2>2 DEF BuiltIInv, Building, DeletePhases
    <3> QED BY <3>1, <3>2, <3>3 DEF NothingKept, Deleting
  <2> QED BY <2>1, <2>2
<1>2. ASSUME BuiltIInv PROVE IRTypeOK
  <2> SUFFICES ASSUME Building PROVE IRTypeOK
    BY DEF IRTypeOK
  <2>1. PICK open : Function(instrs, nblocks, open)
    BY <1>1, <1>2
  <2>2. instrs \in Seq(Built) /\ \A i \in DOMAIN instrs : Fits(instrs[i])
    BY <2>1 DEF Function, GoodCode, InstrFits
  <2>3. \A i \in DOMAIN instrs :
          /\ instrs[i].bb \in 1 .. nblocks
          /\ \A k \in DOMAIN instrs[i].succ : instrs[i].succ[k] \in 1 .. nblocks
    BY <2>1 DEF Function, Inside
  <2>4. ASSUME NEW i \in DOMAIN instrs PROVE
          \A k \in DOMAIN instrs[i].args : instrs[i].args[k] \in Int
    <3>1. instrs[i] \in Built
      BY <2>2
    <3>2. instrs[i].args \in Seq(Int)
      BY <3>1 DEF Built
    <3> QED BY <3>2
  <2>5. \A i \in DOMAIN instrs : instrs[i].op \in {"load", "store"} => instrs[i].sym \in Allocas
    BY <2>2 DEF Fits
  <2> QED BY <1>1, <1>2, <2>3, <2>4, <2>5 DEF IRTypeOK
<1> QED BY <1>2, BuiltInductive, PTL

-----------------------------------------------------------------------------
(***************************************************************************)
(* The layout                                                              *)
(***************************************************************************)

\* Pieces put together, one after the other.
JoinedBy(n, piece, f) ==
  f = [k \in 0 .. n |-> IF k = 0 THEN <<>> ELSE f[k - 1] \o piece[k]]

\* Such a recursive definition has a solution.
LEMMA JoinedExists ==
  ASSUME NEW n \in Nat, NEW piece
  PROVE  \E f : JoinedBy(n, piece, f)
<1> DEFINE T == {m \in Nat : \E f : JoinedBy(m, piece, f)}
<1>1. 0 \in T
  <2> DEFINE h == [k \in 0 .. 0 |-> <<>>]
  <2>1. h = [k \in 0 .. 0 |-> IF k = 0 THEN <<>> ELSE h[k - 1] \o piece[k]]
    OBVIOUS
  <2> HIDE DEF h
  <2>2. JoinedBy(0, piece, h)
    BY <2>1 DEF JoinedBy
  <2> QED BY <2>2
<1>2. ASSUME NEW m \in Nat, m \in T PROVE m + 1 \in T
  <2>1. PICK g : JoinedBy(m, piece, g)
    BY <1>2
  <2>2. \A k \in 0 .. m : g[k] = IF k = 0 THEN <<>> ELSE g[k - 1] \o piece[k]
    BY <2>1 DEF JoinedBy
  <2> DEFINE h == [k \in 0 .. m + 1 |-> IF k <= m THEN g[k] ELSE g[m] \o piece[m + 1]]
  <2>3. h = [k \in 0 .. m + 1 |-> h[k]]
    OBVIOUS
  <2>4. \A k \in 0 .. m : h[k] = g[k]
    OBVIOUS
  <2>5. h[m + 1] = g[m] \o piece[m + 1]
    OBVIOUS
  <2> HIDE DEF h
  <2>6. ASSUME NEW k \in 0 .. m + 1
        PROVE  h[k] = IF k = 0 THEN <<>> ELSE h[k - 1] \o piece[k]
    <3>1. CASE k = 0
      BY <2>2, <2>4, <3>1
    <3>2. CASE k \in 1 .. m
      <4>1. k - 1 \in 0 .. m /\ k \in 0 .. m /\ k # 0
        BY <3>2
      <4> QED BY <2>2, <2>4, <4>1
    <3>3. CASE k = m + 1
      <4>1. k - 1 = m /\ m \in 0 .. m /\ k # 0
        BY <3>3
      <4> QED BY <2>4, <2>5, <3>3, <4>1
    <3> QED BY <3>1, <3>2, <3>3
  <2>7. h = [k \in 0 .. m + 1 |-> IF k = 0 THEN <<>> ELSE h[k - 1] \o piece[k]]
    BY <2>3, <2>6
  <2>8. JoinedBy(m + 1, piece, h)
    BY <2>7 DEF JoinedBy
  <2> QED BY <2>8
<1> HIDE DEF T
<1>3. n \in T
  BY <1>1, <1>2, NatSetInduction
<1> QED BY <1>3 DEF T

\* Layout order: by block, then as built.
Before(i, j) == instrs[i].bb < instrs[j].bb \/ (instrs[i].bb = instrs[j].bb /\ i < j)

\* s lists the instructions of S in that order.
Lists(s, S) ==
  /\ s \in Seq(S)
  /\ \A i \in S : \E p \in DOMAIN s : s[p] = i
  /\ \A p, q \in DOMAIN s : p < q => Before(s[p], s[q])

\* Two lists, one after the other.
LEMMA ListsJoin ==
  ASSUME NEW S, NEW R, NEW s, NEW t, Lists(s, S), Lists(t, R),
         \A i \in S, j \in R : Before(i, j)
  PROVE  Lists(s \o t, S \cup R)
<1>1. PICK c : c = s \o t
  OBVIOUS
<1>2. s \in Seq(S) /\ t \in Seq(R)
  BY DEF Lists
<1>3. s \in Seq(S \cup R) /\ t \in Seq(S \cup R)
  BY <1>2
<1>4. PICK l \in Nat, m \in Nat : l = Len(s) /\ m = Len(t)
  BY <1>2
<1>5. /\ c \in Seq(S \cup R) /\ DOMAIN c = 1 .. l + m
      /\ \A p \in 1 .. l : c[p] = s[p]
      /\ \A p \in 1 .. m : c[l + p] = t[p]
  BY <1>1, <1>3, <1>4
<1>6. DOMAIN s = 1 .. l /\ DOMAIN t = 1 .. m
  BY <1>2, <1>4
<1>7. ASSUME NEW i \in S \cup R PROVE \E p \in DOMAIN c : c[p] = i
  <2>1. CASE i \in S
    <3>1. PICK p \in DOMAIN s : s[p] = i
      BY <2>1 DEF Lists
    <3>2. p \in 1 .. l /\ p \in 1 .. l + m
      BY <1>6
    <3> QED BY <1>5, <3>1, <3>2
  <2>2. CASE i \in R
    <3>1. PICK p \in DOMAIN t : t[p] = i
      BY <2>2 DEF Lists
    <3>2. p \in 1 .. m /\ l + p \in 1 .. l + m
      BY <1>6
    <3> QED BY <1>5, <3>1, <3>2
  <2> QED BY <2>1, <2>2
<1>8. ASSUME NEW p \in DOMAIN c, NEW q \in DOMAIN c, p < q
      PROVE  Before(c[p], c[q])
  <2>0. p \in Nat /\ q \in Nat /\ p <= l + m /\ q <= l + m
    BY <1>5
  <2>1. CASE q <= l
    <3>1. p \in 1 .. l /\ q \in 1 .. l
      BY <1>5, <1>8, <2>0, <2>1
    <3>2. Before(s[p], s[q])
      BY <1>6, <1>8, <3>1 DEF Lists
    <3> QED BY <1>5, <3>1, <3>2
  <2>2. CASE p <= l /\ l < q
    <3>1. PICK x \in 1 .. m : q = l + x
      <4>1. q - l \in 1 .. m /\ q = l + (q - l)
        BY <1>5, <2>0, <2>2
      <4> QED BY <4>1
    <3>2. p \in 1 .. l
      BY <1>5, <2>2
    <3>3. c[p] = s[p] /\ c[q] = t[x]
      BY <1>5, <3>1, <3>2
    <3>4. s[p] \in S /\ t[x] \in R
      BY <1>2, <1>6, <3>1, <3>2
    <3> QED BY <3>3, <3>4
  <2>3. CASE l < p
    <3>1. PICK x \in 1 .. m, y \in 1 .. m : p = l + x /\ q = l + y /\ x < y
      <4>1. /\ p - l \in 1 .. m /\ p = l + (p - l)
            /\ q - l \in 1 .. m /\ q = l + (q - l) /\ p - l < q - l
        BY <1>8, <2>0, <2>3
      <4> QED BY <4>1
    <3>2. c[p] = t[x] /\ c[q] = t[y]
      BY <1>5, <3>1
    <3>3. Before(t[x], t[y])
      BY <1>6, <3>1 DEF Lists
    <3> QED BY <3>2, <3>3
  <2> QED BY <2>0, <2>1, <2>2, <2>3
<1> QED BY <1>1, <1>5, <1>7, <1>8 DEF Lists

\* InstrsIn, without the recursive definition in it.
InstrsBy(b, f) ==
  f = [i \in 0 .. Len(instrs) |->
         IF i = 0 THEN <<>> ELSE f[i - 1] \o (IF instrs[i].bb = b THEN <<i>> ELSE <<>>)]

\* The list of the instructions of a block.
LEMMA InstrsInLists ==
  ASSUME instrs \in Seq(Built), NEW b
  PROVE  Lists(InstrsIn(b), {i \in DOMAIN instrs : instrs[i].bb = b})
<1>0. PICK n \in Nat : n = Len(instrs) /\ DOMAIN instrs = 1 .. n
  OBVIOUS
<1>1. \E f : InstrsBy(b, f)
  <2>1. PICK piece : piece = [i \in 1 .. n |-> IF instrs[i].bb = b THEN <<i>> ELSE <<>>]
    OBVIOUS
  <2>2. PICK f : JoinedBy(n, piece, f)
    BY JoinedExists
  <2>3. f = [k \in 0 .. n |-> IF k = 0 THEN <<>> ELSE f[k - 1] \o piece[k]]
    BY <2>2 DEF JoinedBy
  <2>4. \A k \in 0 .. n : k # 0 => piece[k] = IF instrs[k].bb = b THEN <<k>> ELSE <<>>
    BY <2>1
  <2>5. f = [i \in 0 .. n |->
              IF i = 0 THEN <<>> ELSE f[i - 1] \o (IF instrs[i].bb = b THEN <<i>> ELSE <<>>)]
    BY <2>3, <2>4
  <2>6. InstrsBy(b, f)
    BY <1>0, <2>5 DEF InstrsBy
  <2> QED BY <2>6
<1> DEFINE f == CHOOSE f : InstrsBy(b, f)
<1>2. InstrsBy(b, f)
  BY <1>1
<1>3. InstrsIn(b) = f[Len(instrs)]
  BY Zenon DEF InstrsIn, InstrsBy
<1> HIDE DEF f
<1> DEFINE P(k) == {i \in 1 .. k : instrs[i].bb = b}
           T == {k \in Nat : k <= n => Lists(f[k], P(k))}
<1> HIDE DEF P
<1>4. \A k \in 0 .. n : f[k] = IF k = 0 THEN <<>>
                               ELSE f[k - 1] \o (IF instrs[k].bb = b THEN <<k>> ELSE <<>>)
  BY <1>0, <1>2 DEF InstrsBy
<1>5. 0 \in T
  <2>1. f[0] = <<>> /\ P(0) = {}
    <3>1. 0 \in 0 .. n /\ 1 .. 0 = {}
      OBVIOUS
    <3>2. f[0] = <<>>
      BY <1>4, <3>1
    <3> QED BY <3>1, <3>2 DEF P
  <2>2. <<>> \in Seq({}) /\ DOMAIN <<>> = {}
    OBVIOUS
  <2>3. Lists(<<>>, {})
    BY <2>2 DEF Lists
  <2> QED BY <2>1, <2>3
<1>6. ASSUME NEW k \in Nat, k \in T PROVE k + 1 \in T
  <2> SUFFICES ASSUME k + 1 <= n PROVE Lists(f[k + 1], P(k + 1))
    BY <1>6
  <2>1. k + 1 \in 0 .. n /\ (k + 1) - 1 = k /\ k + 1 # 0 /\ k <= n /\ k + 1 \in 1 .. n
    OBVIOUS
  <2>2. f[k + 1] = f[k] \o (IF instrs[k + 1].bb = b THEN <<k + 1>> ELSE <<>>)
    BY <1>4, <2>1
  <2>3. Lists(f[k], P(k))
    BY <1>6, <2>1
  <2>4. PICK t : t = IF instrs[k + 1].bb = b THEN <<k + 1>> ELSE <<>>
    OBVIOUS
  <2>5. PICK R : R = IF instrs[k + 1].bb = b THEN {k + 1} ELSE {}
    OBVIOUS
  <2>6. Lists(t, R)
    <3>1. CASE instrs[k + 1].bb = b
      <4>1. t = <<k + 1>> /\ R = {k + 1}
        BY <2>4, <2>5, <3>1
      <4>2. t \in Seq(R) /\ DOMAIN t = {1} /\ t[1] = k + 1
        BY <4>1
      <4>3. \A p, q \in DOMAIN t : ~(p < q)
        BY <4>2
      <4> QED BY <4>1, <4>2, <4>3 DEF Lists
    <3>2. CASE instrs[k + 1].bb # b
      <4>1. t = <<>> /\ R = {}
        BY <2>4, <2>5, <3>2
      <4>2. <<>> \in Seq({}) /\ DOMAIN <<>> = {}
        OBVIOUS
      <4> QED BY <4>1, <4>2 DEF Lists
    <3> QED BY <3>1, <3>2
  <2>7. \A i \in P(k), j \in R : Before(i, j)
    BY <2>5 DEF Before, P
  <2>8. P(k) \cup R = P(k + 1)
    <3>1. 1 .. k + 1 = (1 .. k) \cup {k + 1}
      OBVIOUS
    <3> QED BY <2>5, <3>1 DEF P
  <2> QED BY <2>2, <2>3, <2>4, <2>6, <2>7, <2>8, ListsJoin
<1>7. n \in T
  <2> HIDE DEF T
  <2> QED BY <1>5, <1>6, NatSetInduction
<1>8. P(n) = {i \in DOMAIN instrs : instrs[i].bb = b}
  BY <1>0 DEF P
<1>9. Lists(f[n], P(n))
  BY <1>7
<1> QED BY <1>0, <1>3, <1>8, <1>9

LayoutBy(f) ==
  f = [b \in 0 .. nblocks |->
         IF b = 0 THEN <<>> ELSE f[b - 1] \o (IF b \in kept THEN InstrsIn(b) ELSE <<>>)]

KeptInstrs == {i \in DOMAIN instrs : instrs[i].bb \in kept}

\* The list of the instructions of the blocks kept.
LEMMA LayoutLists ==
  ASSUME instrs \in Seq(Built), nblocks \in Nat, kept \subseteq 1 .. nblocks
  PROVE  Lists(Layout, KeptInstrs)
<1>1. \E f : LayoutBy(f)
  <2>1. PICK piece : piece = [b \in 1 .. nblocks |-> IF b \in kept THEN InstrsIn(b) ELSE <<>>]
    OBVIOUS
  <2>2. PICK f : JoinedBy(nblocks, piece, f)
    BY JoinedExists
  <2>3. f = [k \in 0 .. nblocks |-> IF k = 0 THEN <<>> ELSE f[k - 1] \o piece[k]]
    BY <2>2 DEF JoinedBy
  <2>4. \A k \in 0 .. nblocks : k # 0 => piece[k] = IF k \in kept THEN InstrsIn(k) ELSE <<>>
    BY <2>1
  <2>5. f = [b \in 0 .. nblocks |->
              IF b = 0 THEN <<>> ELSE f[b - 1] \o (IF b \in kept THEN InstrsIn(b) ELSE <<>>)]
    BY <2>3, <2>4
  <2>6. LayoutBy(f)
    BY <2>5 DEF LayoutBy
  <2> QED BY <2>6
<1> DEFINE f == CHOOSE f : LayoutBy(f)
<1>2. LayoutBy(f)
  BY <1>1
<1>3. Layout = f[nblocks]
  BY Zenon DEF Layout, LayoutBy
<1> HIDE DEF f
<1>n. \A i \in KeptInstrs : instrs[i].bb \in 1 .. nblocks
  BY DEF KeptInstrs
<1> DEFINE P(k) == {i \in KeptInstrs : instrs[i].bb <= k}
           T == {k \in Nat : k <= nblocks => Lists(f[k], P(k))}
<1> HIDE DEF P
<1>4. \A k \in 0 .. nblocks :
         f[k] = IF k = 0 THEN <<>> ELSE f[k - 1] \o (IF k \in kept THEN InstrsIn(k) ELSE <<>>)
  BY <1>2 DEF LayoutBy
<1>5. 0 \in T
  <2>1. f[0] = <<>> /\ P(0) = {}
    <3>1. 0 \in 0 .. nblocks
      OBVIOUS
    <3> QED BY <1>4, <1>n, <3>1 DEF P
  <2>2. <<>> \in Seq({}) /\ DOMAIN <<>> = {}
    OBVIOUS
  <2>3. Lists(<<>>, {})
    BY <2>2 DEF Lists
  <2> QED BY <2>1, <2>3
<1>6. ASSUME NEW k \in Nat, k \in T PROVE k + 1 \in T
  <2> SUFFICES ASSUME k + 1 <= nblocks PROVE Lists(f[k + 1], P(k + 1))
    <3>1. Lists(f[k + 1], P(k + 1)) => k + 1 \in T
      BY <1>6
    <3> QED BY <3>1
  <2>1. k + 1 \in 0 .. nblocks /\ (k + 1) - 1 = k /\ k + 1 # 0 /\ k <= nblocks
    OBVIOUS
  <2>2. f[k + 1] = f[k] \o (IF k + 1 \in kept THEN InstrsIn(k + 1) ELSE <<>>)
    BY <1>4, <2>1
  <2>3. Lists(f[k], P(k))
    BY <1>6, <2>1
  <2>4. PICK t : t = IF k + 1 \in kept THEN InstrsIn(k + 1) ELSE <<>>
    OBVIOUS
  <2>5. PICK R : R = IF k + 1 \in kept THEN {i \in DOMAIN instrs : instrs[i].bb = k + 1} ELSE {}
    OBVIOUS
  <2>6. Lists(t, R)
    <3>1. CASE k + 1 \in kept
      BY <2>4, <2>5, <3>1, InstrsInLists
    <3>2. CASE k + 1 \notin kept
      <4>1. t = <<>> /\ R = {}
        BY <2>4, <2>5, <3>2
      <4>2. <<>> \in Seq({}) /\ DOMAIN <<>> = {}
        OBVIOUS
      <4> QED BY <4>1, <4>2 DEF Lists
    <3> QED BY <3>1, <3>2
  <2>7. ASSUME NEW i \in P(k), NEW j \in R PROVE Before(i, j)
    <3>1. PICK x \in Nat : x = instrs[i].bb /\ x <= k
      BY <1>n DEF P
    <3>2. instrs[j].bb = k + 1
      BY <2>5
    <3> QED BY <3>1, <3>2 DEF Before
  <2>8. P(k) \cup R = P(k + 1)
    <3>1. ASSUME NEW i \in KeptInstrs
          PROVE  instrs[i].bb <= k + 1 <=> instrs[i].bb <= k \/ instrs[i].bb = k + 1
      <4>1. PICK x \in Nat : x = instrs[i].bb
        BY <1>n
      <4> QED BY <4>1
    <3>2. R \subseteq KeptInstrs /\ \A i \in KeptInstrs : i \in R <=> instrs[i].bb = k + 1
      BY <2>5 DEF KeptInstrs
    <3> QED BY <3>1, <3>2 DEF P
  <2> QED BY <2>2, <2>3, <2>4, <2>6, <2>7, <2>8, ListsJoin
<1>7. nblocks \in T
  <2> HIDE DEF T
  <2> QED BY <1>5, <1>6, NatSetInduction
<1>8. P(nblocks) = KeptInstrs
  BY <1>n DEF P
<1>9. Lists(f[nblocks], P(nblocks))
  BY <1>7
<1> QED BY <1>3, <1>8, <1>9

-----------------------------------------------------------------------------
(***************************************************************************)
(* The numbers in layout order                                             *)
(***************************************************************************)

\* The blocks kept get the numbers from 1 on, in their order.
LEMMA RenumberedFacts ==
  ASSUME nblocks \in Nat, kept \subseteq 1 .. nblocks
  PROVE  \E n \in Nat :
           /\ \A b \in kept : Renumbered(b) \in 1 .. n
           /\ \A b, c \in kept : b < c => Renumbered(b) < Renumbered(c)
           /\ \A x \in 1 .. n : \E b \in kept : Renumbered(b) = x
<1> DEFINE Upto(b) == {c \in kept : c <= b}
<1>0. \A c \in kept : c \in Nat /\ c >= 1 /\ c <= nblocks
  OBVIOUS
<1>1. IsFiniteSet(kept)
  <2>1. IsFiniteSet(1 .. nblocks)
    BY FS_Interval
  <2> QED BY <2>1, FS_Subset
<1>2. \A b : IsFiniteSet(Upto(b)) /\ Renumbered(b) = Cardinality(Upto(b)) /\ Renumbered(b) \in Nat
  <2>1. \A b : Upto(b) \subseteq kept
    OBVIOUS
  <2>2. \A b : IsFiniteSet(Upto(b)) /\ Cardinality(Upto(b)) \in Nat
    BY <1>1, <2>1, FS_Subset, FS_CardinalityType
  <2> QED BY <2>2 DEF Renumbered
<1>3. Renumbered(0) = 0
  <2>1. ASSUME NEW c \in Upto(0) PROVE FALSE
    <3>1. c \in kept /\ c <= 0
      OBVIOUS
    <3> QED BY <1>0, <3>1
  <2> QED BY <1>2, <2>1, FS_EmptySet
<1>4. ASSUME NEW b \in Nat
      PROVE  Renumbered(b + 1) = IF b + 1 \in kept THEN Renumbered(b) + 1 ELSE Renumbered(b)
  <2>1. CASE b + 1 \in kept
    <3>0. \A c \in kept : (c <= b + 1 <=> c <= b \/ c = b + 1)
      BY <1>0
    <3>1. Upto(b + 1) = Upto(b) \cup {b + 1} /\ b + 1 \notin Upto(b)
      <4>1. Upto(b + 1) = {c \in kept : c <= b \/ c = b + 1}
        BY <3>0
      <4>2. ~(b + 1 <= b)
        OBVIOUS
      <4> QED BY <2>1, <4>1, <4>2
    <3> HIDE DEF Upto
    <3>2. Cardinality(Upto(b) \cup {b + 1}) = Cardinality(Upto(b)) + 1
      BY <1>2, <3>1, FS_AddElement
    <3> QED BY <1>2, <2>1, <3>1, <3>2
  <2>2. CASE b + 1 \notin kept
    <3>1. ASSUME NEW c \in kept PROVE c <= b + 1 <=> c <= b
      <4>1. c \in Nat /\ c # b + 1
        BY <2>2
      <4> QED BY <4>1
    <3>2. Upto(b + 1) = Upto(b)
      BY <3>1
    <3> HIDE DEF Upto
    <3> QED BY <1>2, <2>2, <3>2
  <2> QED BY <2>1, <2>2
<1>5. ASSUME NEW b \in Nat, NEW c \in Nat, b <= c PROVE Renumbered(b) <= Renumbered(c)
  <2>1. Upto(b) \subseteq Upto(c)
    <3>1. \A d \in kept : d <= b => d <= c
      BY <1>0, <1>5
    <3> QED BY <3>1
  <2> HIDE DEF Upto
  <2>2. Cardinality(Upto(b)) <= Cardinality(Upto(c))
    BY <1>2, <2>1, FS_Subset
  <2> QED BY <1>2, <2>2
<1> HIDE DEF Upto
<1>6. PICK n \in Nat : n = Renumbered(nblocks)
  BY <1>2
<1>7. ASSUME NEW b \in kept PROVE Renumbered(b) \in 1 .. n
  <2>1. b \in Nat /\ b - 1 \in Nat /\ (b - 1) + 1 = b /\ b <= nblocks
    OBVIOUS
  <2>2. Renumbered(b) = Renumbered(b - 1) + 1
    BY <1>4, <2>1
  <2>3. Renumbered(b) <= n
    BY <1>5, <1>6, <2>1
  <2>4. PICK x \in Nat, y \in Nat : x = Renumbered(b) /\ y = Renumbered(b - 1)
    BY <1>2
  <2> QED BY <2>2, <2>3, <2>4
<1>8. ASSUME NEW b \in kept, NEW c \in kept, b < c PROVE Renumbered(b) < Renumbered(c)
  <2>1. b \in Nat /\ c \in Nat /\ c - 1 \in Nat /\ (c - 1) + 1 = c /\ b <= c - 1
    BY <1>8
  <2>2. Renumbered(c) = Renumbered(c - 1) + 1
    BY <1>4, <2>1
  <2>3. Renumbered(b) <= Renumbered(c - 1)
    BY <1>5, <2>1
  <2>4. PICK x \in Nat, y \in Nat : x = Renumbered(b) /\ y = Renumbered(c - 1)
    BY <1>2
  <2> QED BY <2>2, <2>3, <2>4
<1>9. ASSUME NEW x \in 1 .. n PROVE \E b \in kept : Renumbered(b) = x
  <2> DEFINE S == {b \in Nat : Renumbered(b) >= x}
  <2>1. nblocks \in S
    BY <1>6
  <2>2. PICK b \in S : \A c \in S : b <= c
    BY <2>1, LeastExists
  <2>3. b \in Nat /\ Renumbered(b) >= x /\ b # 0
    BY <1>3
  <2>4. b - 1 \in Nat /\ (b - 1) + 1 = b /\ ~(b <= b - 1)
    BY <2>3
  <2>5. ~(Renumbered(b - 1) >= x)
    BY <2>2, <2>4
  <2>6. PICK y \in Nat, z \in Nat : y = Renumbered(b) /\ z = Renumbered(b - 1)
    BY <1>2
  <2>7. y = IF b \in kept THEN z + 1 ELSE z
    BY <1>4, <2>4, <2>6
  <2>8. y >= x /\ ~(z >= x)
    BY <2>3, <2>5, <2>6
  <2>9. b \in kept /\ y = x
    BY <2>7, <2>8
  <2> QED BY <2>6, <2>9
<1> QED BY <1>7, <1>8, <1>9

PlaceIn(order, v) == IF v <= 0 THEN v ELSE CHOOSE p \in DOMAIN order : order[p] = v

\* The fields of an instruction of Module.
LEMMA ModuleFields ==
  ASSUME instrs \in Seq(Built), NEW order, order = Layout, NEW p \in DOMAIN order,
         order[p] \in DOMAIN instrs, order \in Seq(Nat)
  PROVE  LET i == instrs[order[p]]
             j == Module[p]
         IN  /\ DOMAIN Module = DOMAIN order /\ Len(Module) = Len(order)
             /\ j.op = i.op /\ j.sym = i.sym /\ j.bb = Renumbered(i.bb)
             /\ j.args = [k \in DOMAIN i.args |-> PlaceIn(order, i.args[k])]
             /\ j.succ = [k \in DOMAIN i.succ |-> Renumbered(i.succ[k])]
             /\ j = [op |-> j.op, args |-> j.args, sym |-> j.sym, succ |-> j.succ, bb |-> j.bb]
<1>1. PICK i \in Built : i = instrs[order[p]]
  OBVIOUS
<1>2. i = [op |-> i.op, args |-> i.args, sym |-> i.sym, succ |-> i.succ, bb |-> i.bb]
  BY DEF Built
<1>3. Module = [q \in DOMAIN order |->
                  [instrs[order[q]] EXCEPT
                     !.bb = Renumbered(@), !.succ = [k \in DOMAIN @ |-> Renumbered(@[k])],
                     !.args = [k \in DOMAIN @ |-> PlaceIn(order, @[k])]]]
  BY DEF Module, PlaceIn
<1>4. PICK a : a = [k \in DOMAIN i.args |-> PlaceIn(order, i.args[k])]
  OBVIOUS
<1>5. PICK s : s = [k \in DOMAIN i.succ |-> Renumbered(i.succ[k])]
  OBVIOUS
<1>6. Module[p] = [i EXCEPT !.bb = Renumbered(@), !.succ = [k \in DOMAIN @ |-> Renumbered(@[k])],
                            !.args = [k \in DOMAIN @ |-> PlaceIn(order, @[k])]]
  BY <1>1, <1>3
<1>7. Module[p] = [op |-> i.op, args |-> a, sym |-> i.sym, succ |-> s, bb |-> Renumbered(i.bb)]
  BY <1>2, <1>4, <1>5, <1>6
<1>8. DOMAIN Module = DOMAIN order /\ Len(Module) = Len(order)
  <2>1. PICK n \in Nat : n = Len(order) /\ DOMAIN order = 1 .. n
    OBVIOUS
  <2>2. DOMAIN Module = 1 .. n
    BY <1>3, <2>1
  <2>3. Len(Module) = n
    BY <2>2
  <2> QED BY <2>1, <2>2, <2>3
<1>9. PICK j : j = Module[p]
  OBVIOUS
<1>10. j = [op |-> i.op, args |-> a, sym |-> i.sym, succ |-> s, bb |-> Renumbered(i.bb)]
  BY <1>7, <1>9
<1>11. /\ j.op = i.op /\ j.sym = i.sym /\ j.bb = Renumbered(i.bb) /\ j.args = a /\ j.succ = s
  BY <1>10
<1> QED BY <1>1, <1>4, <1>5, <1>8, <1>9, <1>10, <1>11

\* order is a layout of the instructions kept: what comes before what, and what is next.
LaidOut(order) ==
  /\ order \in Seq(Nat) /\ order # <<>>
  /\ \A p \in DOMAIN order : order[p] \in KeptInstrs
  /\ \A i \in KeptInstrs : \E p \in DOMAIN order : order[p] = i
  /\ \A p, q \in DOMAIN order : p < q <=> Before(order[p], order[q])
  /\ \A p, q \in DOMAIN order : order[p] = order[q] => p = q
  /\ \A p \in DOMAIN order, i \in KeptInstrs :
        i = order[p] + 1 /\ instrs[i].bb = instrs[order[p]].bb =>
          p + 1 \in DOMAIN order /\ order[p + 1] = i

\* Layout is one.
LEMMA LayoutFacts ==
  ASSUME Function(instrs, nblocks, {}), Settled(kept)
  PROVE  LaidOut(Layout)
<1>1. instrs \in Seq(Built) /\ nblocks \in Nat /\ kept \subseteq 1 .. nblocks
  BY DEF Function, GoodCode, Settled
<1>2. PICK order : order = Layout
  OBVIOUS
<1>3. Lists(order, KeptInstrs)
  BY <1>1, <1>2, LayoutLists
<1>4. PICK l \in Nat : l = Len(instrs) /\ DOMAIN instrs = 1 .. l
  BY <1>1
<1>5. ASSUME NEW i \in KeptInstrs PROVE i \in 1 .. l /\ i \in Nat /\ instrs[i].bb \in Nat
  <2>1. i \in 1 .. l /\ instrs[i].bb \in 1 .. nblocks
    BY <1>1, <1>4 DEF KeptInstrs
  <2>2. PICK b \in 1 .. nblocks : b = instrs[i].bb
    BY <2>1
  <2>3. i \in Nat /\ b \in Nat
    BY <1>4, <2>1
  <2> QED BY <2>1, <2>2, <2>3
<1>6. KeptInstrs \subseteq Nat
  BY <1>5
<1>7. order \in Seq(Nat) /\ \A p \in DOMAIN order : order[p] \in KeptInstrs
  <2>1. order \in Seq(KeptInstrs)
    BY <1>3 DEF Lists
  <2>2. \A S : order \in Seq(S) => \A p \in DOMAIN order : order[p] \in S
    OBVIOUS
  <2>3. order \in Seq(Nat)
    <3>1. PICK n \in Nat : n = Len(order) /\ DOMAIN order = 1 .. n
      BY <2>1
    <3>2. \A p \in 1 .. n : order[p] \in Nat
      BY <1>6, <2>1, <2>2, <3>1
    <3>3. order = [p \in 1 .. n |-> order[p]]
      BY <2>1, <3>1
    <3> QED BY <3>2, <3>3
  <2> QED BY <1>6, <2>1, <2>2, <2>3
<1>8. PICK n \in Nat : n = Len(order) /\ DOMAIN order = 1 .. n
  BY <1>7
<1>9. \A i \in KeptInstrs : \E p \in DOMAIN order : order[p] = i
  BY <1>3 DEF Lists
<1>10. order # <<>>
  <2>1. entryBB \in kept /\ entryBB \in 1 .. nblocks
    BY <1>1 DEF Settled
  <2>2. PICK i \in DOMAIN instrs : EndedBy(instrs, entryBB, i)
    BY <2>1 DEF Function, Closed
  <2>3. i \in KeptInstrs
    BY <2>1, <2>2 DEF EndedBy, KeptInstrs
  <2>4. DOMAIN order # {}
    BY <1>9, <2>3
  <2> QED BY <2>4
<1>11. \A p, q \in DOMAIN order : p < q => Before(order[p], order[q])
  BY <1>3 DEF Lists
<1>12. ASSUME NEW i \in KeptInstrs, NEW j \in KeptInstrs, Before(i, j) PROVE ~Before(j, i) /\ i # j
  <2>1. PICK b \in Nat, c \in Nat : b = instrs[i].bb /\ c = instrs[j].bb
    BY <1>5
  <2>2. i \in Nat /\ j \in Nat
    BY <1>6
  <2> QED BY <1>12, <2>1, <2>2 DEF Before
<1>13. ASSUME NEW p \in DOMAIN order, NEW q \in DOMAIN order
       PROVE  /\ p < q <=> Before(order[p], order[q])
              /\ order[p] = order[q] => p = q
  <2>1. p \in Nat /\ q \in Nat
    BY <1>8
  <2>2. order[p] \in KeptInstrs /\ order[q] \in KeptInstrs
    BY <1>7
  <2>3. CASE p < q
    BY <1>11, <1>12, <2>1, <2>2, <2>3
  <2>4. CASE q < p
    BY <1>11, <1>12, <2>1, <2>2, <2>4
  <2>5. CASE p = q
    BY <1>12, <2>1, <2>2, <2>5
  <2> QED BY <2>1, <2>3, <2>4, <2>5
<1>14. ASSUME NEW p \in DOMAIN order, NEW i \in KeptInstrs,
              i = order[p] + 1, instrs[i].bb = instrs[order[p]].bb
       PROVE  p + 1 \in DOMAIN order /\ order[p + 1] = i
  <2>1. PICK q \in DOMAIN order : order[q] = i
    BY <1>9
  <2>2. order[p] \in Nat /\ order[p] \in KeptInstrs
    BY <1>6, <1>7
  <2>3. Before(order[p], order[q])
    BY <1>14, <2>1, <2>2 DEF Before
  <2>4. p < q /\ p \in Nat /\ q \in Nat /\ q <= n /\ 1 <= p
    BY <1>8, <1>13, <2>3
  <2>5. p + 1 \in DOMAIN order
    BY <1>8, <2>4
  <2>6. CASE p + 1 = q
    BY <2>1, <2>5, <2>6
  <2>7. CASE p + 1 # q
    <3>1. p < p + 1 /\ p + 1 < q
      BY <2>4, <2>7
    <3>2. PICK j \in KeptInstrs : j = order[p + 1]
      BY <1>7, <2>5
    <3>3. Before(order[p], j) /\ Before(j, i)
      BY <1>13, <2>1, <2>5, <3>1, <3>2
    <3>4. PICK x \in Nat, b \in Nat, c \in Nat :
            x = order[p] /\ b = instrs[x].bb /\ c = instrs[j].bb /\ instrs[i].bb = b /\ i = x + 1
      BY <1>5, <1>14, <2>2
    <3>5. j \in Nat
      BY <1>6
    <3>6. b < c \/ (b = c /\ x < j)
      BY <3>3, <3>4 DEF Before
    <3>7. c < b \/ (c = b /\ j < x + 1)
      BY <3>3, <3>4 DEF Before
    <3> QED BY <3>4, <3>5, <3>6, <3>7
  <2> QED BY <2>6, <2>7
<1>15. LaidOut(order)
  BY <1>7, <1>9, <1>10, <1>13, <1>14 DEF LaidOut
<1> QED BY <1>2, <1>15

-----------------------------------------------------------------------------
(***************************************************************************)
(* What the optimizer is given                                             *)
(***************************************************************************)

\* An instruction kept.
LEMMA KeptFacts ==
  ASSUME Function(instrs, nblocks, {}), Settled(kept), NEW i \in KeptInstrs
  PROVE  /\ i \in Nat /\ i >= 1 /\ i \in DOMAIN instrs /\ instrs[i] \in Built
         /\ instrs[i].bb \in kept /\ instrs[i].bb \in Nat
         /\ InstrFits(instrs, i, 0) /\ Fits(instrs[i])
         /\ \A k \in DOMAIN instrs[i].succ : instrs[i].succ[k] \in kept
         /\ \A k \in DOMAIN instrs[i].args : instrs[i].args[k] \in Int
<1>1. instrs \in Seq(Built) /\ i \in DOMAIN instrs /\ instrs[i].bb \in kept
  BY DEF Function, GoodCode, KeptInstrs
<1>2. PICK l \in Nat : l = Len(instrs) /\ DOMAIN instrs = 1 .. l
  BY <1>1
<1>3. i \in Nat /\ i >= 1
  BY <1>1, <1>2
<1>4. InstrFits(instrs, i, 0) /\ Fits(instrs[i])
  BY <1>1 DEF Function, GoodCode, InstrFits
<1>5. PICK ii \in Built : ii = instrs[i]
  BY <1>1
<1>6. \A k \in DOMAIN ii.args : ii.args[k] \in Int
  <2>1. ii.args \in Seq(Int)
    BY DEF Built
  <2> QED BY <2>1
<1>7. ASSUME NEW k \in DOMAIN ii.succ PROVE ii.succ[k] \in kept
  <2>1. ii.op \in {"br", "condbr"}
    <3>1. CASE ii.op \notin {"br", "condbr"}
      <4>1. ii.succ = <<>>
        BY <1>4, <1>5, <3>1 DEF Fits
      <4>2. DOMAIN <<>> = {}
        OBVIOUS
      <4> QED BY <1>7, <4>1, <4>2
    <3> QED BY <3>1
  <2>2. i \in Ends(ii.bb)
    BY <1>1, <1>5, <2>1 DEF Ends, Terminators
  <2>3. ii.succ[k] \in Succs(ii.bb)
    BY <1>5, <1>7, <2>2 DEF Succs
  <2> QED BY <1>1, <1>5, <2>3 DEF Settled
<1>8. ii.bb \in Nat
  BY DEF Built
<1> QED BY <1>1, <1>3, <1>4, <1>5, <1>6, <1>7, <1>8

\* The number of a value in the layout.
LEMMA PlaceFacts ==
  ASSUME NEW order, LaidOut(order), NEW v \in Int
  PROVE  /\ v <= 0 => PlaceIn(order, v) = v
         /\ v > 0 /\ v \in KeptInstrs =>
              /\ PlaceIn(order, v) \in DOMAIN order
              /\ order[PlaceIn(order, v)] = v
              /\ \A p \in DOMAIN order : order[p] = v => PlaceIn(order, v) = p
<1>1. CASE v <= 0
  BY <1>1 DEF PlaceIn
<1>2. CASE v > 0 /\ v \in KeptInstrs
  <2>1. PlaceIn(order, v) = CHOOSE p \in DOMAIN order : order[p] = v
    BY <1>2 DEF PlaceIn
  <2>2. \E p \in DOMAIN order : order[p] = v
    BY <1>2 DEF LaidOut
  <2>3. PlaceIn(order, v) \in DOMAIN order /\ order[PlaceIn(order, v)] = v
    BY <2>1, <2>2
  <2>4. \A p \in DOMAIN order : order[p] = v => PlaceIn(order, v) = p
    BY <2>3 DEF LaidOut
  <2> QED BY <1>2, <2>3, <2>4
<1> QED BY <1>1, <1>2

\* The operands of an instruction kept.
LEMMA OperandFacts ==
  ASSUME Function(instrs, nblocks, {}), Settled(kept), NEW i \in KeptInstrs,
         NEW k \in DOMAIN instrs[i].args
  PROVE  LET v == instrs[i].args[k]
         IN  /\ v \in Int
             /\ v < 0 => WordOf(v) \in Word
             /\ v = 0 => instrs[i].op = "store"
             /\ v > 0 => /\ v \in KeptInstrs /\ v < i /\ instrs[v].bb = instrs[i].bb
                         /\ instrs[v].op \in PureOps
                         /\ instrs[v].op = "icmp" => instrs[i].op = "condbr"
<1>1. PICK v \in Int : v = instrs[i].args[k]
  BY KeptFacts
<1>2. OperandFits(instrs, i, v, 0)
  BY <1>1, KeptFacts DEF InstrFits
<1>3. ASSUME v > 0
      PROVE  /\ v \in KeptInstrs /\ v < i /\ instrs[v].bb = instrs[i].bb
             /\ instrs[v].op \in PureOps
             /\ instrs[v].op = "icmp" => instrs[i].op = "condbr"
  <2>1. v - 0 = v
    OBVIOUS
  <2>2. /\ v \in 1 .. i - 1 /\ instrs[v].bb = instrs[i].bb /\ instrs[v].op \in PureOps
        /\ instrs[v].op = "icmp" => instrs[i].op = "condbr"
    BY <1>2, <1>3, <2>1 DEF OperandFits
  <2>3. PICK l \in Nat : l = Len(instrs) /\ DOMAIN instrs = 1 .. l
    <3>1. instrs \in Seq(Built)
      BY DEF Function, GoodCode
    <3> QED BY <3>1
  <2>4. i \in 1 .. l /\ i \in Nat
    BY <2>3, KeptFacts
  <2>5. v \in DOMAIN instrs /\ v < i
    BY <2>2, <2>3, <2>4
  <2>6. v \in KeptInstrs
    BY <2>2, <2>5, KeptFacts DEF KeptInstrs
  <2> QED BY <2>2, <2>5, <2>6
<1> QED BY <1>1, <1>2, <1>3 DEF OperandFits

\* The instruction that uses what a read or a comparison computes.
LEMMA NextFacts ==
  ASSUME Function(instrs, nblocks, {}), Settled(kept), NEW i \in KeptInstrs, NEW op,
         UsedNext(instrs, i, 0, op)
  PROVE  /\ i + 1 \in KeptInstrs /\ instrs[i + 1].op = op /\ instrs[i + 1].args = <<i>>
         /\ instrs[i + 1].bb = instrs[i].bb
<1>1. 0 + i = i /\ i \in Nat
  BY KeptFacts
<1>2. /\ i + 1 \in DOMAIN instrs /\ instrs[i + 1].op = op /\ instrs[i + 1].args = <<i>>
      /\ instrs[i + 1].bb = instrs[i].bb
  BY <1>1 DEF UsedNext
<1> QED BY <1>2, KeptFacts DEF KeptInstrs

\* j is the instruction i with the numbers of the layout.
Mirrored(j, i, order, nb) ==
  /\ j.op = i.op /\ j.sym = i.sym /\ j.bb = Renumbered(i.bb) /\ j.bb \in 1 .. nb
  /\ DOMAIN j.args = DOMAIN i.args /\ Len(j.args) = Len(i.args)
  /\ \A k \in DOMAIN j.args : j.args[k] = PlaceIn(order, i.args[k])
  /\ DOMAIN j.succ = DOMAIN i.succ /\ Len(j.succ) = Len(i.succ)
  /\ \A k \in DOMAIN j.succ : j.succ[k] \in 1 .. nb

\* m is the function in layout order: instruction p of it is instruction order[p].
Mirrors(m, order, n, nb) ==
  /\ n \in Nat /\ n >= 1 /\ nb \in Nat /\ m \in Seq(Optimizer!Instruction)
  /\ Len(m) = n /\ DOMAIN m = 1 .. n /\ DOMAIN order = 1 .. n
  /\ \A p \in 1 .. n : Mirrored(m[p], instrs[order[p]], order, nb)
  /\ \A p, q \in 1 .. n : (m[p].bb = m[q].bb <=> instrs[order[p]].bb = instrs[order[q]].bb)
  /\ \A p, q \in 1 .. n : (m[p].bb < m[q].bb <=> instrs[order[p]].bb < instrs[order[q]].bb)
  /\ \A x \in 1 .. nb : \E b \in kept : \A p \in 1 .. n : instrs[order[p]].bb = b <=> m[p].bb = x

LEMMA ModuleMirrors ==
  ASSUME Function(instrs, nblocks, {}), Settled(kept), NEW order, order = Layout
  PROVE  LaidOut(order) /\ \E n, nb \in Nat : Mirrors(Module, order, n, nb)
<1>1. LaidOut(order)
  BY LayoutFacts
<1>2. instrs \in Seq(Built) /\ nblocks \in Nat /\ kept \subseteq 1 .. nblocks
  BY DEF Function, GoodCode, Settled
<1>3. PICK nb \in Nat :
         /\ \A b \in kept : Renumbered(b) \in 1 .. nb
         /\ \A b, c \in kept : b < c => Renumbered(b) < Renumbered(c)
         /\ \A x \in 1 .. nb : \E b \in kept : Renumbered(b) = x
  BY <1>2, RenumberedFacts
<1>4. PICK n \in Nat : n = Len(order) /\ DOMAIN order = 1 .. n /\ n >= 1
  <2>1. order \in Seq(Nat) /\ order # <<>>
    BY <1>1 DEF LaidOut
  <2> QED BY <2>1
<1>5. PICK m : m = Module
  OBVIOUS
<1>6. ASSUME NEW p \in 1 .. n
      PROVE  /\ order[p] \in KeptInstrs
             /\ DOMAIN m = 1 .. n /\ Len(m) = n
             /\ m[p].op = instrs[order[p]].op /\ m[p].sym = instrs[order[p]].sym
             /\ m[p].bb = Renumbered(instrs[order[p]].bb)
             /\ m[p].args = [k \in DOMAIN instrs[order[p]].args |->
                                PlaceIn(order, instrs[order[p]].args[k])]
             /\ m[p].succ = [k \in DOMAIN instrs[order[p]].succ |->
                                Renumbered(instrs[order[p]].succ[k])]
             /\ m[p] = [op |-> m[p].op, args |-> m[p].args, sym |-> m[p].sym,
                        succ |-> m[p].succ, bb |-> m[p].bb]
  <2>1. order[p] \in KeptInstrs /\ order \in Seq(Nat)
    BY <1>1, <1>4 DEF LaidOut
  <2>2. order[p] \in DOMAIN instrs
    BY <2>1 DEF KeptInstrs
  <2> QED BY <1>2, <1>4, <1>5, <2>1, <2>2, ModuleFields
<1>7. ASSUME NEW p \in 1 .. n
      PROVE  /\ m[p] \in Optimizer!Instruction
             /\ DOMAIN m[p].args = DOMAIN instrs[order[p]].args
             /\ Len(m[p].args) = Len(instrs[order[p]].args)
             /\ \A k \in DOMAIN m[p].args : m[p].args[k] = PlaceIn(order, instrs[order[p]].args[k])
             /\ DOMAIN m[p].succ = DOMAIN instrs[order[p]].succ
             /\ Len(m[p].succ) = Len(instrs[order[p]].succ)
             /\ \A k \in DOMAIN m[p].succ : m[p].succ[k] \in 1 .. nb
             /\ m[p].bb \in 1 .. nb
  <2>1. PICK i \in KeptInstrs : i = order[p]
    BY <1>6
  <2>2. PICK ii \in Built : ii = instrs[i]
    BY KeptFacts
  <2>3. PICK j : j = m[p]
    OBVIOUS
  <2>4. /\ j.op = ii.op /\ j.sym = ii.sym /\ j.bb = Renumbered(ii.bb)
        /\ j.args = [k \in DOMAIN ii.args |-> PlaceIn(order, ii.args[k])]
        /\ j.succ = [k \in DOMAIN ii.succ |-> Renumbered(ii.succ[k])]
        /\ j = [op |-> j.op, args |-> j.args, sym |-> j.sym, succ |-> j.succ, bb |-> j.bb]
    BY <1>6, <2>1, <2>2, <2>3
  <2>5. ii.op \in AllOps /\ ii.args \in Seq(Int) /\ ii.sym \in AllSyms /\ ii.succ \in Seq(Nat)
    BY DEF Built
  <2>6. ASSUME NEW k \in DOMAIN ii.args PROVE PlaceIn(order, ii.args[k]) \in Int
    <3>1. PICK v \in Int : v = ii.args[k] /\ (v > 0 => v \in KeptInstrs)
      BY <2>2, OperandFacts
    <3>2. CASE v <= 0
      BY <1>1, <3>1, <3>2, PlaceFacts
    <3>3. CASE v > 0
      <4>1. PlaceIn(order, v) \in 1 .. n
        BY <1>1, <1>4, <3>1, <3>3, PlaceFacts
      <4> QED BY <3>1, <4>1
    <3> QED BY <3>2, <3>3
  <2>7. PICK l \in Nat, s \in Nat :
          /\ l = Len(ii.args) /\ DOMAIN ii.args = 1 .. l
          /\ s = Len(ii.succ) /\ DOMAIN ii.succ = 1 .. s
    BY <2>5
  <2>8. j.args \in Seq(Int) /\ DOMAIN j.args = 1 .. l /\ Len(j.args) = l
        /\ \A k \in 1 .. l : j.args[k] = PlaceIn(order, ii.args[k])
    BY <2>4, <2>6, <2>7
  <2>9. \A k \in DOMAIN ii.succ : Renumbered(ii.succ[k]) \in 1 .. nb
    BY <1>3, <2>2, KeptFacts
  <2>10. j.succ \in Seq(Nat) /\ DOMAIN j.succ = 1 .. s /\ Len(j.succ) = s
         /\ \A k \in 1 .. s : j.succ[k] \in 1 .. nb
    <3>1. \A k \in 1 .. s : Renumbered(ii.succ[k]) \in Nat
      BY <2>7, <2>9
    <3> QED BY <2>4, <2>7, <2>9, <3>1
  <2>11. j.bb \in 1 .. nb
    BY <1>3, <2>2, <2>4, KeptFacts
  <2>12. j \in Optimizer!Instruction
    <3>1. j.bb \in Nat
      BY <2>11
    <3>2. j.op \in Optimizer!Ops
      BY <2>4, <2>5 DEF AllOps, Optimizer!Ops
    <3> QED BY <2>4, <2>5, <2>8, <2>10, <3>1, <3>2 DEF Optimizer!Instruction
  <2> QED BY <2>1, <2>2, <2>3, <2>7, <2>8, <2>10, <2>11, <2>12
<1>8. ASSUME NEW p \in 1 .. n, NEW q \in 1 .. n
      PROVE  /\ m[p].bb = m[q].bb <=> instrs[order[p]].bb = instrs[order[q]].bb
             /\ m[p].bb < m[q].bb <=> instrs[order[p]].bb < instrs[order[q]].bb
  <2>1. PICK b \in kept, c \in kept : b = instrs[order[p]].bb /\ c = instrs[order[q]].bb
    BY <1>6, KeptFacts
  <2>2. PICK x \in 1 .. nb, y \in 1 .. nb : x = Renumbered(b) /\ y = Renumbered(c)
    BY <1>3
  <2>3. b \in Nat /\ c \in Nat
    BY <1>2
  <2>4. (b < c => x < y) /\ (c < b => y < x) /\ (b = c => x = y)
    BY <1>3, <2>2
  <2>5. m[p].bb = x /\ m[q].bb = y
    BY <1>6, <2>1, <2>2
  <2>6. x \in Nat /\ y \in Nat
    OBVIOUS
  <2> QED BY <2>1, <2>3, <2>4, <2>5, <2>6
<1>9. ASSUME NEW x \in 1 .. nb
      PROVE  \E b \in kept : \A p \in 1 .. n : instrs[order[p]].bb = b <=> m[p].bb = x
  <2>1. PICK b \in kept : Renumbered(b) = x
    BY <1>3
  <2>2. ASSUME NEW p \in 1 .. n PROVE instrs[order[p]].bb = b <=> m[p].bb = x
    <3>1. PICK c \in kept : c = instrs[order[p]].bb
      BY <1>6, KeptFacts
    <3>2. m[p].bb = Renumbered(c)
      BY <1>6, <3>1
    <3>3. PICK y \in 1 .. nb : y = Renumbered(c)
      BY <1>3
    <3>4. b \in Nat /\ c \in Nat /\ x \in Nat /\ y \in Nat
      BY <1>2
    <3>5. (b < c => x < y) /\ (c < b => y < x) /\ (b = c => x = y)
      BY <1>3, <2>1, <3>3
    <3> QED BY <3>1, <3>2, <3>3, <3>4, <3>5
  <2> QED BY <2>2
<1>10. m \in Seq(Optimizer!Instruction)
  <2>1. m = [p \in 1 .. n |-> m[p]]
    <3>1. Module = [p \in DOMAIN order |->
                  [instrs[order[p]] EXCEPT
                     !.bb = Renumbered(@), !.succ = [k \in DOMAIN @ |-> Renumbered(@[k])],
                     !.args = [k \in DOMAIN @ |-> PlaceIn(order, @[k])]]]
      BY DEF Module, PlaceIn
    <3> QED BY <1>4, <1>5, <3>1
  <2> QED BY <1>7, <2>1
<1>11. DOMAIN m = 1 .. n /\ Len(m) = n
  <2>1. 1 \in 1 .. n
    BY <1>4
  <2> QED BY <1>6, <2>1
<1>12. Mirrors(m, order, n, nb)
  <2>1. n \in Nat /\ n >= 1 /\ nb \in Nat /\ m \in Seq(Optimizer!Instruction)
        /\ Len(m) = n /\ DOMAIN m = 1 .. n /\ DOMAIN order = 1 .. n
    BY <1>4, <1>10, <1>11
  <2>2. \A p \in 1 .. n : Mirrored(m[p], instrs[order[p]], order, nb)
    BY <1>6, <1>7 DEF Mirrored
  <2> QED BY <2>1, <2>2, <1>8, <1>9 DEF Mirrors
<1> QED BY <1>1, <1>5, <1>12

\* The operands of an instruction of the layout.
LEMMA PlacedFacts ==
  ASSUME Function(instrs, nblocks, {}), Settled(kept), NEW order, LaidOut(order), NEW m,
         NEW n \in Nat, NEW nb \in Nat, Mirrors(m, order, n, nb), NEW p \in 1 .. n
  PROVE  /\ order[p] \in KeptInstrs /\ Mirrored(m[p], instrs[order[p]], order, nb)
         /\ m[p] \in Optimizer!Instruction
         /\ Fits(instrs[order[p]]) /\ InstrFits(instrs, order[p], 0)
         /\ \A k \in DOMAIN m[p].args :
              LET v == instrs[order[p]].args[k]
                  w == m[p].args[k]
              IN  /\ v \in Int /\ w \in Int
                  /\ v <= 0 => w = v
                  /\ v = 0 => m[p].op = "store"
                  /\ v > 0 => /\ w \in 1 .. n /\ w < p /\ order[w] = v /\ m[w].bb = m[p].bb
                              /\ m[w].op \in PureOps
                              /\ m[w].op = "icmp" => m[p].op = "condbr"
<1>1. PICK i \in KeptInstrs : i = order[p]
  BY DEF LaidOut, Mirrors
<1>2. Mirrored(m[p], instrs[i], order, nb) /\ m[p] \in Optimizer!Instruction
  BY <1>1 DEF Mirrors
<1>3. Fits(instrs[i]) /\ InstrFits(instrs, i, 0)
  BY KeptFacts
<1>4. DOMAIN order = 1 .. n
  BY DEF Mirrors
<1>5. ASSUME NEW k \in DOMAIN m[p].args, NEW v, NEW w, v = instrs[i].args[k], w = m[p].args[k]
      PROVE  /\ v \in Int /\ w \in Int
             /\ v <= 0 => w = v
             /\ v = 0 => m[p].op = "store"
             /\ v > 0 => /\ w \in 1 .. n /\ w < p /\ order[w] = v /\ m[w].bb = m[p].bb
                         /\ m[w].op \in PureOps
                         /\ m[w].op = "icmp" => m[p].op = "condbr"
  <2>1. k \in DOMAIN instrs[i].args /\ m[p].op = instrs[i].op /\ w = PlaceIn(order, v)
    BY <1>2, <1>5 DEF Mirrored
  <2>2. /\ v \in Int
        /\ v = 0 => instrs[i].op = "store"
        /\ v > 0 => /\ v \in KeptInstrs /\ v < i /\ instrs[v].bb = instrs[i].bb
                    /\ instrs[v].op \in PureOps
                    /\ instrs[v].op = "icmp" => instrs[i].op = "condbr"
    BY <1>5, <2>1, OperandFacts
  <2>3. CASE v <= 0
    <3>1. w = v
      BY <2>1, <2>2, <2>3, PlaceFacts
    <3> QED BY <2>1, <2>2, <2>3, <3>1
  <2>4. CASE v > 0
    <3>1. w \in 1 .. n /\ order[w] = v
      BY <1>4, <2>1, <2>2, <2>4, PlaceFacts
    <3>2. Before(order[w], order[p])
      BY <1>1, <2>2, <2>4, <3>1 DEF Before
    <3>3. w < p
      BY <1>4, <3>1, <3>2 DEF LaidOut
    <3>4. m[w].bb = m[p].bb
      BY <1>1, <2>2, <2>4, <3>1 DEF Mirrors
    <3>5. Mirrored(m[w], instrs[v], order, nb)
      BY <3>1 DEF Mirrors
    <3>6. m[w].op = instrs[v].op
      BY <3>5 DEF Mirrored
    <3> QED BY <2>1, <2>2, <2>4, <3>1, <3>3, <3>4, <3>6
  <2> QED BY <2>2, <2>3, <2>4
<1> QED BY <1>1, <1>2, <1>3, <1>5

\* UsedNext, in the layout.
FollowedBy(m, n, p, op) ==
  p + 1 \in 1 .. n /\ m[p + 1].op = op /\ m[p + 1].args = <<p>> /\ m[p + 1].bb = m[p].bb

LEMMA PlacedNext ==
  ASSUME Function(instrs, nblocks, {}), Settled(kept), NEW order, LaidOut(order), NEW m,
         NEW n \in Nat, NEW nb \in Nat, Mirrors(m, order, n, nb), NEW p \in 1 .. n
  PROVE  \A op : UsedNext(instrs, order[p], 0, op) => FollowedBy(m, n, p, op)
<1> SUFFICES ASSUME NEW op, UsedNext(instrs, order[p], 0, op)
             PROVE  /\ p + 1 \in 1 .. n /\ m[p + 1].op = op /\ m[p + 1].args = <<p>>
                    /\ m[p + 1].bb = m[p].bb
  BY DEF FollowedBy
<1>1. PICK i \in KeptInstrs : i = order[p]
  BY DEF LaidOut, Mirrors
<1>2. /\ i + 1 \in KeptInstrs /\ instrs[i + 1].op = op /\ instrs[i + 1].args = <<i>>
      /\ instrs[i + 1].bb = instrs[i].bb /\ i \in Int /\ i > 0
  BY <1>1, NextFacts, KeptFacts
<1>3. DOMAIN order = 1 .. n
  BY DEF Mirrors
<1>4. p + 1 \in 1 .. n /\ order[p + 1] = i + 1
  BY <1>1, <1>2, <1>3 DEF LaidOut
<1>5. Mirrored(m[p + 1], instrs[i + 1], order, nb) /\ m[p + 1] \in Optimizer!Instruction
  BY <1>4 DEF Mirrors
<1>6. m[p + 1].op = op
  BY <1>2, <1>5 DEF Mirrored
<1>7. m[p + 1].bb = m[p].bb
  BY <1>1, <1>2, <1>4 DEF Mirrors
<1>8. PICK a \in Seq(Int) : a = m[p + 1].args
  BY <1>5 DEF Optimizer!Instruction
<1>9. PICK c \in Seq(Int) : c = instrs[i + 1].args /\ Len(c) = 1 /\ DOMAIN c = {1} /\ c[1] = i
  <2>1. <<i>> \in Seq(Int) /\ Len(<<i>>) = 1 /\ DOMAIN <<i>> = {1} /\ <<i>>[1] = i
    BY <1>2
  <2> QED BY <1>2, <2>1
<1>10. DOMAIN a = {1} /\ Len(a) = 1 /\ a[1] = PlaceIn(order, i)
  BY <1>5, <1>8, <1>9 DEF Mirrored
<1>11. PlaceIn(order, i) = p
  BY <1>1, <1>2, <1>3, PlaceFacts
<1>12. a = <<p>>
  BY <1>10, <1>11
<1> QED BY <1>4, <1>6, <1>7, <1>8, <1>12

LEMMA ModuleValuesStay ==
  ASSUME Function(instrs, nblocks, {}), Settled(kept), NEW order, LaidOut(order), NEW m,
         NEW n \in Nat, NEW nb \in Nat, Mirrors(m, order, n, nb)
  PROVE  Optimizer!ValuesStay(m) /\ Optimizer!ReadsAreStored(m)
<1>1. DOMAIN m = 1 .. n
  BY DEF Mirrors
<1>2. ASSUME NEW p \in 1 .. n, NEW k \in DOMAIN m[p].args, m[p].args[k] > 0
      PROVE  LET v == m[p].args[k] IN v < p /\ m[v].bb = m[p].bb /\ m[v].op \in Optimizer!ValueOps
  <2>1. PICK v \in Int, w \in Int : v = instrs[order[p]].args[k] /\ w = m[p].args[k]
    BY PlacedFacts
  <2>2. v > 0
    <3>1. v <= 0 => w = v
      BY <2>1, PlacedFacts
    <3> QED BY <1>2, <2>1, <3>1
  <2>3. w < p /\ m[w].bb = m[p].bb /\ m[w].op \in PureOps
    BY <2>1, <2>2, PlacedFacts
  <2> QED BY <2>1, <2>3 DEF PureOps, Optimizer!ValueOps
<1>3. ASSUME NEW p \in 1 .. n, m[p].op = "read"
      PROVE  \E j \in 1 .. n : m[j].op = "store" /\ m[j].args = <<p>>
  <2>1. Mirrored(m[p], instrs[order[p]], order, nb) /\ InstrFits(instrs, order[p], 0)
    BY PlacedFacts
  <2>2. instrs[order[p]].op = "read"
    BY <1>3, <2>1 DEF Mirrored
  <2>3. PICK op : op = "store" /\ UsedNext(instrs, order[p], 0, op)
    BY <2>1, <2>2 DEF InstrFits
  <2>4. FollowedBy(m, n, p, op)
    BY <2>3, PlacedNext
  <2> QED BY <2>3, <2>4 DEF FollowedBy
<1> QED BY <1>1, <1>2, <1>3 DEF Optimizer!ValuesStay, Optimizer!ReadsAreStored

\* The last instruction of a block in the layout is its terminator.
LEMMA ModuleEnds ==
  ASSUME Function(instrs, nblocks, {}), Settled(kept), NEW order, LaidOut(order), NEW m,
         NEW n \in Nat, NEW nb \in Nat, Mirrors(m, order, n, nb), NEW p \in 1 .. n
  PROVE  \E e \in 1 .. n :
           /\ p <= e /\ m[e].bb = m[p].bb /\ m[e].op \in Terminators
           /\ \A q \in 1 .. n : m[q].bb = m[p].bb => q <= e /\ (m[q].op \in Terminators => q = e)
<1>1. PICK i \in KeptInstrs : i = order[p]
  BY PlacedFacts
<1>2. PICK b \in kept : b = instrs[i].bb
  BY KeptFacts
<1>3. b \in 1 .. nblocks
  BY DEF Settled
<1>4. PICK j \in DOMAIN instrs : EndedBy(instrs, b, j)
  BY <1>3 DEF Function, Closed
<1>5. j \in KeptInstrs /\ instrs[j].bb = b /\ instrs[j].op \in Terminators
  BY <1>4 DEF EndedBy, KeptInstrs
<1>6. PICK e \in 1 .. n : order[e] = j
  BY <1>5 DEF LaidOut, Mirrors
<1>7. m[e].bb = m[p].bb /\ m[e].op \in Terminators
  <2>1. Mirrored(m[e], instrs[j], order, nb)
    BY <1>6, PlacedFacts
  <2>2. m[e].op \in Terminators
    BY <1>5, <2>1 DEF Mirrored
  <2>3. m[e].bb = m[p].bb
    BY <1>1, <1>2, <1>5, <1>6 DEF Mirrors
  <2> QED BY <2>2, <2>3
<1>8. ASSUME NEW q \in 1 .. n, m[q].bb = m[p].bb
      PROVE  q <= e /\ (m[q].op \in Terminators => q = e)
  <2>1. PICK x \in KeptInstrs : x = order[q]
    BY PlacedFacts
  <2>2. instrs[x].bb = b
    BY <1>1, <1>2, <1>8, <2>1 DEF Mirrors
  <2>3. x \in DOMAIN instrs /\ x \in Nat /\ j \in Nat
    BY <1>5, KeptFacts
  <2>4. x <= j /\ (instrs[x].op \in Terminators => x = j)
    BY <1>4, <2>2, <2>3 DEF EndedBy
  <2>5. m[q].op = instrs[x].op
    <3>1. Mirrored(m[q], instrs[x], order, nb)
      BY <2>1, PlacedFacts
    <3> QED BY <3>1 DEF Mirrored
  <2>6. DOMAIN order = 1 .. n
    BY DEF Mirrors
  <2>7. CASE x = j
    <3>1. q = e
      BY <1>6, <2>1, <2>6, <2>7 DEF LaidOut
    <3> QED BY <3>1
  <2>8. CASE x # j
    <3>1. x < j
      BY <2>3, <2>4, <2>8
    <3>2. Before(order[q], order[e])
      BY <1>5, <1>6, <2>1, <2>2, <3>1 DEF Before
    <3>3. q < e
      BY <2>6, <3>2 DEF LaidOut
    <3> QED BY <2>4, <2>5, <2>8, <3>3
  <2> QED BY <2>7, <2>8
<1> QED BY <1>7, <1>8

LEMMA ModuleLowered ==
  ASSUME Function(instrs, nblocks, {}), Settled(kept), NEW order, LaidOut(order), NEW m,
         NEW n \in Nat, NEW nb \in Nat, Mirrors(m, order, n, nb)
  PROVE  Optimizer!Lowered(m) /\ Optimizer!ComparisonsAgree(m)
<1>1. DOMAIN m = 1 .. n /\ Len(m) = n
  BY DEF Mirrors
<1>2. ASSUME NEW p \in 1 .. n
      PROVE  /\ m[p].op \in {"load", "read", "br"} => m[p].args = <<>>
             /\ m[p].op = "ret" => Len(m[p].args) <= 1
  <2>1. Mirrored(m[p], instrs[order[p]], order, nb) /\ Fits(instrs[order[p]])
    BY PlacedFacts
  <2>2. PICK i : i = instrs[order[p]]
    OBVIOUS
  <2>3. m[p].args \in Seq(Int)
    BY PlacedFacts DEF Optimizer!Instruction
  <2>4. CASE m[p].op \in {"load", "read", "br"}
    <3>1. i.args = <<>>
      BY <2>1, <2>2, <2>4 DEF Mirrored, Fits
    <3>2. Len(m[p].args) = 0
      <4>1. Len(<<>>) = 0
        OBVIOUS
      <4> QED BY <2>1, <2>2, <3>1, <4>1 DEF Mirrored
    <3>3. m[p].args = <<>>
      BY <2>3, <3>2
    <3> QED BY <2>4, <3>3
  <2>5. CASE m[p].op = "ret"
    <3>1. Len(i.args) = 1
      BY <2>1, <2>2, <2>5 DEF Mirrored, Fits
    <3>2. Len(m[p].args) = 1
      BY <2>1, <2>2, <3>1 DEF Mirrored
    <3> QED BY <2>5, <3>2
  <2> QED BY <2>4, <2>5
<1>3. ASSUME NEW p \in 1 .. n, NEW k \in DOMAIN m[p].args
      PROVE  LET v == m[p].args[k]
             IN  /\ v = 0 => m[p].op = "store"
                 /\ v > 0 /\ m[v].op = "icmp" => m[p].op = "condbr"
  <2>1. PICK v \in Int, w \in Int : v = instrs[order[p]].args[k] /\ w = m[p].args[k]
    BY PlacedFacts
  <2>2. /\ v <= 0 => w = v
        /\ v = 0 => m[p].op = "store"
        /\ v > 0 => w \in 1 .. n /\ (m[w].op = "icmp" => m[p].op = "condbr")
    BY <2>1, PlacedFacts
  <2>3. CASE v <= 0
    BY <2>1, <2>2, <2>3
  <2>4. CASE v > 0
    <3>1. w > 0 /\ w # 0
      BY <2>2, <2>4
    <3> QED BY <2>1, <2>2, <2>4, <3>1
  <2> QED BY <2>3, <2>4
<1>4. ASSUME NEW p \in 1 .. n, m[p].op = "icmp"
      PROVE  /\ p + 1 \in 1 .. n /\ m[p + 1].op = "condbr" /\ m[p + 1].bb = m[p].bb
             /\ m[p + 1].args = <<p>>
  <2>1. Mirrored(m[p], instrs[order[p]], order, nb) /\ InstrFits(instrs, order[p], 0)
    BY PlacedFacts
  <2>2. instrs[order[p]].op = "icmp"
    BY <1>4, <2>1 DEF Mirrored
  <2>3. PICK op : op = "condbr" /\ UsedNext(instrs, order[p], 0, op)
    BY <2>1, <2>2 DEF InstrFits
  <2>4. FollowedBy(m, n, p, op)
    BY <2>3, PlacedNext
  <2> QED BY <2>3, <2>4 DEF FollowedBy
<1>5. ASSUME NEW p \in 1 .. n, m[p].op = "condbr"
      PROVE  m[p].args[1] < 0 \/ (p > 1 /\ m[p - 1].op = "icmp" /\ m[p].args = <<p - 1>>)
  <2>1. Mirrored(m[p], instrs[order[p]], order, nb) /\ InstrFits(instrs, order[p], 0)
        /\ order[p] \in KeptInstrs
    BY PlacedFacts
  <2>2. PICK i \in KeptInstrs : i = order[p] /\ i \in Nat /\ i >= 1
    BY <2>1, KeptFacts
  <2>3. instrs[i].op = "condbr" /\ Len(instrs[i].args) = 1 /\ Len(m[p].args) = 1
    BY <1>5, <2>1, <2>2 DEF Mirrored, InstrFits, Fits
  <2>4. m[p].args \in Seq(Int) /\ DOMAIN m[p].args = {1} /\ 1 \in DOMAIN m[p].args
    <3>1. PICK a \in Seq(Int) : a = m[p].args
      BY PlacedFacts DEF Optimizer!Instruction
    <3>2. Len(a) = 1
      BY <2>3, <3>1
    <3> QED BY <3>1, <3>2
  <2>5. PICK v \in Int, w \in Int : v = instrs[i].args[1] /\ w = m[p].args[1]
    BY <2>2, <2>4, PlacedFacts
  <2>6. /\ v <= 0 => w = v
        /\ v = 0 => m[p].op = "store"
        /\ v > 0 => w \in 1 .. n /\ w < p /\ order[w] = v /\ m[w].bb = m[p].bb
                    /\ m[w].op \in PureOps
    BY <2>2, <2>4, <2>5, PlacedFacts
  <2>7. CASE v <= 0
    BY <1>5, <2>5, <2>6, <2>7
  <2>8. CASE v > 0
    <3>1. i > 1 /\ instrs[i - 1].op = "icmp" /\ v = i - 1
      <4>1. i > 1 /\ instrs[i - 1].op = "icmp" /\ v = 0 + (i - 1)
        BY <2>1, <2>2, <2>3, <2>5, <2>8 DEF InstrFits
      <4> QED BY <2>2, <4>1
    <3>2. m[w].op = "icmp"
      <4>1. Mirrored(m[w], instrs[v], order, nb)
        BY <2>6, <2>8, PlacedFacts
      <4> QED BY <3>1, <4>1 DEF Mirrored
    <3>3. w + 1 \in 1 .. n /\ order[w + 1] = i
      <4>1. i = order[w] + 1 /\ instrs[i].bb = instrs[order[w]].bb
        <5>1. m[w].bb = m[p].bb /\ w \in 1 .. n /\ order[w] = v
          BY <2>6, <2>8
        <5>2. instrs[order[w]].bb = instrs[order[p]].bb
          BY <5>1 DEF Mirrors
        <5> QED BY <2>2, <3>1, <5>1, <5>2
      <4>2. DOMAIN order = 1 .. n /\ w \in 1 .. n
        BY <2>6, <2>8 DEF Mirrors
      <4> QED BY <4>1, <4>2 DEF LaidOut
    <3>4. w + 1 = p
      <4>1. DOMAIN order = 1 .. n
        BY DEF Mirrors
      <4> QED BY <2>2, <3>3, <4>1 DEF LaidOut
    <3>5. p > 1 /\ p - 1 = w /\ w \in 1 .. n
      BY <2>6, <2>8, <3>4
    <3>6. m[p].args = <<w>>
      BY <2>3, <2>4, <2>5
    <3> QED BY <3>2, <3>5, <3>6
  <2> QED BY <2>7, <2>8
<1>6. ASSUME NEW p \in 1 .. n, NEW q \in 1 .. n, m[p].op = "icmp", m[q].op = "icmp",
             m[p].bb = m[q].bb
      PROVE  m[p].sym = m[q].sym
  <2>1. /\ p + 1 \in 1 .. n /\ m[p + 1].op \in Terminators /\ m[p + 1].bb = m[p].bb
        /\ q + 1 \in 1 .. n /\ m[q + 1].op \in Terminators /\ m[q + 1].bb = m[p].bb
    BY <1>4, <1>6 DEF Terminators
  <2>2. PICK e \in 1 .. n : \A x \in 1 .. n :
          m[x].bb = m[p].bb => x <= e /\ (m[x].op \in Terminators => x = e)
    BY ModuleEnds
  <2>3. p + 1 = e /\ q + 1 = e
    BY <2>1, <2>2
  <2>4. p = q
    BY <2>3
  <2> QED BY <2>4
<1>7. \A p \in 1 .. n : m[p].op = "icmp" => p < Len(m) /\ m[p + 1].op = "condbr"
  BY <1>1, <1>4
<1>8. Optimizer!Lowered(m)
  BY <1>1, <1>2, <1>3, <1>5, <1>7 DEF Optimizer!Lowered
<1>9. Optimizer!ComparisonsAgree(m)
  BY <1>1, <1>6 DEF Optimizer!ComparisonsAgree
<1> QED BY <1>8, <1>9

LEMMA ModuleWellFormed ==
  ASSUME Function(instrs, nblocks, {}), Settled(kept), NEW order, LaidOut(order), NEW m,
         NEW n \in Nat, NEW nb \in Nat, Mirrors(m, order, n, nb)
  PROVE  Optimizer!WellFormed(m)
<1>1. DOMAIN m = 1 .. n /\ Len(m) = n /\ n >= 1 /\ n \in 1 .. n
  BY DEF Mirrors
<1>2. m \in Seq(Optimizer!Instruction) \ {<<>>}
  <2>1. Len(<<>>) = 0
    OBVIOUS
  <2> QED BY <1>1, <2>1 DEF Mirrors
<1>3. ASSUME NEW p \in 1 .. n
      PROVE  m[p].bb \in 1 .. nb /\ m[p].bb \in Nat /\ m[p].bb >= 1
  <2>1. m[p].bb \in 1 .. nb
    BY PlacedFacts DEF Mirrored
  <2> QED BY <2>1
<1>4. ASSUME NEW p \in 1 .. n, NEW q \in 1 .. n, p <= q
      PROVE  m[p].bb <= m[q].bb
  <2>0. DOMAIN order = 1 .. n
    BY DEF Mirrors
  <2>1. PICK i \in KeptInstrs, j \in KeptInstrs : i = order[p] /\ j = order[q]
    BY PlacedFacts
  <2>2. PICK b \in Nat, c \in Nat : b = instrs[i].bb /\ c = instrs[j].bb
    BY KeptFacts
  <2>3. CASE p < q
    <3>1. Before(i, j)
      BY <2>0, <2>1, <2>3 DEF LaidOut
    <3>2. b < c \/ b = c
      BY <2>2, <3>1 DEF Before
    <3>3. m[p].bb < m[q].bb \/ m[p].bb = m[q].bb
      BY <2>1, <2>2, <3>2 DEF Mirrors
    <3> QED BY <1>3, <3>3
  <2>4. CASE p = q
    BY <1>3, <2>4
  <2> QED BY <1>4, <2>3, <2>4
<1>5. ASSUME NEW x \in 1 .. nb PROVE \E p \in 1 .. n : m[p].bb = x
  <2>1. PICK b \in kept : \A p \in 1 .. n : instrs[order[p]].bb = b <=> m[p].bb = x
    BY DEF Mirrors
  <2>2. b \in 1 .. nblocks
    BY DEF Settled
  <2>3. PICK i \in DOMAIN instrs : EndedBy(instrs, b, i)
    BY <2>2 DEF Function, Closed
  <2>4. i \in KeptInstrs /\ instrs[i].bb = b
    BY <2>3 DEF EndedBy, KeptInstrs
  <2>5. PICK p \in 1 .. n : order[p] = i
    BY <2>4 DEF LaidOut, Mirrors
  <2> QED BY <2>1, <2>4, <2>5
<1>6. m[n].bb = nb
  <2>1. m[n].bb \in 1 .. nb /\ nb \in 1 .. nb
    BY <1>1, <1>3
  <2>2. PICK p \in 1 .. n : m[p].bb = nb
    BY <1>5, <2>1
  <2>3. p <= n
    OBVIOUS
  <2>4. nb <= m[n].bb
    BY <1>1, <1>4, <2>2, <2>3
  <2> QED BY <2>1, <2>4
<1>7. ASSUME NEW x \in 1 .. nb
      PROVE  \E p \in 1 .. n : m[p].bb = x /\ \A q \in 1 .. p - 1 : m[q].bb # x
  <2> DEFINE S == {p \in 1 .. n : m[p].bb = x}
  <2>1. S \subseteq Nat /\ S # {}
    BY <1>5
  <2>2. PICK p \in S : \A q \in S : p <= q
    BY <2>1, LeastExists
  <2>3. \A q \in 1 .. p - 1 : q \in 1 .. n /\ ~(p <= q)
    OBVIOUS
  <2>4. \A q \in 1 .. p - 1 : m[q].bb # x
    BY <2>2, <2>3
  <2> QED BY <2>4
<1>8. ASSUME NEW p \in 1 .. n
      PROVE  m[p].op \in Terminators <=> p = n \/ m[p + 1].bb # m[p].bb
  <2>1. PICK e \in 1 .. n :
          /\ p <= e /\ m[e].bb = m[p].bb /\ m[e].op \in Terminators
          /\ \A q \in 1 .. n : m[q].bb = m[p].bb => q <= e /\ (m[q].op \in Terminators => q = e)
    BY ModuleEnds
  <2>2. CASE p = e
    <3>1. ASSUME p # n, m[p + 1].bb = m[p].bb PROVE FALSE
      <4>1. p + 1 \in 1 .. n
        BY <3>1
      <4>2. p + 1 <= e
        BY <2>1, <3>1, <4>1
      <4> QED BY <2>2, <4>2
    <3> QED BY <2>1, <2>2, <3>1
  <2>3. CASE p # e
    <3>1. p < e /\ p + 1 \in 1 .. n /\ p <= p + 1 /\ p + 1 <= e /\ p # n
      BY <2>1, <2>3
    <3>2. m[p].bb <= m[p + 1].bb /\ m[p + 1].bb <= m[e].bb
      BY <1>4, <3>1
    <3>3. m[p + 1].bb = m[p].bb
      BY <1>3, <2>1, <3>1, <3>2
    <3>4. m[p].op \notin Terminators
      BY <2>1, <2>3
    <3> QED BY <3>1, <3>3, <3>4
  <2> QED BY <2>2, <2>3
<1>9. ASSUME NEW p \in 1 .. n
      PROVE  /\ m[p].op \notin Terminators => m[p].succ = <<>>
             /\ m[p].op = "br" => Len(m[p].succ) = 1
             /\ m[p].op = "condbr" => Len(m[p].succ) = 2
             /\ \A k \in DOMAIN m[p].succ : m[p].succ[k] \in 1 .. nb
             /\ m[p].op \in {"store", "print", "condbr"} => Len(m[p].args) = 1
             /\ m[p].op \in {"arith", "icmp"} => Len(m[p].args) = 2
  <2>1. PICK i : i = instrs[order[p]]
    OBVIOUS
  <2>2. Mirrored(m[p], i, order, nb) /\ Fits(i)
    BY <2>1, PlacedFacts
  <2>3. m[p].op = i.op /\ Len(m[p].succ) = Len(i.succ) /\ Len(m[p].args) = Len(i.args)
        /\ \A k \in DOMAIN m[p].succ : m[p].succ[k] \in 1 .. nb
    BY <2>2 DEF Mirrored
  <2>4. m[p].op \notin Terminators => m[p].succ = <<>>
    <3>1. m[p].op \notin Terminators => i.succ = <<>>
      BY <2>2, <2>3 DEF Fits, Terminators
    <3>2. m[p].succ \in Seq(Nat)
      BY PlacedFacts DEF Optimizer!Instruction
    <3>3. Len(<<>>) = 0
      OBVIOUS
    <3>4. m[p].op \notin Terminators => Len(m[p].succ) = 0
      BY <2>3, <3>1, <3>3
    <3>5. Len(m[p].succ) = 0 => m[p].succ = <<>>
      BY <3>2
    <3> QED BY <3>4, <3>5
  <2> QED BY <2>2, <2>3, <2>4 DEF Fits
<1>10. Optimizer!Terminators = Terminators
  BY DEF Optimizer!Terminators, Terminators
<1>11. \A i, j \in DOMAIN m : i <= j => 1 <= m[i].bb /\ m[i].bb <= m[j].bb
  BY <1>1, <1>3, <1>4
<1>12. \A b \in 1 .. m[Len(m)].bb : \E i \in DOMAIN m :
         m[i].bb = b /\ \A j \in 1 .. i - 1 : m[j].bb # b
  BY <1>1, <1>6, <1>7
<1>13. \A i \in DOMAIN m :
         m[i].op \in Optimizer!Terminators <=> i = Len(m) \/ m[i + 1].bb # m[i].bb
  BY <1>1, <1>8, <1>10
<1>14. /\ \A i \in DOMAIN m : m[i].op \notin Optimizer!Terminators => m[i].succ = <<>>
       /\ \A i \in DOMAIN m : /\ m[i].op = "br" => Len(m[i].succ) = 1
                              /\ m[i].op = "condbr" => Len(m[i].succ) = 2
       /\ \A i \in DOMAIN m : \A k \in DOMAIN m[i].succ : m[i].succ[k] \in 1 .. m[Len(m)].bb
       /\ \A i \in DOMAIN m : m[i].op \in {"store", "print", "condbr"} => Len(m[i].args) = 1
       /\ \A i \in DOMAIN m : m[i].op \in {"arith", "icmp"} => Len(m[i].args) = 2
  BY <1>1, <1>6, <1>9, <1>10
<1> QED BY <1>2, <1>11, <1>12, <1>13, <1>14 DEF Optimizer!WellFormed

(***************************************************************************)
(* What build_ir hands to optimize_ir (src/src/ir_builder.cpp:161-419) is  *)
(* what src/src/optimizer.cpp relies on: well-formed blocks in layout      *)
(* order, values used after they are computed and in their own block only, *)
(* a comparison for the branch after it alone.                             *)
(***************************************************************************)
THEOREM FitsOptimizerTheorem == BRSpec => []FitsOptimizer
<1>1. ASSUME BuiltIInv, phase = "built" PROVE FitsOptimizer
  <2>1. Function(instrs, nblocks, {}) /\ Deleting /\ at = nblocks + 1
    BY <1>1 DEF BuiltIInv, DeletePhases
  <2>2. Settled(kept)
    <3>1. nblocks \in Nat /\ Settled(visited)
      BY <2>1 DEF Function, Deleting
    <3>2. \A b \in 1 .. nblocks : b < nblocks + 1
      BY <3>1
    <3>3. kept = {b \in 1 .. nblocks : b \in visited}
      BY <2>1, <3>2 DEF Deleting
    <3>4. kept = visited
      BY <3>1, <3>3 DEF Settled
    <3> QED BY <3>1, <3>4
  <2>3. PICK order : order = Layout
    OBVIOUS
  <2>4. LaidOut(order) /\ \E n, nb \in Nat : Mirrors(Module, order, n, nb)
    BY <2>1, <2>2, <2>3, ModuleMirrors
  <2>5. PICK n \in Nat, nb \in Nat : Mirrors(Module, order, n, nb)
    BY <2>4
  <2>6. Optimizer!WellFormed(Module)
    BY <2>1, <2>2, <2>4, <2>5, ModuleWellFormed
  <2>7. Optimizer!ValuesStay(Module) /\ Optimizer!ReadsAreStored(Module)
    BY <2>1, <2>2, <2>4, <2>5, ModuleValuesStay
  <2>8. Optimizer!Lowered(Module) /\ Optimizer!ComparisonsAgree(Module)
    BY <2>1, <2>2, <2>4, <2>5, ModuleLowered
  <2>9. \A b \in kept : Succs(b) \subseteq kept
    BY <2>2 DEF Settled
  <2>10. ASSUME NEW i \in DOMAIN instrs
         PROVE  /\ AreWords(instrs[i].args)
                /\ instrs[i].op = "arith" => instrs[i].sym \in {<<op>> : op \in Operations}
                /\ instrs[i].op = "icmp" => instrs[i].sym \in {<<op>> : op \in Predicates}
    <3>1. InstrFits(instrs, i, 0) /\ Fits(instrs[i])
      BY <2>1 DEF Function, GoodCode, InstrFits
    <3>2. AreWords(instrs[i].args)
      BY <3>1 DEF InstrFits, OperandFits, AreWords
    <3> QED BY <3>1, <3>2 DEF Fits
  <2> QED BY <2>6, <2>7, <2>8, <2>9, <2>10 DEF FitsOptimizer
<1>2. ASSUME BuiltIInv PROVE FitsOptimizer
  BY <1>1, <1>2 DEF FitsOptimizer
<1> QED BY <1>2, BuiltInductive, PTL
=============================================================================
