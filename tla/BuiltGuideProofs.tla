-------------------------- MODULE BuiltGuideProofs --------------------------
(***************************************************************************)
(* The built function keeps to the source.  While it is built, there is a  *)
(* guide: it says of each instruction at which position of the source it   *)
(* stands and which expression it computes, and of each block where in the *)
(* source it starts.  GuideIInv is that every step of genIRStmt, and every *)
(* deletion of an unreachable block, can continue the guide.               *)
(***************************************************************************)
EXTENDS IRBuilderProofs

-----------------------------------------------------------------------------
(***************************************************************************)
(* Positions in the source.  A position is the sequence of the statements  *)
(* that are left.  Blocks and declarations at its front are stepped over   *)
(* silently; two positions are the same if they lead to a common one.      *)
(*                                                                         *)
(* These definitions have the tree and the names as parameters, so that    *)
(* they mean the same before and after a step.                             *)
(***************************************************************************)

Pos(t) == Seq({n \in DOMAIN t : t[n].kind \in Statements \cup {"decl"}})

Silent(t, p) == p # <<>> /\ t[Head(p)].kind \in {"block", "decl"}

Onto(t, p) == (IF t[Head(p)].kind = "block" THEN t[Head(p)].kids ELSE <<>>) \o Tail(p)

Backwards(t, S) == \A r \in Pos(t) : Silent(t, r) /\ Onto(t, r) \in S => r \in S

Leads(t, p, q) == \A S \in SUBSET Pos(t) : q \in S /\ Backwards(t, S) => p \in S

Same(t, p, q) ==
  p \in Pos(t) /\ q \in Pos(t) /\ \E r \in Pos(t) : Leads(t, p, r) /\ Leads(t, q, r)

LEMMA PosFacts ==
  ASSUME WellFormedTree(tree)
  PROVE  /\ Pos(tree) = Seq(StmtNodes) /\ <<>> \in Pos(tree)
         /\ \A p \in Pos(tree) : p # <<>> => Head(p) \in StmtNodes /\ Tail(p) \in Pos(tree)
         /\ \A p \in Pos(tree) : Silent(tree, p) => Onto(tree, p) \in Pos(tree)
         /\ \A n \in StmtNodes, p \in Pos(tree) :
              LET q == <<n>> \o p
              IN  q \in Pos(tree) /\ q # <<>> /\ Head(q) = n /\ Tail(q) = p
<1>1. Pos(tree) = Seq(StmtNodes)
  BY DEF Pos, StmtNodes
<1>2. ASSUME NEW p \in Seq(StmtNodes), Silent(tree, p) PROVE Onto(tree, p) \in Seq(StmtNodes)
  <2>1. Head(p) \in StmtNodes /\ Tail(p) \in Seq(StmtNodes)
    BY <1>2 DEF Silent
  <2>2. CASE tree[Head(p)].kind = "block"
    <3>1. Kids(Head(p)) \in Seq(Nat)
            /\ \A k \in DOMAIN Kids(Head(p)) : Kids(Head(p))[k] \in StmtNodes
      BY <2>1, <2>2, StmtFacts
    <3>2. PICK c : c = Kids(Head(p))
      OBVIOUS
    <3>3. c \in Seq(StmtNodes)
      BY <3>1, <3>2
    <3>4. Onto(tree, p) = c \o Tail(p)
      BY <2>2, <3>2 DEF Onto, Kids
    <3> QED BY <2>1, <3>3, <3>4
  <2>3. CASE tree[Head(p)].kind # "block"
    <3>1. Onto(tree, p) = <<>> \o Tail(p)
      BY <2>3 DEF Onto
    <3> QED BY <2>1, <3>1
  <2> QED BY <2>2, <2>3
<1>3. ASSUME NEW n \in StmtNodes, NEW p \in Seq(StmtNodes)
      PROVE  LET q == <<n>> \o p
             IN  q \in Seq(StmtNodes) /\ q # <<>> /\ Head(q) = n /\ Tail(q) = p
  <2>0. <<n>> \in Seq(StmtNodes) /\ Len(<<n>>) = 1 /\ <<n>>[1] = n
    OBVIOUS
  <2>1. PICK one \in Seq(StmtNodes) : one = <<n>> /\ Len(one) = 1 /\ one[1] = n
    BY <2>0
  <2>2. PICK q : q = one \o p
    OBVIOUS
  <2>3. q \in Seq(StmtNodes) /\ Len(q) = 1 + Len(p) /\ q[1] = n
    BY <2>1, <2>2
  <2>4. q # <<>> /\ Head(q) = n
    BY <2>3
  <2>5. Tail(q) = p
    <3>1. Tail(q) \in Seq(StmtNodes) /\ Len(Tail(q)) = Len(p)
      BY <2>3, <2>4
    <3>2. \A i \in 1 .. Len(p) : Tail(q)[i] = p[i]
      BY <2>1, <2>2, <2>3, <2>4
    <3> QED BY <3>1, <3>2, SeqEqual
  <2> QED BY <2>1, <2>2, <2>3, <2>4, <2>5
<1>4. \A p \in Seq(StmtNodes) : p # <<>> => Head(p) \in StmtNodes /\ Tail(p) \in Seq(StmtNodes)
  OBVIOUS
<1>5. <<>> \in Seq(StmtNodes)
  OBVIOUS
<1> QED BY <1>1, <1>2, <1>3, <1>4, <1>5

LEMMA LeadsFacts ==
  ASSUME WellFormedTree(tree), NEW p \in Pos(tree), NEW q \in Pos(tree), Leads(tree, p, q)
  PROVE  /\ \A r \in Pos(tree) : Leads(tree, q, r) => Leads(tree, p, r)
         /\ p = q \/ (Silent(tree, p) /\ Leads(tree, Onto(tree, p), q))
<1>1. ASSUME NEW r \in Pos(tree), Leads(tree, q, r) PROVE Leads(tree, p, r)
  BY <1>1 DEF Leads
<1> DEFINE S == {r \in Pos(tree) : r = q \/ (Silent(tree, r) /\ Leads(tree, Onto(tree, r), q))}
<1>2. q \in S /\ S \in SUBSET Pos(tree)
  OBVIOUS
<1>3. Leads(tree, q, q)
  BY DEF Leads
<1>4. ASSUME NEW r \in Pos(tree), Silent(tree, r), Onto(tree, r) \in S PROVE r \in S
  <2>1. PICK o \in Pos(tree) : o = Onto(tree, r)
    BY <1>4, PosFacts
  <2>2. Leads(tree, o, q)
    <3>1. CASE o = q
      BY <1>3, <3>1
    <3>2. CASE o # q
      <4>1. Silent(tree, o) /\ Leads(tree, Onto(tree, o), q)
        BY <1>4, <2>1, <3>2
      <4>2. ASSUME NEW T \in SUBSET Pos(tree), q \in T, Backwards(tree, T) PROVE o \in T
        <5>1. Onto(tree, o) \in T
          BY <4>1, <4>2 DEF Leads
        <5> QED BY <2>1, <4>1, <4>2, <5>1 DEF Backwards
      <4> QED BY <4>2 DEF Leads
    <3> QED BY <3>1, <3>2
  <2> QED BY <1>4, <2>1, <2>2
<1>5. p \in S
  <2>1. Backwards(tree, S)
    BY <1>4 DEF Backwards
  <2> QED BY <1>2, <2>1 DEF Leads
<1> QED BY <1>1, <1>5

LEMMA LeadsOnto ==
  ASSUME WellFormedTree(tree), NEW p \in Pos(tree), Silent(tree, p)
  PROVE  Leads(tree, p, Onto(tree, p)) /\ Leads(tree, p, p)
BY DEF Leads, Backwards

\* Silent steps are deterministic.
LEMMA LeadsForks ==
  ASSUME WellFormedTree(tree), NEW p \in Pos(tree), NEW q \in Pos(tree), NEW r \in Pos(tree),
         Leads(tree, p, q), Leads(tree, p, r)
  PROVE  Leads(tree, q, r) \/ Leads(tree, r, q)
<1> DEFINE S == {o \in Pos(tree) : /\ Leads(tree, o, q)
                                   /\ Leads(tree, o, r) => Leads(tree, q, r) \/ Leads(tree, r, q)}
<1>1. q \in S /\ S \in SUBSET Pos(tree)
  BY DEF Leads
<1>2. ASSUME NEW o \in Pos(tree), Silent(tree, o), Onto(tree, o) \in S PROVE o \in S
  <2>1. Onto(tree, o) \in Pos(tree) /\ Leads(tree, o, Onto(tree, o))
    BY <1>2, PosFacts, LeadsOnto
  <2>2. Leads(tree, o, q)
    BY <1>2, <2>1, LeadsFacts
  <2>3. ASSUME Leads(tree, o, r) PROVE Leads(tree, q, r) \/ Leads(tree, r, q)
    <3>1. o = r \/ Leads(tree, Onto(tree, o), r)
      BY <1>2, <2>3, LeadsFacts
    <3> QED BY <1>2, <2>2, <3>1
  <2> QED BY <2>2, <2>3
<1>3. p \in S
  <2>1. Backwards(tree, S)
    BY <1>2 DEF Backwards
  <2>2. \A T \in SUBSET Pos(tree) : q \in T /\ Backwards(tree, T) => p \in T
    BY DEF Leads
  <2> HIDE DEF S
  <2> QED BY <1>1, <2>1, <2>2
<1> QED BY <1>3

LEMMA SameFacts ==
  ASSUME WellFormedTree(tree)
  PROVE  /\ \A p \in Pos(tree) : Same(tree, p, p)
         /\ \A p, q : Same(tree, p, q) => Same(tree, q, p)
         /\ \A p, q, r : Same(tree, p, q) /\ Same(tree, q, r) => Same(tree, p, r)
         /\ \A p \in Pos(tree) : Silent(tree, p) => Same(tree, p, Onto(tree, p))
         /\ \A p, q : Same(tree, p, q) /\ ~Silent(tree, p) /\ ~Silent(tree, q) => p = q
<1>1. \A p \in Pos(tree) : Leads(tree, p, p)
  BY DEF Leads
<1>2. ASSUME NEW p, NEW q, NEW r, Same(tree, p, q), Same(tree, q, r) PROVE Same(tree, p, r)
  <2>0. p \in Pos(tree) /\ q \in Pos(tree) /\ r \in Pos(tree)
    BY <1>2 DEF Same
  <2>1. PICK a \in Pos(tree) : Leads(tree, p, a) /\ Leads(tree, q, a)
    BY <1>2 DEF Same
  <2>2. PICK b \in Pos(tree) : Leads(tree, q, b) /\ Leads(tree, r, b)
    BY <1>2 DEF Same
  <2>3. Leads(tree, a, b) \/ Leads(tree, b, a)
    BY <2>0, <2>1, <2>2, LeadsForks
  <2>4. (Leads(tree, p, b) /\ Leads(tree, r, b)) \/ (Leads(tree, p, a) /\ Leads(tree, r, a))
    BY <2>0, <2>1, <2>2, <2>3, LeadsFacts
  <2> QED BY <2>0, <2>1, <2>2, <2>4 DEF Same
<1>3. ASSUME NEW p \in Pos(tree), Silent(tree, p) PROVE Same(tree, p, Onto(tree, p))
  <2>1. Onto(tree, p) \in Pos(tree) /\ Leads(tree, p, Onto(tree, p))
    BY <1>3, PosFacts, LeadsOnto
  <2> QED BY <1>1, <2>1 DEF Same
<1>4. ASSUME NEW p, NEW q, Same(tree, p, q), ~Silent(tree, p), ~Silent(tree, q) PROVE p = q
  <2>1. PICK r \in Pos(tree) : Leads(tree, p, r) /\ Leads(tree, q, r)
    BY <1>4 DEF Same
  <2>2. p \in Pos(tree) /\ q \in Pos(tree)
    BY <1>4 DEF Same
  <2> QED BY <1>4, <2>1, <2>2, LeadsFacts
<1> QED BY <1>1, <1>2, <1>3, <1>4 DEF Same

-----------------------------------------------------------------------------
(***************************************************************************)
(* What the built function is about.  A guide g says of each instruction   *)
(* the position in the source before it (pre), the first instruction of    *)
(* the code it is part of (first) and, where it computes something, the    *)
(* expression whose value that is (of); of each block the position at its  *)
(* start, and of those that are not ended the one at their end (fin).      *)
(***************************************************************************)

Guides(t) ==
  [pre : [Nat -> Pos(t)], first : [Nat -> Nat], of : [Nat -> Nat],
   start : [Nat -> Pos(t)], fin : [Nat -> Pos(t)]]

\* The parameter, which the caller sets.
IsCall(i) == i.op = "store" /\ i.args[1] = 0

\* The position after an instruction at position p.
Post(i, p) ==
  IF i.op = "print" \/ (i.op = "store" /\ i.args[1] # 0 /\ i.sym # ret_ref) THEN Tail(p) ELSE p

\* p is the position at the end of block b, of the first n instructions.
AtEnd(t, s, g, n, b, p) ==
  \/ (\A i \in 1 .. n : s[i].bb # b) /\ Same(t, g.start[b], p)
  \/ \E i \in 1 .. n : /\ s[i].bb = b /\ \A j \in i + 1 .. n : s[j].bb # b
                       /\ Same(t, Post(s[i], g.pre[i]), p)

\* The values of expressions, as far as they do not depend on the state.
Evaluates(t, f) ==
  \A n \in DOMAIN t :
    LET a == f[t[n].kids[1]]
        b == f[t[n].kids[2]]
    IN  /\ t[n].kind = "cnst" => f[n] = t[n].value
        /\ t[n].kind = "uexpr" => f[n] = IF a = junk THEN junk ELSE Arith("sub", 0, a)
        /\ t[n].kind = "bexpr" =>
             f[n] = IF a = junk \/ b = junk THEN junk ELSE Arith(t[n].op, a, b)
        /\ t[n].kind = "rexpr" =>
             f[n] = IF a = junk \/ b = junk THEN junk ELSE IF Holds(t[n].op, a, b) THEN 1 ELSE 0

\* Operand v is the constant that expression m always has as its value.
Fixed(t, v, m) == v < 0 /\ \A f : Evaluates(t, f) => f[m] \in {junk, WordOf(v)}

\* Operand v, of instruction i in the code from first on, is the value of expression m.
Names(t, of, v, m, first, i) == Fixed(t, v, m) \/ (v > 0 /\ first <= v /\ v < i /\ of[v] = m)

\* Instruction i, which is j, computes expression of[i].
Computes(t, nm, of, j, first, i) ==
  LET m == of[i]
      Arg(k, l) == Names(t, of, j.args[k], t[m].kids[l], first, i)
  IN  /\ m \in DOMAIN t
      /\ j.op = "load" => t[m].kind = "var" /\ j.sym = nm[m]
      /\ j.op = "read" => t[m].kind = "read"
      /\ j.op = "arith" =>
           \/ t[m].kind = "uexpr" /\ j.sym = <<"sub">> /\ j.args[1] = Constant(0) /\ Arg(2, 1)
           \/ t[m].kind = "bexpr" /\ j.sym = <<t[m].op>> /\ Arg(1, 1) /\ Arg(2, 2)
      /\ j.op = "icmp" =>
           t[m].kind = "rexpr" /\ j.sym = <<t[m].op>> /\ Arg(1, 1) /\ Arg(2, 2)

\* Where a while or an if at position p goes on.
Taken(t, p, holds) ==
  LET n == Head(p)
      kids == t[n].kids
  IN  (IF t[n].kind = "while" THEN (IF holds THEN <<kids[2], n>> ELSE <<>>)
       ELSE IF holds THEN <<kids[2]>>
       ELSE IF Len(kids) = 3 THEN <<kids[3]>> ELSE <<>>) \o Tail(p)

\* The result, which the caller gets.
IsResult(i) == i.op = "store" /\ i.sym = ret_ref

\* Instruction i, which is j, is what the statement at position p does, as far as the
\* instruction alone says.
Acts(t, nm, of, start, j, p, first, i) ==
  LET kids == t[Head(p)].kids
      AtKind(kinds) == p # <<>> /\ t[Head(p)].kind \in kinds
      IsPart(k) == Names(t, of, j.args[1], kids[k], first, i)
  IN  /\ j.op \in PureOps => Computes(t, nm, of, j, first, i)
      /\ j.op \notin {"br", "store"} => ~Silent(t, p)
      /\ j.op = "read" => AtKind({"asgn"}) /\ of[i] = kids[2] /\ first = i
      /\ IsCall(j) => i = 1
      /\ IsResult(j) => (p = <<>> /\ j.args[1] = Constant(0)) \/ (AtKind({"ret"}) /\ IsPart(1))
      /\ j.op = "store" /\ j.sym # ret_ref /\ j.args[1] # 0 =>
           AtKind({"asgn"}) /\ j.sym = nm[kids[1]] /\ IsPart(2)
      /\ j.op = "print" => AtKind({"print"}) /\ IsPart(1)
      /\ j.op = "condbr" =>
           /\ AtKind({"while", "if"}) /\ IsPart(1)
           /\ j.succ[1] > retBB /\ Same(t, start[j.succ[1]], Taken(t, p, TRUE))
           /\ j.succ[2] > retBB /\ Same(t, start[j.succ[2]], Taken(t, p, FALSE))
      /\ j.op = "br" /\ j.succ[1] # retBB => j.succ[1] > retBB /\ Same(t, start[j.succ[1]], p)
      /\ j.op # "ret"

\* Instruction i follows the one before it in the same code.
Proceeds(t, i, j, p) ==
  ~Silent(t, p) /\ (i.op \in PureOps \/ (IsResult(i) /\ j.op = "br"))

Joined(t, s, g, i) ==
  /\ g.first[i] \in 1 .. i
  /\ g.first[i] < i =>
       /\ s[i - 1].bb = s[i].bb /\ g.first[i - 1] = g.first[i] /\ g.pre[i - 1] = g.pre[i]
       /\ Proceeds(t, s[i - 1], s[i], g.pre[i])
  /\ s[i].op = "br" /\ s[i].succ[1] = retBB => g.first[i] < i /\ IsResult(s[i - 1])

\* Instruction i stands for what the statement at its position does there.
Stands(t, nm, s, g, i) ==
  Acts(t, nm, g.of, g.start, s[i], g.pre[i], g.first[i], i) /\ Joined(t, s, g, i)

\* The block that returns.
Returns(s, i) ==
  \/ s[i].op = "load" /\ s[i].sym = ret_ref
  \/ /\ s[i].op = "ret" /\ s[i].args = <<i - 1>>
     /\ i > 1 /\ s[i - 1].bb = retBB /\ s[i - 1].op = "load"

Guided(t, nm, s, open, g) ==
  /\ g \in Guides(t)
  /\ retBB \notin open
  /\ \A i \in DOMAIN s :
       IF s[i].bb = retBB THEN Returns(s, i)
       ELSE Stands(t, nm, s, g, i) /\ AtEnd(t, s, g, i - 1, s[i].bb, g.pre[i])
  /\ \A b \in open : AtEnd(t, s, g, Len(s), b, g.fin[b])

OpenAt(w, c) == {c} \cup UNION {Owned(w[i]) : i \in DOMAIN w}

\* The task at position p, with q after it.
TaskFits(g, task, p, q) ==
  /\ task[1] = "stmt" => p = <<task[2]>> \o q
  /\ task[1] = "loop" => task[2] > retBB /\ g.start[task[2]] = p /\ g.fin[task[3]] = q
  /\ task[1] = "endif" => task[2] > retBB /\ p = q /\ g.start[task[2]] = q /\ g.fin[task[2]] = q
  /\ task[1] = "else" => p = q /\ g.fin[task[2]] = <<task[3]>> \o q
  /\ task[1] = "join" => p = q /\ g.fin[task[2]] = q

\* k says where each of the tasks w starts.
Ahead(t, g, w, k) ==
  /\ k \in [Nat -> Pos(t)]
  /\ \A j \in 1 .. Len(w) : TaskFits(g, w[j], k[j], k[j + 1])
  /\ k[Len(w) + 1] = <<>>

\* The body starts the entry, after the parameter has been stored.
Entered(t, nm, s, g) ==
  /\ g.start[entryBB] = <<t[1].kids[Len(t[1].kids)]>>
  /\ 1 \in DOMAIN s /\ s[1].bb \in {entryBB, retBB}
  /\ \A d \in DOMAIN t : t[d].kind = "param" =>
       1 \in DOMAIN s /\ s[1].bb = entryBB /\ IsCall(s[1]) /\ s[1].sym = nm[d]

-----------------------------------------------------------------------------
(***************************************************************************)
(* The values of the source's expressions                                  *)
(***************************************************************************)

\* f is what the expressions are worth if the variables are v and the last input x.
EvaluatesIn(t, nm, f, v, x) ==
  /\ Evaluates(t, f)
  /\ \A n \in DOMAIN t :
       /\ t[n].kind = "read" => f[n] = x
       /\ t[n].kind = "var" =>
            \A d \in DOMAIN t : t[d].kind \in {"param", "decl"} /\ nm[d] = nm[n] => f[n] = v[d]

EvalAt(f, n) ==
  LET node == tree[n]
      a == f[Kids(n)[1]]
      b == f[Kids(n)[2]]
  IN  CASE node.kind = "cnst" -> node.value
        [] node.kind = "var" -> vars[DeclOf(n)]
        [] node.kind = "read" -> input
        [] node.kind = "uexpr" -> IF a = junk THEN junk ELSE Arith("sub", 0, a)
        [] OTHER -> IF a = junk \/ b = junk THEN junk
                    ELSE IF node.kind = "bexpr" THEN Arith(node.op, a, b)
                    ELSE IF Holds(node.op, a, b) THEN 1 ELSE 0

LEMMA SameValues ==
  ASSUME WellFormedTree(tree), NEW n \in Exprs, NEW f, NEW g,
         \A k \in DOMAIN Kids(n) : f[Kids(n)[k]] = g[Kids(n)[k]]
  PROVE  EvalAt(f, n) = EvalAt(g, n)
<1>1. CASE tree[n].kind \in {"cnst", "var", "read"}
  BY <1>1 DEF EvalAt
<1>2. CASE tree[n].kind = "uexpr"
  <2>1. f[Kids(n)[1]] = g[Kids(n)[1]]
    BY <1>2, ExprFacts
  <2> QED BY <1>2, <2>1 DEF EvalAt
<1>3. CASE tree[n].kind \in {"bexpr", "rexpr"}
  <2>1. f[Kids(n)[1]] = g[Kids(n)[1]] /\ f[Kids(n)[2]] = g[Kids(n)[2]]
    BY <1>3, ExprFacts, Zenon
  <2> QED BY <1>3, <2>1 DEF EvalAt
<1> QED BY <1>1, <1>2, <1>3, ExprFacts DEF Expressions

\* The recursive definition of Eval has a solution.
LEMMA EvalDef ==
  ASSUME WellFormedTree(tree)
  PROVE  Eval = [n \in Exprs |-> EvalAt(Eval, n)]
<1> DEFINE Last(d) == {n \in Exprs : n > Len(tree) - d}
           T == {d \in Nat : \E f : f = [n \in Last(d) |-> EvalAt(f, n)]}
<1>0. Len(tree) \in Nat /\ \A n \in Exprs : n \in 1 .. Len(tree)
  BY TreeFacts DEF Exprs
<1>1. 0 \in T
  <2>1. Last(0) = {}
    BY <1>0
  <2>2. \E f : f = [n \in {} |-> EvalAt(f, n)]
    <3>1. [n \in {} |-> 0] = [n \in {} |-> EvalAt([m \in {} |-> 0], n)]
      OBVIOUS
    <3> QED BY <3>1
  <2> QED BY <2>1, <2>2
<1>2. ASSUME NEW d \in Nat, d \in T PROVE d + 1 \in T
  <2>1. PICK f : f = [n \in Last(d) |-> EvalAt(f, n)]
    BY <1>2
  <2> DEFINE g == [n \in Last(d + 1) |-> IF n \in Last(d) THEN f[n] ELSE EvalAt(f, n)]
  <2>2. \A n \in Last(d + 1) : g[n] = EvalAt(f, n)
    BY <2>1
  <2>3. Last(d) \subseteq Last(d + 1)
    BY <1>0
  <2>4. \A n \in Last(d) : g[n] = f[n]
    BY <2>3
  <2>5. ASSUME NEW n \in Last(d + 1) PROVE g[n] = EvalAt(g, n)
    <3> HIDE DEF g
    <3>1. ASSUME NEW k \in DOMAIN Kids(n) PROVE f[Kids(n)[k]] = g[Kids(n)[k]]
      <4>1. Kids(n)[k] \in Exprs /\ n < Kids(n)[k]
        BY ExprFacts
      <4>2. Kids(n)[k] \in Last(d)
        BY <4>1, <1>0
      <4> QED BY <4>2, <2>4
    <3>2. EvalAt(f, n) = EvalAt(g, n)
      BY <3>1, SameValues
    <3> QED BY <3>2, <2>2
  <2>6. g = [n \in Last(d + 1) |-> EvalAt(g, n)]
    BY <2>5
  <2>7. \E h : h = [n \in Last(d + 1) |-> EvalAt(h, n)]
    BY <2>6
  <2>8. d + 1 \in Nat
    OBVIOUS
  <2> QED BY <2>7, <2>8
<1>3. Len(tree) \in T
  <2> HIDE DEF T
  <2> QED BY <1>0, <1>1, <1>2, NatSetInduction
<1>4. Last(Len(tree)) = Exprs
  BY <1>0
<1>5. \E f : f = [n \in Exprs |-> EvalAt(f, n)]
  BY <1>3, <1>4
<1> QED BY <1>5, Zenon DEF Eval, EvalAt

\* A use refers to the declaration that has its name.
LEMMA DeclOfFacts ==
  ASSUME Prepared, NEW n \in Uses
  PROVE  /\ DeclOf(n) \in Decls /\ name[DeclOf(n)] = name[n]
         /\ \A d \in Decls : name[d] = name[n] => d = DeclOf(n)
<1>1. DOMAIN tree = 1 .. Len(tree) /\ Len(tree) \in Nat
  BY TreeFacts DEF Prepared
<1>2. \A x \in Decls \cup Uses : x \in Nat /\ x < Len(tree) + 1
  BY <1>1 DEF Decls, Uses
<1>3. PICK d \in Decls : Binds(d, n) /\ name[n] = name[d]
  BY <1>2 DEF Prepared, NamesOK, Bound
<1>4. ASSUME NEW e \in Visible(n), Binds(e, n) PROVE e = d
  <2>1. e \in Nat /\ d \in Nat /\ e <= d /\ d <= e
    BY <1>2, <1>3, <1>4 DEF Binds, Visible
  <2> QED BY <2>1
<1>5. DeclOf(n) = d
  BY <1>3, <1>4 DEF DeclOf, Binds
<1> QED BY <1>3, <1>5, NameFacts

LEMMA EvalFacts == Prepared => EvaluatesIn(tree, name, Eval, vars, input)
<1> SUFFICES ASSUME Prepared PROVE EvaluatesIn(tree, name, Eval, vars, input)
  OBVIOUS
<1>1. WellFormedTree(tree)
  BY DEF Prepared
<1>2. \A n \in Exprs : Eval[n] = EvalAt(Eval, n)
  BY <1>1, EvalDef
<1>3. \A n \in DOMAIN tree : tree[n].kind \in Expressions => n \in Exprs
  BY DEF Exprs
<1>4. Evaluates(tree, Eval)
  BY <1>2, <1>3 DEF Evaluates, EvalAt, Expressions, Kids
<1>5. ASSUME NEW n \in DOMAIN tree, tree[n].kind = "var", NEW d \in DOMAIN tree,
             tree[d].kind \in {"param", "decl"}, name[d] = name[n]
      PROVE  Eval[n] = vars[d]
  <2>1. n \in Uses /\ d \in Decls
    BY <1>5 DEF Uses, Decls
  <2>2. DeclOf(n) = d
    BY <1>5, <2>1, DeclOfFacts
  <2>3. Eval[n] = vars[DeclOf(n)]
    BY <1>2, <1>3, <1>5 DEF EvalAt, Expressions
  <2> QED BY <2>2, <2>3
<1>6. \A n \in DOMAIN tree : tree[n].kind = "read" => Eval[n] = input
  BY <1>2, <1>3 DEF EvalAt, Expressions
<1> QED BY <1>4, <1>5, <1>6 DEF EvaluatesIn

\* There is one such f.
LEMMA EvaluatesOnce ==
  ASSUME Prepared, NEW f, NEW g, NEW v, NEW x,
         EvaluatesIn(tree, name, f, v, x), EvaluatesIn(tree, name, g, v, x)
  PROVE  \A n \in Exprs : f[n] = g[n]
<1> DEFINE P == {n \in Exprs : f[n] = g[n]}
<1>0. WellFormedTree(tree)
  BY DEF Prepared
<1>1. ASSUME NEW n \in Exprs, \A k \in DOMAIN Kids(n) : Kids(n)[k] \in P PROVE n \in P
  <2>0. /\ n \in DOMAIN tree /\ tree[n].kind \in Expressions
        /\ tree[n].kind = "uexpr" => Kids(n)[1] \in P
        /\ tree[n].kind \in {"bexpr", "rexpr"} => Kids(n)[1] \in P /\ Kids(n)[2] \in P
    BY <1>0, <1>1, ExprFacts
  <2>1. CASE tree[n].kind \in {"cnst", "read"}
    BY <2>0, <2>1 DEF EvaluatesIn, Evaluates
  <2>2. CASE tree[n].kind = "var"
    <3>1. n \in Uses
      BY <2>0, <2>2 DEF Uses
    <3>2. PICK d \in Decls : name[d] = name[n]
      BY <3>1, DeclOfFacts
    <3>3. d \in DOMAIN tree /\ tree[d].kind \in {"param", "decl"}
      BY DEF Decls
    <3>4. f[n] = v[d] /\ g[n] = v[d]
      BY <2>0, <2>2, <3>2, <3>3 DEF EvaluatesIn
    <3> QED BY <3>4
  <2>3. CASE tree[n].kind = "uexpr"
    <3>1. f[Kids(n)[1]] = g[Kids(n)[1]]
      BY <2>0, <2>3
    <3>2. PICK a, b : a = f[Kids(n)[1]] /\ b = g[Kids(n)[1]]
      OBVIOUS
    <3>3. /\ f[n] = IF a = junk THEN junk ELSE Arith("sub", 0, a)
          /\ g[n] = IF b = junk THEN junk ELSE Arith("sub", 0, b)
      BY <2>0, <2>3, <3>2 DEF EvaluatesIn, Evaluates, Kids
    <3> QED BY <3>1, <3>2, <3>3
  <2>4. CASE tree[n].kind \in {"bexpr", "rexpr"}
    <3>1. f[Kids(n)[1]] = g[Kids(n)[1]] /\ f[Kids(n)[2]] = g[Kids(n)[2]]
      BY <2>0, <2>4
    <3> QED BY <2>0, <2>4, <3>1 DEF EvaluatesIn, Evaluates, Kids
  <2> QED BY <2>0, <2>1, <2>2, <2>3, <2>4 DEF Expressions
<1>2. Exprs \subseteq P
  <2> HIDE DEF P
  <2> QED BY <1>0, <1>1, ExprInduction
<1> QED BY <1>2

\* What the expressions are worth depends on the variables and the input alone.
LEMMA EvalStays ==
  ASSUME Prepared, Prepared', UNCHANGED <<tree, name, vars, input>>
  PROVE  \A n \in Exprs : Eval'[n] = Eval[n]
<1>1. EvaluatesIn(tree, name, Eval, vars, input)
  BY EvalFacts
<1>2. (Prepared => EvaluatesIn(tree, name, Eval, vars, input))'
  BY EvalFacts, PTL
<1>3. EvaluatesIn(tree, name, Eval', vars, input)
  BY <1>2
<1> QED BY <1>1, <1>3, EvaluatesOnce

-----------------------------------------------------------------------------
(***************************************************************************)
(* The code of an expression computes its value                            *)
(***************************************************************************)

Coded(t, nm, code, k, of) == \A j \in DOMAIN code : Computes(t, nm, of, code[j], k + 1, k + j)

\* The code of expression n, with its value.
Means(t, nm, n, e, k, of) ==
  Coded(t, nm, e.code, k, of) /\ Names(t, of, e.val, n, k + 1, k + Len(e.code) + 1)

LEMMA NamesMore ==
  ASSUME NEW t, NEW f, NEW g, NEW v \in Int, NEW m, NEW first \in Int, NEW start \in Int,
         NEW i \in Int, NEW j \in Int,
         Names(t, f, v, m, first, i), start <= first, i <= j,
         \A x \in Nat : first <= x /\ x < i => f[x] = g[x]
  PROVE  Names(t, g, v, m, start, j)
BY DEF Names

TwoArgs(j) == j.op \in {"arith", "icmp"} => j.args[1] \in Int /\ j.args[2] \in Int

Agree(f, g, from, to) == from <= to /\ \A x \in Nat : from <= x /\ x <= to => f[x] = g[x]

LEMMA ComputesMore ==
  ASSUME NEW t, NEW nm, NEW f, NEW g, NEW j, NEW first \in Int, NEW start \in Int,
         NEW i \in Nat, Computes(t, nm, f, j, first, i), start <= first, Agree(f, g, first, i),
         TwoArgs(j)
  PROVE  Computes(t, nm, g, j, start, i)
<1>1. f[i] = g[i]
  BY DEF Agree
<1>3. ASSUME NEW v \in Int, NEW m, Names(t, f, v, m, first, i) PROVE Names(t, g, v, m, start, i)
  <2>1. \A x \in Nat : first <= x /\ x < i => f[x] = g[x]
    BY DEF Agree
  <2> QED BY <1>3, <2>1, NamesMore
<1> QED BY <1>1, <1>3 DEF Computes, TwoArgs

LEMMA FixedFacts ==
  ASSUME WellFormedTree(tree), NEW n \in Exprs, NEW a \in Int, NEW b \in Int
  PROVE  /\ tree[n].kind = "cnst" => Fixed(tree, Constant(tree[n].value), n)
         /\ tree[n].kind = "uexpr" /\ Fixed(tree, a, Kids(n)[1]) =>
              Fixed(tree, Constant(Arith("sub", 0, WordOf(a))), n)
         /\ tree[n].kind = "bexpr" /\ Fixed(tree, a, Kids(n)[1]) /\ Fixed(tree, b, Kids(n)[2]) =>
              Fixed(tree, Constant(Arith(tree[n].op, WordOf(a), WordOf(b))), n)
         /\ tree[n].kind = "rexpr" /\ Fixed(tree, a, Kids(n)[1]) /\ Fixed(tree, b, Kids(n)[2]) =>
              Fixed(tree, Constant(IF Holds(tree[n].op, WordOf(a), WordOf(b)) THEN 1 ELSE 0), n)
<1>0. n \in DOMAIN tree /\ WordOf(a) \in Int /\ WordOf(b) \in Int
  BY ExprFacts DEF WordOf
<1>1. ASSUME NEW w \in Word, \A f : Evaluates(tree, f) => f[n] \in {junk, w}
      PROVE  Fixed(tree, Constant(w), n)
  <2>1. Constant(w) < 0 /\ WordOf(Constant(w)) = w
    BY WordFacts DEF IsWord
  <2> QED BY <1>1, <2>1 DEF Fixed
<1>2. ASSUME tree[n].kind = "cnst" PROVE Fixed(tree, Constant(tree[n].value), n)
  <2>1. tree[n].value \in Word
    BY NodeFacts
  <2> QED BY <1>0, <1>1, <1>2, <2>1 DEF Evaluates
<1>3. ASSUME tree[n].kind = "uexpr", Fixed(tree, a, Kids(n)[1])
      PROVE  Fixed(tree, Constant(Arith("sub", 0, WordOf(a))), n)
  <2>1. Arith("sub", 0, WordOf(a)) \in Word
    BY <1>0, WordFacts DEF Operations
  <2>2. ASSUME NEW f, Evaluates(tree, f) PROVE f[n] \in {junk, Arith("sub", 0, WordOf(a))}
    <3>1. f[Kids(n)[1]] \in {junk, WordOf(a)}
      BY <1>3, <2>2 DEF Fixed
    <3>2. f[n] = IF f[Kids(n)[1]] = junk THEN junk ELSE Arith("sub", 0, f[Kids(n)[1]])
      BY <1>0, <1>3, <2>2 DEF Evaluates, Kids
    <3> QED BY <3>1, <3>2
  <2> QED BY <1>1, <2>1, <2>2
<1>4. ASSUME tree[n].kind = "bexpr", Fixed(tree, a, Kids(n)[1]), Fixed(tree, b, Kids(n)[2])
      PROVE  Fixed(tree, Constant(Arith(tree[n].op, WordOf(a), WordOf(b))), n)
  <2>1. Arith(tree[n].op, WordOf(a), WordOf(b)) \in Word
    BY <1>0, <1>4, WordFacts, NodeFacts
  <2>2. ASSUME NEW f, Evaluates(tree, f)
        PROVE  f[n] \in {junk, Arith(tree[n].op, WordOf(a), WordOf(b))}
    <3>1. f[Kids(n)[1]] \in {junk, WordOf(a)} /\ f[Kids(n)[2]] \in {junk, WordOf(b)}
      BY <1>4, <2>2 DEF Fixed
    <3>2. PICK p, q : p = f[Kids(n)[1]] /\ q = f[Kids(n)[2]]
      OBVIOUS
    <3>3. f[n] = IF p = junk \/ q = junk THEN junk ELSE Arith(tree[n].op, p, q)
      BY <1>0, <1>4, <2>2, <3>2 DEF Evaluates, Kids
    <3> QED BY <3>1, <3>2, <3>3
  <2> QED BY <1>1, <2>1, <2>2
<1>5. ASSUME tree[n].kind = "rexpr", Fixed(tree, a, Kids(n)[1]), Fixed(tree, b, Kids(n)[2])
      PROVE  Fixed(tree, Constant(IF Holds(tree[n].op, WordOf(a), WordOf(b)) THEN 1 ELSE 0), n)
  <2>1. 0 \in Word /\ 1 \in Word
    BY ModulusAssumption DEF Word
  <2>2. PICK w : w = IF Holds(tree[n].op, WordOf(a), WordOf(b)) THEN 1 ELSE 0
    OBVIOUS
  <2>3. ASSUME NEW f, Evaluates(tree, f) PROVE f[n] \in {junk, w}
    <3>1. f[Kids(n)[1]] \in {junk, WordOf(a)} /\ f[Kids(n)[2]] \in {junk, WordOf(b)}
      BY <1>5, <2>3 DEF Fixed
    <3>2. PICK p, q : p = f[Kids(n)[1]] /\ q = f[Kids(n)[2]]
      OBVIOUS
    <3>3. f[n] = IF p = junk \/ q = junk THEN junk ELSE IF Holds(tree[n].op, p, q) THEN 1 ELSE 0
      BY <1>0, <1>5, <2>3, <3>2 DEF Evaluates, Kids
    <3> QED BY <2>2, <3>1, <3>2, <3>3
  <2> QED BY <1>1, <2>1, <2>2, <2>3
<1> QED BY <1>2, <1>3, <1>4, <1>5

LEMMA TermArgs ==
  ASSUME NEW k \in Nat, NEW c, TermCode(c, k), NEW j \in DOMAIN c
  PROVE  c[j] \in Built /\ TwoArgs(c[j])
<1>1. c[j] \in Built
  BY DEF TermCode
<1>2. Fits(c[j])
  BY TermInstr
<1>3. PICK i \in Built : i = c[j]
  BY <1>1
<1>4. i.args \in Seq(Int) /\ (i.op \in {"arith", "icmp"} => Len(i.args) = 2)
  BY <1>2, <1>3 DEF Fits, Built
<1> QED BY <1>3, <1>4 DEF TwoArgs

\* What the operands of the code for an operator are.
Operates(t, of, n, op, sym, a, b, first, i) ==
  LET Arg(v, l) == Names(t, of, v, t[n].kids[l], first, i)
  IN  \/ t[n].kind = "uexpr" /\ op = "arith" /\ sym = "sub" /\ a = Constant(0) /\ Arg(b, 1)
      \/ t[n].kind = "bexpr" /\ op = "arith" /\ sym = t[n].op /\ Arg(a, 1) /\ Arg(b, 2)
      \/ t[n].kind = "rexpr" /\ op = "icmp" /\ sym = t[n].op /\ Arg(a, 1) /\ Arg(b, 2)

LEMMA BuildMeans ==
  ASSUME Prepared, NEW n \in Exprs, NEW k \in Nat, NEW op \in {"arith", "icmp"}, NEW sym,
         NEW a \in Int, NEW b \in Int, NEW c, TermCode(c, k), <<sym>> \in AllSyms,
         NEW of \in [Nat -> Nat], Coded(tree, name, c, k, of),
         Operates(tree, of, n, op, sym, a, b, k + 1, k + Len(c) + 1)
  PROVE  \E all \in [Nat -> Nat] : Means(tree, name, n, Build(op, sym, a, b, c, k), k, all)
<1>0. /\ WellFormedTree(tree) /\ n \in DOMAIN tree /\ n \in Nat
      /\ tree[n].kind = "uexpr" => Kids(n)[1] \in Exprs
  BY ExprFacts DEF Prepared
<1>1. PICK l \in Nat : l = Len(c) /\ c \in Seq(Built) /\ DOMAIN c = 1 .. l
  BY DEF TermCode
<1>2. PICK e : e = Build(op, sym, a, b, c, k)
  OBVIOUS
<1>3. CASE a < 0 /\ b < 0
  <2>1. e.code = c /\ e.val = Constant(IF op = "arith" THEN Arith(sym, WordOf(a), WordOf(b))
                                       ELSE IF Holds(sym, WordOf(a), WordOf(b)) THEN 1 ELSE 0)
    BY <1>2, <1>3 DEF Build
  <2>2. \A v \in {a, b} : \A m : Names(tree, of, v, m, k + 1, k + Len(c) + 1) => Fixed(tree, v, m)
    BY <1>3 DEF Names
  <2>3. CASE tree[n].kind = "uexpr"
    <3>1. op = "arith" /\ sym = "sub" /\ a = Constant(0) /\ Fixed(tree, b, Kids(n)[1])
      BY <2>2, <2>3 DEF Operates, Kids
    <3>2. WordOf(a) = 0
      <4>1. 0 \in Word
        BY ModulusAssumption DEF Word
      <4> QED BY <3>1, <4>1, WordFacts
    <3>3. Fixed(tree, Constant(Arith("sub", 0, WordOf(b))), n)
      BY <1>0, <2>3, <3>1, FixedFacts
    <3>4. Fixed(tree, e.val, n)
      BY <2>1, <3>1, <3>2, <3>3
    <3> QED BY <1>2, <2>1, <3>4 DEF Means, Names
  <2>4. CASE tree[n].kind = "bexpr"
    <3>1. op = "arith" /\ sym = tree[n].op /\ Fixed(tree, a, Kids(n)[1])
            /\ Fixed(tree, b, Kids(n)[2])
      BY <2>2, <2>4 DEF Operates, Kids
    <3>2. Fixed(tree, Constant(Arith(sym, WordOf(a), WordOf(b))), n)
      BY <1>0, <2>4, <3>1, FixedFacts
    <3>3. Fixed(tree, e.val, n)
      BY <2>1, <3>1, <3>2
    <3> QED BY <1>2, <2>1, <3>3 DEF Means, Names
  <2>5. CASE tree[n].kind = "rexpr"
    <3>1. op = "icmp" /\ sym = tree[n].op /\ Fixed(tree, a, Kids(n)[1])
            /\ Fixed(tree, b, Kids(n)[2])
      BY <2>2, <2>5 DEF Operates, Kids
    <3>2. Fixed(tree, Constant(IF Holds(sym, WordOf(a), WordOf(b)) THEN 1 ELSE 0), n)
      BY <1>0, <2>5, <3>1, FixedFacts
    <3>3. Fixed(tree, e.val, n)
      BY <2>1, <3>1, <3>2
    <3> QED BY <1>2, <2>1, <3>3 DEF Means, Names
  <2> QED BY <2>3, <2>4, <2>5 DEF Operates
<1>4. CASE ~(a < 0 /\ b < 0)
  <2>1. PICK i : i = Instr(op, <<a, b>>, <<sym>>, <<>>)
    OBVIOUS
  <2>2. i.op = op /\ i.args = <<a, b>> /\ i.sym = <<sym>> /\ i.args[1] = a /\ i.args[2] = b
    <3>1. i.op = op /\ i.args = <<a, b>> /\ i.sym = <<sym>>
      BY <2>1 DEF Instr
    <3> QED BY <3>1
  <2>3. i \in Built
    <3>1. <<a, b>> \in Seq(Int) /\ <<>> \in Seq(Nat) /\ op \in AllOps
      BY DEF AllOps
    <3> QED BY <2>1, <3>1, BuiltFacts
  <2>4. e.code = Append(c, i) /\ e.val = k + l + 1
    BY <1>1, <1>2, <1>4, <2>1 DEF Build
  <2>5. PICK d \in Seq(Built) : /\ d = Append(c, i) /\ DOMAIN d = 1 .. l + 1 /\ Len(d) = l + 1
                                /\ d[l + 1] = i /\ \A j \in 1 .. l : d[j] = c[j]
    <3>1. /\ Append(c, i) \in Seq(Built) /\ DOMAIN Append(c, i) = 1 .. l + 1
          /\ Len(Append(c, i)) = l + 1
          /\ Append(c, i)[l + 1] = i /\ \A j \in 1 .. l : Append(c, i)[j] = c[j]
      BY <1>1, <2>3, AppendFacts
    <3> QED BY <3>1
  <2>6. PICK last \in Nat : last = k + l + 1
    OBVIOUS
  <2>7. PICK all \in [Nat -> Nat] : all = [of EXCEPT ![last] = n]
    BY <1>0
  <2>8. all[last] = n /\ \A x \in Nat : x < last => all[x] = of[x]
    BY <2>7
  <2>9. ASSUME NEW j \in 1 .. l PROVE Computes(tree, name, all, c[j], k + 1, k + j)
    <3>1. PICK lo \in Nat, at_j \in Nat : lo = k + 1 /\ at_j = k + j /\ lo <= at_j /\ at_j < last
      BY <2>6
    <3>2. Computes(tree, name, of, c[j], lo, at_j)
      BY <1>1, <3>1 DEF Coded
    <3>3. TwoArgs(c[j])
      BY <1>1, TermArgs
    <3>4. Agree(of, all, lo, at_j) /\ lo <= lo
      BY <2>8, <3>1 DEF Agree
    <3>5. Computes(tree, name, all, c[j], lo, at_j)
      BY <3>1, <3>2, <3>3, <3>4, ComputesMore
    <3> QED BY <3>1, <3>5
  <2>10. ASSUME NEW v \in Int, NEW m, Names(tree, of, v, m, k + 1, k + Len(c) + 1)
         PROVE  Names(tree, all, v, m, k + 1, last)
    <3>1. Names(tree, of, v, m, k + 1, last)
      BY <1>1, <2>6, <2>10
    <3> QED BY <2>8, <3>1 DEF Names
  <2>11. Computes(tree, name, all, i, k + 1, last)
    <3>1. Operates(tree, all, n, op, sym, a, b, k + 1, last)
      BY <2>10 DEF Operates
    <3> QED BY <1>0, <2>2, <2>8, <3>1 DEF Computes, Operates
  <2>12. Coded(tree, name, d, k, all)
    <3>1. \A j \in 1 .. l + 1 : j \in 1 .. l \/ (j = l + 1 /\ k + j = last)
      BY <2>6
    <3> QED BY <2>5, <2>9, <2>11, <3>1 DEF Coded
  <2>13. Names(tree, all, last, n, k + 1, k + Len(d) + 1)
    BY <2>5, <2>6, <2>8 DEF Names
  <2> QED BY <1>2, <2>4, <2>5, <2>6, <2>12, <2>13 DEF Means
<1> QED BY <1>3, <1>4

\* The code of two parts, one after the other.
LEMMA CodedJoin ==
  ASSUME NEW k \in Nat, NEW c, NEW d, TermCode(c, k), TermCode(d, k + Len(c)),
         NEW f \in [Nat -> Nat], NEW g \in [Nat -> Nat],
         Coded(tree, name, c, k, f), Coded(tree, name, d, k + Len(c), g)
  PROVE  \E all \in [Nat -> Nat] :
           /\ Coded(tree, name, c \o d, k, all)
           /\ \A v \in Int : \A m : Names(tree, f, v, m, k + 1, k + Len(c) + 1) =>
                                  Names(tree, all, v, m, k + 1, k + Len(c \o d) + 1)
           /\ \A v \in Int : \A m : Names(tree, g, v, m, k + Len(c) + 1, k + Len(c) + Len(d) + 1) =>
                                  Names(tree, all, v, m, k + 1, k + Len(c \o d) + 1)
<1>1. PICK l \in Nat, h \in Nat :
        /\ l = Len(c) /\ h = Len(d) /\ c \in Seq(Built) /\ d \in Seq(Built)
        /\ DOMAIN c = 1 .. l /\ DOMAIN d = 1 .. h
  BY DEF TermCode
<1>2. PICK e \in Seq(Built) : e = c \o d /\ Len(e) = l + h /\ DOMAIN e = 1 .. l + h
  <2>1. c \o d \in Seq(Built) /\ Len(c \o d) = l + h
    BY <1>1
  <2>2. PICK e \in Seq(Built) : e = c \o d /\ Len(e) = l + h
    BY <2>1
  <2>3. DOMAIN e = 1 .. l + h
    BY <2>2
  <2> QED BY <2>2, <2>3
<1>3. (\A j \in 1 .. l : e[j] = c[j]) /\ (\A j \in 1 .. h : e[l + j] = d[j])
  BY <1>1, <1>2
<1>4. PICK all \in [Nat -> Nat] : all = [x \in Nat |-> IF x <= k + l THEN f[x] ELSE g[x]]
  <2>1. [x \in Nat |-> IF x <= k + l THEN f[x] ELSE g[x]] \in [Nat -> Nat]
    OBVIOUS
  <2> QED BY <2>1
<1>5. /\ \A x \in Nat : x <= k + l => f[x] = all[x]
      /\ \A x \in Nat : k + l + 1 <= x => g[x] = all[x]
  BY <1>4
<1>6. ASSUME NEW j \in 1 .. l PROVE Computes(tree, name, all, e[j], k + 1, k + j)
  <2>1. PICK lo \in Nat, i \in Nat : lo = k + 1 /\ i = k + j /\ lo <= i /\ i <= k + l
    OBVIOUS
  <2>2. Computes(tree, name, f, c[j], lo, i)
    BY <1>1, <2>1 DEF Coded
  <2>3. TwoArgs(c[j])
    BY <1>1, TermArgs
  <2>4. Agree(f, all, lo, i) /\ lo <= lo
    BY <1>5, <2>1 DEF Agree
  <2>5. Computes(tree, name, all, c[j], lo, i)
    BY <2>1, <2>2, <2>3, <2>4, ComputesMore
  <2> QED BY <1>3, <2>1, <2>5
<1>7. ASSUME NEW j \in 1 .. h PROVE Computes(tree, name, all, e[l + j], k + 1, k + (l + j))
  <2>1. PICK lo \in Nat, mid \in Nat, i \in Nat :
          lo = k + 1 /\ mid = (k + l) + 1 /\ i = (k + l) + j /\ i = k + (l + j)
            /\ lo <= mid /\ mid <= i
    OBVIOUS
  <2>2. Computes(tree, name, g, d[j], mid, i)
    BY <1>1, <2>1 DEF Coded
  <2>3. TwoArgs(d[j])
    <3>1. TermCode(d, k + l) /\ k + l \in Nat
      BY <1>1
    <3> QED BY <1>1, <3>1, TermArgs
  <2>4. Agree(g, all, mid, i)
    BY <1>5, <2>1 DEF Agree
  <2>5. Computes(tree, name, all, d[j], lo, i)
    BY <2>1, <2>2, <2>3, <2>4, ComputesMore
  <2> QED BY <1>3, <2>1, <2>5
<1>8. Coded(tree, name, e, k, all)
  <2> SUFFICES ASSUME NEW j \in 1 .. l + h PROVE Computes(tree, name, all, e[j], k + 1, k + j)
    BY <1>2 DEF Coded
  <2>1. j \in 1 .. l \/ (j - l \in 1 .. h /\ l + (j - l) = j)
    OBVIOUS
  <2>2. PICK m \in Int : m = j - l
    OBVIOUS
  <2> QED BY <1>6, <1>7, <2>1, <2>2
<1>9. ASSUME NEW v \in Int, NEW m, Names(tree, f, v, m, k + 1, k + l + 1)
      PROVE  Names(tree, all, v, m, k + 1, k + (l + h) + 1)
  BY <1>5, <1>9 DEF Names
<1>10. ASSUME NEW v \in Int, NEW m, Names(tree, g, v, m, k + l + 1, k + l + h + 1)
       PROVE  Names(tree, all, v, m, k + 1, k + (l + h) + 1)
  BY <1>5, <1>10 DEF Names
<1> QED BY <1>1, <1>2, <1>8, <1>9, <1>10

\* The code of every expression computes its value.
LEMMA ExprsMean ==
  ASSUME Prepared
  PROVE  \A n \in Exprs, k \in Nat :
           \E of \in [Nat -> Nat] : Means(tree, name, n, genIRExpr[n][k], k, of)
<1> DEFINE Meant(n, k) == \E of \in [Nat -> Nat] : Means(tree, name, n, genIRExpr[n][k], k, of)
           P == {n \in Exprs : \A k \in Nat : Meant(n, k)}
<1>0. WellFormedTree(tree)
  BY DEF Prepared
<1>1. ASSUME NEW n \in Exprs, \A i \in DOMAIN Kids(n) : Kids(n)[i] \in P, NEW k \in Nat
      PROVE  Meant(n, k)
  <2>0. n \in DOMAIN tree /\ n \in Nat /\ tree[n].kind \in Expressions
    BY <1>0, ExprFacts
  <2>1. PICK e : e = genIRExpr[n][k]
    OBVIOUS
  <2>2. CASE tree[n].kind = "cnst"
    <3>1. e = [code |-> <<>>, val |-> Constant(tree[n].value)]
      BY <1>0, <2>1, <2>2, genIRExprCases, Zenon
    <3>2. Constant(tree[n].value) \in Int /\ Fixed(tree, Constant(tree[n].value), n)
      <4>1. Constant(tree[n].value) \in Int
        BY <1>0, NodeFacts, WordFacts DEF IsWord
      <4> QED BY <1>0, <2>2, <4>1, FixedFacts
    <3>3. e.code = <<>> /\ Fixed(tree, e.val, n)
      BY <3>1, <3>2
    <3>4. PICK of \in [Nat -> Nat] : of = [x \in Nat |-> 0]
      OBVIOUS
    <3>5. Means(tree, name, n, e, k, of)
      BY <3>3 DEF Means, Coded, Names
    <3> QED BY <2>1, <3>5
  <2>3. CASE tree[n].kind \in {"var", "read"}
    <3>1. PICK i : /\ e = [code |-> <<i>>, val |-> k + 1]
                   /\ tree[n].kind = "var" => i.op = "load" /\ i.sym = name[n]
                   /\ tree[n].kind = "read" => i.op = "read"
      <4>1. CASE tree[n].kind = "var"
        <5>1. PICK i : i = Instr("load", <<>>, name[n], <<>>)
          BY Zenon
        <5>2. e = [code |-> <<i>>, val |-> k + 1]
          BY <1>0, <2>1, <4>1, <5>1, genIRExprCases, Zenon
        <5>3. i.op = "load" /\ i.sym = name[n]
          BY <5>1 DEF Instr
        <5> QED BY <4>1, <5>2, <5>3
      <4>2. CASE tree[n].kind = "read"
        <5>1. PICK i : i = Instr("read", <<>>, <<"">>, <<>>)
          BY Zenon
        <5>2. e = [code |-> <<i>>, val |-> k + 1]
          BY <1>0, <2>1, <4>2, <5>1, genIRExprCases, Zenon
        <5>3. i.op = "read"
          BY <5>1, Zenon DEF Instr
        <5> QED BY <4>2, <5>2, <5>3
      <4> QED BY <2>3, <4>1, <4>2
    <3>2. PICK of \in [Nat -> Nat] : of = [x \in Nat |-> n]
      <4>1. [x \in Nat |-> n] \in [Nat -> Nat]
        BY <2>0
      <4> QED BY <4>1
    <3>3. Computes(tree, name, of, i, k + 1, k + 1)
      BY <2>0, <2>3, <3>1, <3>2 DEF Computes
    <3>4. PICK c : c = <<i>> /\ Len(c) = 1 /\ DOMAIN c = {1} /\ c[1] = i
      <4>1. Len(<<i>>) = 1 /\ DOMAIN <<i>> = {1} /\ <<i>>[1] = i
        OBVIOUS
      <4> QED BY <4>1
    <3>5. e.code = c /\ e.val = k + 1
      BY <3>1, <3>4
    <3>6. Coded(tree, name, c, k, of)
      BY <3>3, <3>4 DEF Coded
    <3>7. Names(tree, of, k + 1, n, k + 1, k + 1 + 1)
      BY <3>2 DEF Names
    <3>8. Means(tree, name, n, e, k, of)
      BY <3>4, <3>5, <3>6, <3>7 DEF Means
    <3> QED BY <2>1, <3>8
  <2>4. CASE tree[n].kind = "uexpr"
    <3>1. PICK a : a = genIRExpr[Kids(n)[1]][k]
      OBVIOUS
    <3>2. Kids(n)[1] \in P /\ Kids(n)[1] \in TermNodes
      BY <1>0, <1>1, <2>4, ExprFacts DEF TermNodes
    <3>3. PICK of \in [Nat -> Nat] : Means(tree, name, Kids(n)[1], a, k, of)
      BY <3>1, <3>2
    <3>0. IsTerm(a, k)
      BY <3>1, <3>2, TermsCode
    <3>4. TermCode(a.code, k)
      BY <3>0 DEF IsTerm
    <3>5. PICK l \in Nat : l = Len(a.code)
      BY <3>4 DEF TermCode
    <3>6. a.val \in Int /\ OperandIn(a.val, k, l) /\ (a.val < 0 => a.code = <<>>)
      <4>1. Len(a.code) <= l
        BY <3>5
      <4> QED BY <3>0, <4>1, ValueIn, Zenon
    <3>7. e = Build("arith", "sub", Constant(0), a.val, a.code, k)
      BY <1>0, <2>1, <2>4, <3>1, genIRExprCases, Zenon
    <3>8. /\ Coded(tree, name, a.code, k, of)
          /\ Operates(tree, of, n, "arith", "sub", Constant(0), a.val, k + 1, k + Len(a.code) + 1)
      BY <2>4, <3>3 DEF Means, Operates, Kids
    <3>9. Constant(0) \in Int /\ <<"sub">> \in AllSyms
      BY WordFacts, BuiltFacts, Zenon DEF IsWord, Operators, Operations
    <3>10. \E all \in [Nat -> Nat] :
             Means(tree, name, n, Build("arith", "sub", Constant(0), a.val, a.code, k), k, all)
      BY <3>4, <3>6, <3>8, <3>9, BuildMeans
    <3> QED BY <2>1, <3>7, <3>10
  <2>5. CASE tree[n].kind \in {"bexpr", "rexpr"}
    <3>1. PICK a : a = genIRExpr[Kids(n)[1]][k]
      OBVIOUS
    <3>2. /\ Kids(n)[1] \in P /\ Kids(n)[1] \in TermNodes
          /\ Kids(n)[2] \in P /\ Kids(n)[2] \in TermNodes
      BY <1>0, <1>1, <2>5, ExprFacts DEF TermNodes
    <3>3. PICK f \in [Nat -> Nat] : Means(tree, name, Kids(n)[1], a, k, f)
      BY <3>1, <3>2
    <3>0. IsTerm(a, k)
      BY <3>1, <3>2, TermsCode
    <3>4. TermCode(a.code, k)
      BY <3>0 DEF IsTerm
    <3>5. PICK l \in Nat : l = Len(a.code)
      BY <3>4 DEF TermCode
    <3>6. PICK m \in Nat : m = k + l
      OBVIOUS
    <3>7. PICK b : b = genIRExpr[Kids(n)[2]][m]
      OBVIOUS
    <3>8. PICK g \in [Nat -> Nat] : Means(tree, name, Kids(n)[2], b, m, g)
      BY <3>2, <3>7
    <3>20. IsTerm(b, m)
      BY <3>2, <3>7, TermsCode
    <3>9. TermCode(b.code, m)
      BY <3>20 DEF IsTerm
    <3>10. PICK h \in Nat : h = Len(b.code)
      <4>1. b.code \in Seq(Built)
        BY <3>9 DEF TermCode
      <4> QED BY <4>1
    <3>11. a.val \in Int /\ b.val \in Int
      <4>1. \A o \in Nat : Len(a.code) <= o => a.val \in Int
        BY <3>0, ValueIn
      <4>2. \A o \in Nat : Len(b.code) <= o => b.val \in Int
        BY <3>20, ValueIn
      <4>3. Len(a.code) <= l /\ Len(b.code) <= h
        BY <3>5, <3>10
      <4> QED BY <4>1, <4>2, <4>3
    <3>12. PICK c : c = a.code \o b.code /\ TermCode(c, k)
      BY <3>4, <3>5, <3>6, <3>9, TermCodeJoin
    <3>13. PICK op, sym : /\ op = (IF tree[n].kind = "bexpr" THEN "arith" ELSE "icmp")
                          /\ sym = tree[n].op
      BY Zenon
    <3>14. e = Build(op, sym, a.val, b.val, c, k)
      BY <1>0, <2>1, <2>5, <3>1, <3>5, <3>6, <3>7, <3>12, <3>13, genIRExprCases, Zenon
    <3>15. <<sym>> \in AllSyms /\ op \in {"arith", "icmp"}
      <4>1. sym \in Operations \cup Predicates
        BY <1>0, <2>5, <3>13, NodeFacts
      <4>2. sym \in Operators
        BY <4>1, Zenon DEF Operators, Operations, Predicates
      <4> QED BY <3>13, <4>2, BuiltFacts
    <3>16. PICK of \in [Nat -> Nat] :
             /\ Coded(tree, name, c, k, of)
             /\ \A v \in Int : \A x : Names(tree, f, v, x, k + 1, k + Len(a.code) + 1) =>
                                    Names(tree, of, v, x, k + 1, k + Len(c) + 1)
             /\ \A v \in Int : \A x : Names(tree, g, v, x, k + Len(a.code) + 1,
                                        k + Len(a.code) + Len(b.code) + 1) =>
                                    Names(tree, of, v, x, k + 1, k + Len(c) + 1)
      <4>1. Coded(tree, name, a.code, k, f) /\ Coded(tree, name, b.code, k + Len(a.code), g)
        BY <3>3, <3>5, <3>6, <3>8 DEF Means
      <4> QED BY <3>4, <3>5, <3>6, <3>9, <3>12, <4>1, CodedJoin
    <3>17. /\ Names(tree, of, a.val, Kids(n)[1], k + 1, k + Len(c) + 1)
           /\ Names(tree, of, b.val, Kids(n)[2], k + 1, k + Len(c) + 1)
      <4>1. /\ Names(tree, f, a.val, Kids(n)[1], k + 1, k + Len(a.code) + 1)
            /\ Names(tree, g, b.val, Kids(n)[2], k + Len(a.code) + 1,
                     k + Len(a.code) + Len(b.code) + 1)
        BY <3>3, <3>5, <3>6, <3>8 DEF Means
      <4> QED BY <3>11, <3>16, <4>1
    <3>18. Operates(tree, of, n, op, sym, a.val, b.val, k + 1, k + Len(c) + 1)
      BY <2>5, <3>13, <3>17 DEF Operates, Kids
    <3>19. \E all \in [Nat -> Nat] :
             Means(tree, name, n, Build(op, sym, a.val, b.val, c, k), k, all)
      BY <3>11, <3>12, <3>15, <3>16, <3>18, BuildMeans
    <3> QED BY <2>1, <3>14, <3>19
  <2> QED BY <2>0, <2>2, <2>3, <2>4, <2>5 DEF Expressions
<1>2. \A n \in Exprs : (\A i \in DOMAIN Kids(n) : Kids(n)[i] \in P) => n \in P
  BY <1>1
<1>3. Exprs \subseteq P
  <2> HIDE DEF P
  <2> QED BY <1>0, <1>2, ExprInduction
<1> QED BY <1>3

-----------------------------------------------------------------------------
(***************************************************************************)
(* Guides for more instructions and blocks                                 *)
(***************************************************************************)

LEMMA ActsMore ==
  ASSUME NEW t, NEW nm, NEW f, NEW start, NEW g, NEW begin, NEW j, NEW p, NEW first \in Nat,
         NEW i \in Nat, TwoArgs(j), Fits(j), j \in Built,
         Acts(t, nm, f, start, j, p, first, i), Agree(f, g, first, i),
         \A x \in DOMAIN j.succ : start[j.succ[x]] = begin[j.succ[x]]
  PROVE  Acts(t, nm, g, begin, j, p, first, i)
<1>1. j.op \in PureOps /\ Computes(t, nm, f, j, first, i) => Computes(t, nm, g, j, first, i)
  BY ComputesMore
<1>2. f[i] = g[i]
  BY DEF Agree
<1>3. ASSUME j.op \in {"store", "print", "condbr"}, NEW m, Names(t, f, j.args[1], m, first, i)
      PROVE  Names(t, g, j.args[1], m, first, i)
  <2>1. j.args[1] \in Int
    <3>1. j.args \in Seq(Int) /\ Len(j.args) = 1
      BY <1>3 DEF Built, Fits
    <3> QED BY <3>1
  <2>2. \A x \in Nat : first <= x /\ x < i => f[x] = g[x]
    BY DEF Agree
  <2> QED BY <1>3, <2>1, <2>2, NamesMore
<1>4. j.op = "condbr" => start[j.succ[1]] = begin[j.succ[1]] /\ start[j.succ[2]] = begin[j.succ[2]]
  <2>1. j.op = "condbr" => Len(j.succ) = 2 /\ j.succ \in Seq(Nat)
    BY DEF Fits, Built
  <2> QED BY <2>1
<1>5. j.op = "br" => start[j.succ[1]] = begin[j.succ[1]]
  <2>1. j.op = "br" => Len(j.succ) = 1 /\ j.succ \in Seq(Nat)
    BY DEF Fits, Built
  <2> QED BY <2>1
<1> QED BY <1>1, <1>2, <1>3, <1>4, <1>5 DEF Acts, IsResult

\* Guide h says what g says of the first n instructions and the first nb blocks.
Keeps(g, h, n, nb) ==
  /\ \A i \in 1 .. n : h.pre[i] = g.pre[i] /\ h.first[i] = g.first[i] /\ h.of[i] = g.of[i]
  /\ \A b \in 1 .. nb : h.start[b] = g.start[b]

Starts(s, z) == Len(s) <= Len(z) /\ \A i \in 1 .. Len(s) : z[i] = s[i]

LEMMA AtEndMore ==
  ASSUME NEW t, NEW s, NEW z, NEW g, NEW h, NEW l \in Nat, NEW n \in 0 .. l, NEW nb,
         NEW b \in 1 .. nb,
         NEW p, l = Len(s), Starts(s, z), Keeps(g, h, l, nb), AtEnd(t, s, g, n, b, p)
  PROVE  AtEnd(t, z, h, n, b, p)
<1>1. \A i \in 1 .. n : z[i] = s[i] /\ h.pre[i] = g.pre[i]
  BY DEF Starts, Keeps
<1>2. h.start[b] = g.start[b]
  BY DEF Keeps
<1>3. CASE (\A i \in 1 .. n : s[i].bb # b) /\ Same(t, g.start[b], p)
  BY <1>1, <1>2, <1>3 DEF AtEnd
<1>4. CASE \E i \in 1 .. n : /\ s[i].bb = b /\ \A j \in i + 1 .. n : s[j].bb # b
                             /\ Same(t, Post(s[i], g.pre[i]), p)
  <2>1. PICK i \in 1 .. n : /\ s[i].bb = b /\ \A j \in i + 1 .. n : s[j].bb # b
                            /\ Same(t, Post(s[i], g.pre[i]), p)
    BY <1>4
  <2>2. \A j \in i + 1 .. n : j \in 1 .. n
    OBVIOUS
  <2> QED BY <1>1, <2>1, <2>2 DEF AtEnd
<1> QED BY <1>3, <1>4 DEF AtEnd

LEMMA GuidedKept ==
  ASSUME Prepared, NEW s, NEW nb, NEW open, Function(s, nb, open), NEW g, NEW h, NEW z,
         Guided(tree, name, s, open, g), Starts(s, z), Keeps(g, h, Len(s), nb), NEW i \in DOMAIN s
  PROVE  IF z[i].bb = retBB THEN Returns(z, i)
         ELSE Stands(tree, name, z, h, i) /\ AtEnd(tree, z, h, i - 1, z[i].bb, h.pre[i])
<1>1. PICK l \in Nat : l = Len(s) /\ DOMAIN s = 1 .. l /\ s \in Seq(Built)
  BY DEF Function, GoodCode
<1>2. \A x \in 1 .. l : z[x] = s[x]
  BY <1>1 DEF Starts
<1>3. \A x \in 1 .. l : h.pre[x] = g.pre[x] /\ h.first[x] = g.first[x] /\ h.of[x] = g.of[x]
  BY <1>1 DEF Keeps
<1>4. CASE s[i].bb = retBB
  <2>1. Returns(s, i)
    BY <1>4 DEF Guided
  <2>2. Returns(z, i)
    BY <1>1, <1>2, <2>1 DEF Returns
  <2> QED BY <1>1, <1>2, <1>4, <2>2
<1>5. CASE s[i].bb # retBB
  <2>1. Stands(tree, name, s, g, i) /\ AtEnd(tree, s, g, i - 1, s[i].bb, g.pre[i])
    BY <1>5 DEF Guided
  <2>2. Joined(tree, s, g, i) /\ Acts(tree, name, g.of, g.start, s[i], g.pre[i], g.first[i], i)
    BY <2>1 DEF Stands
  <2>3. g.first[i] \in 1 .. i /\ i \in 1 .. l
    BY <1>1, <2>2 DEF Joined
  <2>4. Joined(tree, z, h, i)
    BY <1>1, <1>2, <1>3, <2>2, <2>3 DEF Joined
  <2>5. s[i] \in Built /\ Fits(s[i]) /\ TwoArgs(s[i])
    <3>1. s[i] \in Built /\ Fits(s[i])
      BY <1>1 DEF Function, GoodCode, InstrFits
    <3>2. s[i].args \in Seq(Int) /\ (s[i].op \in {"arith", "icmp"} => Len(s[i].args) = 2)
      BY <3>1 DEF Fits, Built
    <3> QED BY <3>1, <3>2 DEF TwoArgs
  <2>6. Agree(g.of, h.of, g.first[i], i)
    BY <1>3, <2>3 DEF Agree
  <2>7. s[i].bb \in 1 .. nb
          /\ \A x \in DOMAIN s[i].succ : g.start[s[i].succ[x]] = h.start[s[i].succ[x]]
    BY DEF Function, Inside, Keeps
  <2>8. Acts(tree, name, h.of, h.start, s[i], g.pre[i], g.first[i], i)
    <3>1. g.first[i] \in Nat /\ i \in Nat
      BY <2>3
    <3> QED BY <2>2, <2>5, <2>6, <2>7, <3>1, ActsMore
  <2>9. AtEnd(tree, z, h, i - 1, s[i].bb, g.pre[i])
    <3>1. i - 1 \in 0 .. l
      BY <2>3
    <3> QED BY <1>1, <2>1, <2>7, <3>1, AtEndMore
  <2> QED BY <1>2, <1>3, <1>5, <2>3, <2>4, <2>8, <2>9 DEF Stands
<1> QED BY <1>4, <1>5

LEMMA AtEndSame ==
  ASSUME Prepared, NEW s, NEW g, NEW n, NEW b, NEW p, NEW q,
         AtEnd(tree, s, g, n, b, p), Same(tree, p, q)
  PROVE  AtEnd(tree, s, g, n, b, q)
<1>1. \A x : Same(tree, x, p) => Same(tree, x, q)
  BY SameFacts DEF Prepared
<1> QED BY <1>1 DEF AtEnd

LEMMA SameSelf ==
  ASSUME Prepared, NEW p \in Pos(tree)
  PROVE  Same(tree, p, p)
BY SameFacts DEF Prepared

LEMMA StartsSelf ==
  ASSUME NEW s, Len(s) \in Nat
  PROVE  Starts(s, s)
BY DEF Starts

\* h says what g says, and has block nb + 1 in addition, at position p.
FreshBlock(s, nb, open, g, p, h) ==
  /\ Guided(tree, name, s, open \cup {nb + 1}, h)
  /\ Keeps(g, h, Len(s), nb)
  /\ h.start[nb + 1] = p /\ h.fin[nb + 1] = p
  /\ \A b \in 1 .. nb : h.fin[b] = g.fin[b]

\* A block is appended, at position p of the source.
LEMMA GuidedBlock ==
  ASSUME Prepared, NEW s, NEW nb, NEW open, Function(s, nb, open), NEW g,
         Guided(tree, name, s, open, g), NEW p \in Pos(tree)
  PROVE  \E h : FreshBlock(s, nb, open, g, p, h)
<1>0. PICK new : new = nb + 1
  OBVIOUS
<1>1. PICK l \in Nat : l = Len(s) /\ DOMAIN s = 1 .. l /\ s \in Seq(Built)
  BY DEF Function, GoodCode
<1>2. nb \in Nat /\ nb >= 2 /\ open \subseteq 1 .. nb /\ \A i \in 1 .. l : s[i].bb \in 1 .. nb
  BY <1>1 DEF Function, Inside
<1>3. g \in Guides(tree) /\ retBB \notin open
  BY DEF Guided
<1>4. PICK start \in [Nat -> Pos(tree)], fin \in [Nat -> Pos(tree)] :
        /\ start = [b \in Nat |-> IF b > nb THEN p ELSE g.start[b]]
        /\ fin = [b \in Nat |-> IF b > nb THEN p ELSE g.fin[b]]
  <2>1. g.start \in [Nat -> Pos(tree)] /\ g.fin \in [Nat -> Pos(tree)]
    BY <1>3 DEF Guides
  <2>2. /\ [b \in Nat |-> IF b > nb THEN p ELSE g.start[b]] \in [Nat -> Pos(tree)]
        /\ [b \in Nat |-> IF b > nb THEN p ELSE g.fin[b]] \in [Nat -> Pos(tree)]
    BY <2>1
  <2> QED BY <2>2
<1>5. PICK h : h = [pre |-> g.pre, first |-> g.first, of |-> g.of, start |-> start, fin |-> fin]
  OBVIOUS
<1>6. /\ h \in Guides(tree) /\ h.pre = g.pre /\ h.first = g.first /\ h.of = g.of
      /\ h.start = start /\ h.fin = fin
  <2>1. h.pre = g.pre /\ h.first = g.first /\ h.of = g.of /\ h.start = start /\ h.fin = fin
    BY <1>5
  <2>2. g.pre \in [Nat -> Pos(tree)] /\ g.first \in [Nat -> Nat] /\ g.of \in [Nat -> Nat]
    BY <1>3 DEF Guides
  <2> QED BY <1>5, <2>1, <2>2 DEF Guides
<1>7. \A b \in Nat : /\ b <= nb => h.start[b] = g.start[b] /\ h.fin[b] = g.fin[b]
                     /\ b > nb => h.start[b] = p /\ h.fin[b] = p
  BY <1>2, <1>4, <1>6
<1>8. Keeps(g, h, Len(s), nb)
  BY <1>2, <1>6, <1>7 DEF Keeps
<1>9. Starts(s, s)
  BY <1>1, StartsSelf
<1>10. \A i \in DOMAIN s : IF s[i].bb = retBB THEN Returns(s, i)
         ELSE Stands(tree, name, s, h, i) /\ AtEnd(tree, s, h, i - 1, s[i].bb, h.pre[i])
  BY <1>8, <1>9, GuidedKept
<1>11. ASSUME NEW b \in open PROVE AtEnd(tree, s, h, Len(s), b, h.fin[b])
  <2>1. AtEnd(tree, s, g, l, b, g.fin[b])
    BY <1>1 DEF Guided
  <2>2. b \in 1 .. nb /\ h.fin[b] = g.fin[b]
    BY <1>2, <1>7
  <2>3. l \in 0 .. l
    OBVIOUS
  <2> QED BY <1>1, <1>8, <1>9, <2>1, <2>2, <2>3, AtEndMore
<1>12. ASSUME NEW b \in {new} PROVE AtEnd(tree, s, h, Len(s), b, h.fin[b])
  <2>1. \A i \in 1 .. l : s[i].bb # b
    BY <1>0, <1>2
  <2>2. h.start[b] = p /\ h.fin[b] = p
    BY <1>0, <1>2, <1>7
  <2>3. Same(tree, h.start[b], h.fin[b])
    BY <2>2, SameSelf
  <2> QED BY <1>1, <2>1, <2>3 DEF AtEnd
<1>13. retBB \notin open \cup {new}
  BY <1>0, <1>2, <1>3 DEF retBB
<1>14. Guided(tree, name, s, open \cup {new}, h)
  BY <1>6, <1>10, <1>11, <1>12, <1>13 DEF Guided
<1>15. /\ h.start[new] = p /\ h.fin[new] = p
       /\ \A b \in 1 .. nb : h.fin[b] = g.fin[b]
  BY <1>0, <1>2, <1>7
<1> QED BY <1>0, <1>8, <1>14, <1>15 DEF FreshBlock

\* The end of an open block may be at any position that is the same.
LEMMA GuidedFin ==
  ASSUME Prepared, NEW s, NEW nb, NEW open, Function(s, nb, open), NEW g,
         Guided(tree, name, s, open, g), NEW b \in open, NEW q \in Pos(tree),
         Same(tree, g.fin[b], q)
  PROVE  \E h : /\ Guided(tree, name, s, open, h)
                /\ Keeps(g, h, Len(s), nb)
                /\ h.fin[b] = q /\ \A x \in Nat \ {b} : h.fin[x] = g.fin[x]
<1>1. PICK l \in Nat : l = Len(s) /\ DOMAIN s = 1 .. l /\ s \in Seq(Built)
  BY DEF Function, GoodCode
<1>2. nb \in Nat /\ open \subseteq 1 .. nb
  BY DEF Function
<1>3. g \in Guides(tree) /\ g.fin \in [Nat -> Pos(tree)] /\ b \in Nat
  <2>1. g \in Guides(tree)
    BY DEF Guided
  <2> QED BY <1>2, <2>1 DEF Guides
<1>4. PICK fin \in [Nat -> Pos(tree)] : fin = [g.fin EXCEPT ![b] = q]
  BY <1>3
<1>5. PICK h : h = [pre |-> g.pre, first |-> g.first, of |-> g.of, start |-> g.start, fin |-> fin]
  OBVIOUS
<1>6. /\ h \in Guides(tree) /\ h.pre = g.pre /\ h.first = g.first /\ h.of = g.of
      /\ h.start = g.start /\ h.fin = fin
  <2>1. /\ h.pre = g.pre /\ h.first = g.first /\ h.of = g.of /\ h.start = g.start /\ h.fin = fin
    BY <1>5
  <2>2. /\ g.pre \in [Nat -> Pos(tree)] /\ g.first \in [Nat -> Nat] /\ g.of \in [Nat -> Nat]
        /\ g.start \in [Nat -> Pos(tree)]
    BY <1>3 DEF Guides
  <2> QED BY <1>5, <2>1, <2>2 DEF Guides
<1>7. h.fin[b] = q /\ \A x \in Nat \ {b} : h.fin[x] = g.fin[x]
  BY <1>3, <1>4, <1>6
<1>8. Keeps(g, h, Len(s), nb) /\ Starts(s, s)
  BY <1>1, <1>6, StartsSelf DEF Keeps
<1>9. \A i \in DOMAIN s : IF s[i].bb = retBB THEN Returns(s, i)
        ELSE Stands(tree, name, s, h, i) /\ AtEnd(tree, s, h, i - 1, s[i].bb, h.pre[i])
  BY <1>8, GuidedKept
<1>10. ASSUME NEW x \in open PROVE AtEnd(tree, s, h, Len(s), x, h.fin[x])
  <2>1. AtEnd(tree, s, g, l, x, g.fin[x]) /\ x \in 1 .. nb /\ x \in Nat /\ l \in 0 .. l
    BY <1>1, <1>2 DEF Guided
  <2>2. AtEnd(tree, s, h, l, x, g.fin[x])
    BY <1>1, <1>8, <2>1, AtEndMore
  <2>3. Same(tree, g.fin[x], h.fin[x])
    <3>1. g.fin[x] \in Pos(tree)
      BY <1>3, <2>1
    <3> QED BY <1>7, <2>1, <3>1, SameSelf
  <2> QED BY <1>1, <2>2, <2>3, AtEndSame
<1>11. Guided(tree, name, s, open, h)
  BY <1>6, <1>9, <1>10 DEF Guided
<1> QED BY <1>7, <1>8, <1>11

\* The code c of the statement at position p, after k instructions.
Piece(t, nm, of, start, c, p, k) ==
  \A j \in DOMAIN c :
    /\ Acts(t, nm, of, start, c[j], p, k + 1, k + j)
    /\ j > 1 => Proceeds(t, c[j - 1], c[j], p)
    /\ c[j].op = "br" /\ c[j].succ[1] = retBB => j > 1 /\ IsResult(c[j - 1])

Map(f) == f \in [Nat -> Nat]

LEMMA AtEndOthers ==
  ASSUME NEW t, NEW z, NEW h, NEW l \in Nat, NEW m \in Nat, NEW x, NEW p, l <= m,
         AtEnd(t, z, h, l, x, p), \A i \in l + 1 .. m : z[i].bb # x
  PROVE  AtEnd(t, z, h, m, x, p)
<1>1. CASE (\A i \in 1 .. l : z[i].bb # x) /\ Same(t, h.start[x], p)
  <2>1. \A i \in 1 .. m : z[i].bb # x
    BY <1>1
  <2> QED BY <1>1, <2>1 DEF AtEnd
<1>2. CASE \E i \in 1 .. l : /\ z[i].bb = x /\ \A j \in i + 1 .. l : z[j].bb # x
                             /\ Same(t, Post(z[i], h.pre[i]), p)
  <2>1. PICK i \in 1 .. l : /\ z[i].bb = x /\ \A j \in i + 1 .. l : z[j].bb # x
                            /\ Same(t, Post(z[i], h.pre[i]), p)
    BY <1>2
  <2>2. i \in 1 .. m /\ \A j \in i + 1 .. m : z[j].bb # x
    BY <2>1
  <2> QED BY <2>1, <2>2 DEF AtEnd
<1> QED BY <1>1, <1>2 DEF AtEnd

LEMMA SameActs ==
  ASSUME NEW t, NEW nm, NEW of, NEW start, NEW i, NEW j, NEW p, NEW first, NEW k,
         i.op = j.op, i.args = j.args, i.sym = j.sym, i.succ = j.succ,
         Acts(t, nm, of, start, i, p, first, k)
  PROVE  Acts(t, nm, of, start, j, p, first, k)
BY Zenon DEF Acts, Computes, IsCall, IsResult

LEMMA SpliceNat ==
  ASSUME NEW l \in Nat, NEW f \in [Nat -> Nat]
  PROVE  \E h \in [Nat -> Nat] : h = [i \in Nat |-> IF i > l THEN l + 1 ELSE f[i]]
<1>1. [i \in Nat |-> IF i > l THEN l + 1 ELSE f[i]] \in [Nat -> Nat]
  OBVIOUS
<1> QED BY <1>1

\* Code is built at the end of an open block.
LEMMA GuidedCode ==
  ASSUME Prepared, NEW s, NEW nb, NEW open, Function(s, nb, open), NEW g,
         Guided(tree, name, s, open, g), NEW b \in open, NEW c, GoodCode(c, Len(s)), Len(c) >= 1,
         NEW of, Map(of), NEW q \in Pos(tree), NEW p \in Pos(tree), p = g.fin[b],
         Piece(tree, name, of, g.start, c, p, Len(s)), Same(tree, Post(c[Len(c)], p), q)
  PROVE  \E h : /\ Guided(tree, name, s \o In(b, c), open, h)
                /\ Keeps(g, h, Len(s), nb)
                /\ h.fin[b] = q /\ \A x \in Nat \ {b} : h.fin[x] = g.fin[x]
<1>1. PICK l \in Nat : l = Len(s) /\ DOMAIN s = 1 .. l /\ s \in Seq(Built)
  BY DEF Function, GoodCode
<1>2. nb \in Nat /\ open \subseteq 1 .. nb /\ b \in 1 .. nb /\ b # retBB
  BY DEF Function, Guided
<1>3. /\ g.fin \in [Nat -> Pos(tree)] /\ g.pre \in [Nat -> Pos(tree)] /\ g.first \in [Nat -> Nat]
      /\ g.of \in [Nat -> Nat] /\ g.start \in [Nat -> Pos(tree)] /\ b \in Nat
  <2>1. g \in Guides(tree)
    BY DEF Guided
  <2>2. b \in Nat
    BY <1>2
  <2> QED BY <2>1, <2>2 DEF Guides
<1>4. PICK n \in Nat : n = Len(c) /\ DOMAIN c = 1 .. n /\ c \in Seq(Built) /\ n >= 1
  <2>1. c \in Seq(Built)
    BY DEF GoodCode
  <2> QED BY <2>1
<1>5. PICK d \in Seq(Built) : d = In(b, c) /\ Len(d) = n /\ DOMAIN d = 1 .. n
  <2>1. In(b, c) \in Seq(Built) /\ Len(In(b, c)) = n /\ DOMAIN In(b, c) = 1 .. n
    BY <1>3, <1>4, InFacts
  <2> QED BY <2>1
<1>20. \A j \in 1 .. n : /\ d[j].op = c[j].op /\ d[j].args = c[j].args /\ d[j].sym = c[j].sym
                         /\ d[j].succ = c[j].succ /\ d[j].bb = b
  <2>1. b \in Nat
    BY <1>3
  <2>2. \A j \in DOMAIN c :
          /\ In(b, c)[j].op = c[j].op /\ In(b, c)[j].args = c[j].args
          /\ In(b, c)[j].sym = c[j].sym /\ In(b, c)[j].succ = c[j].succ /\ In(b, c)[j].bb = b
    BY <1>4, <2>1, InFacts
  <2> QED BY <1>4, <1>5, <2>2
<1>6. PICK z \in Seq(Built) : z = s \o d /\ Len(z) = l + n /\ DOMAIN z = 1 .. l + n
  <2>1. s \o d \in Seq(Built) /\ Len(s \o d) = l + n
    BY <1>1, <1>5
  <2>2. PICK z \in Seq(Built) : z = s \o d /\ Len(z) = l + n
    BY <2>1
  <2>3. DOMAIN z = 1 .. l + n
    BY <2>2
  <2> QED BY <2>2, <2>3
<1>21. (\A i \in 1 .. l : z[i] = s[i]) /\ \A j \in 1 .. n : z[l + j] = d[j]
  BY <1>1, <1>5, <1>6
<1>7. PICK h \in Guides(tree) :
        /\ h.start = g.start
        /\ h.fin[b] = q /\ \A x \in Nat \ {b} : h.fin[x] = g.fin[x]
        /\ \A i \in Nat : i <= l => h.pre[i] = g.pre[i] /\ h.first[i] = g.first[i]
             /\ h.of[i] = g.of[i]
        /\ \A i \in Nat : i > l => h.pre[i] = p /\ h.first[i] = l + 1 /\ h.of[i] = of[i]
  <2>1. PICK pre \in [Nat -> Pos(tree)] : pre = [i \in Nat |-> IF i > l THEN p ELSE g.pre[i]]
    <3>1. [i \in Nat |-> IF i > l THEN p ELSE g.pre[i]] \in [Nat -> Pos(tree)]
      BY <1>3
    <3> QED BY <3>1
  <2>2. PICK first \in [Nat -> Nat] : first = [i \in Nat |-> IF i > l THEN l + 1 ELSE g.first[i]]
    BY <1>3, SpliceNat
  <2>3. PICK all \in [Nat -> Nat] : all = [i \in Nat |-> IF i > l THEN of[i] ELSE g.of[i]]
    <3>1. [i \in Nat |-> IF i > l THEN of[i] ELSE g.of[i]] \in [Nat -> Nat]
      BY <1>3 DEF Map
    <3> QED BY <3>1
  <2>4. PICK fin \in [Nat -> Pos(tree)] : fin = [g.fin EXCEPT ![b] = q]
    BY <1>3
  <2>5. PICK h : h = [pre |-> pre, first |-> first, of |-> all, start |-> g.start, fin |-> fin]
    OBVIOUS
  <2>6. h.pre = pre /\ h.first = first /\ h.of = all /\ h.start = g.start /\ h.fin = fin
    BY <2>5
  <2>7. h \in Guides(tree)
    BY <1>3, <2>5 DEF Guides
  <2>8. fin[b] = q /\ \A x \in Nat \ {b} : fin[x] = g.fin[x]
    BY <1>3, <2>4
  <2>9. \A i \in Nat : /\ i <= l => pre[i] = g.pre[i] /\ first[i] = g.first[i] /\ all[i] = g.of[i]
                       /\ i > l => pre[i] = p /\ first[i] = l + 1 /\ all[i] = of[i]
    BY <2>1, <2>2, <2>3
  <2> QED BY <2>6, <2>7, <2>8, <2>9
<1>9. h.start = g.start
  BY <1>7
<1>10. h.fin[b] = q /\ \A x \in Nat \ {b} : h.fin[x] = g.fin[x]
  BY <1>7
<1>11. /\ \A i \in Nat : i <= l => h.pre[i] = g.pre[i] /\ h.first[i] = g.first[i]
            /\ h.of[i] = g.of[i]
       /\ \A i \in Nat : i > l => h.pre[i] = p /\ h.first[i] = l + 1 /\ h.of[i] = of[i]
  BY <1>7
<1>12. Keeps(g, h, l, nb) /\ Starts(s, z)
  <2>1. Keeps(g, h, l, nb)
    BY <1>9, <1>11 DEF Keeps
  <2>2. Starts(s, z)
    BY <1>1, <1>6, <1>21 DEF Starts
  <2> QED BY <2>1, <2>2
<1>13. ASSUME NEW i \in 1 .. l
       PROVE  IF z[i].bb = retBB THEN Returns(z, i)
              ELSE Stands(tree, name, z, h, i) /\ AtEnd(tree, z, h, i - 1, z[i].bb, h.pre[i])
  BY <1>1, <1>12, GuidedKept
<1>14. ASSUME NEW x \in open PROVE AtEnd(tree, z, h, l, x, g.fin[x])
  <2>1. AtEnd(tree, s, g, l, x, g.fin[x]) /\ x \in 1 .. nb /\ l \in 0 .. l
    BY <1>1, <1>2 DEF Guided
  <2> QED BY <1>1, <1>12, <2>1, AtEndMore
<1>15. ASSUME NEW j \in 1 .. n
       PROVE  /\ z[l + j].bb = b /\ Acts(tree, name, of, g.start, z[l + j], p, l + 1, l + j)
              /\ j > 1 => Proceeds(tree, z[l + j - 1], z[l + j], p) /\ z[l + j - 1].bb = b
              /\ z[l + j].op = "br" /\ z[l + j].succ[1] = retBB => j > 1 /\ IsResult(z[l + j - 1])
  <2>1. z[l + j] = d[j] /\ (j > 1 => z[l + j - 1] = d[j - 1])
    <3>1. j > 1 => j - 1 \in 1 .. n /\ l + (j - 1) = l + j - 1
      OBVIOUS
    <3> QED BY <1>21, <3>1
  <2>2. /\ Acts(tree, name, of, g.start, c[j], p, l + 1, l + j)
        /\ j > 1 => Proceeds(tree, c[j - 1], c[j], p)
        /\ c[j].op = "br" /\ c[j].succ[1] = retBB => j > 1 /\ IsResult(c[j - 1])
    BY <1>1, <1>4 DEF Piece
  <2>3. /\ d[j].op = c[j].op /\ d[j].args = c[j].args /\ d[j].sym = c[j].sym
        /\ d[j].succ = c[j].succ /\ d[j].bb = b
        /\ j > 1 => /\ d[j - 1].op = c[j - 1].op /\ d[j - 1].sym = c[j - 1].sym
                    /\ d[j - 1].bb = b
    <3>1. j > 1 => j - 1 \in 1 .. n
      OBVIOUS
    <3> QED BY <1>20, <3>1
  <2>4. Acts(tree, name, of, g.start, d[j], p, l + 1, l + j)
    BY <2>2, <2>3, SameActs
  <2>5. j > 1 => Proceeds(tree, d[j - 1], d[j], p)
    BY <2>2, <2>3 DEF Proceeds, IsResult
  <2>6. d[j].op = "br" /\ d[j].succ[1] = retBB => j > 1 /\ IsResult(d[j - 1])
    BY <2>2, <2>3 DEF IsResult
  <2> QED BY <2>1, <2>3, <2>4, <2>5, <2>6
<1>16. ASSUME NEW i \in l + 1 .. l + n
       PROVE  /\ z[i].bb = b /\ Stands(tree, name, z, h, i)
              /\ AtEnd(tree, z, h, i - 1, z[i].bb, h.pre[i])
  <2>1. PICK j \in 1 .. n : i = l + j
    <3>1. i - l \in 1 .. n /\ i = l + (i - l)
      OBVIOUS
    <3> QED BY <3>1
  <2>2. /\ z[i].bb = b /\ Acts(tree, name, of, g.start, z[i], p, l + 1, i)
        /\ j > 1 => Proceeds(tree, z[i - 1], z[i], p) /\ z[i - 1].bb = b
        /\ z[i].op = "br" /\ z[i].succ[1] = retBB => j > 1 /\ IsResult(z[i - 1])
    <3>1. l + j = i /\ l + j - 1 = i - 1
      BY <2>1
    <3>2. /\ z[l + j].bb = b /\ Acts(tree, name, of, g.start, z[l + j], p, l + 1, l + j)
          /\ j > 1 => Proceeds(tree, z[l + j - 1], z[l + j], p) /\ z[l + j - 1].bb = b
          /\ z[l + j].op = "br" /\ z[l + j].succ[1] = retBB => j > 1 /\ IsResult(z[l + j - 1])
      BY <1>15
    <3> QED BY ONLY <3>1, <3>2
  <2>3. i \in Nat /\ i > l /\ (j > 1 <=> l + 1 < i) /\ (j > 1 => i - 1 \in Nat /\ i - 1 > l)
    BY <2>1
  <2>4. h.pre[i] = p /\ h.first[i] = l + 1 /\ (j > 1 => h.pre[i - 1] = p /\ h.first[i - 1] = l + 1)
    BY <1>11, <2>3
  <2>5. Joined(tree, z, h, i)
    BY <2>2, <2>3, <2>4 DEF Joined
  <2>6. Acts(tree, name, h.of, h.start, z[i], p, l + 1, i)
    <3>1. Agree(of, h.of, l + 1, i)
      BY <1>11, <2>3 DEF Agree
    <3>2. z[i] \in Built /\ Fits(z[i])
      <4>1. z[i] = d[j] /\ d[j] \in Built
        BY <1>5, <1>21, <2>1
      <4>2. Fits(c[j])
        BY <1>4 DEF GoodCode, InstrFits
      <4>3. Fits(d[j])
        BY <1>20, <4>2 DEF Fits
      <4> QED BY <4>1, <4>3
    <3>3. TwoArgs(z[i])
      <4>1. z[i].args \in Seq(Int) /\ (z[i].op \in {"arith", "icmp"} => Len(z[i].args) = 2)
        BY <3>2 DEF Fits, Built
      <4> QED BY <4>1 DEF TwoArgs
    <3>4. l + 1 \in Nat /\ i \in Nat
      BY <2>3
    <3>5. \A x \in DOMAIN z[i].succ : g.start[z[i].succ[x]] = h.start[z[i].succ[x]]
      BY <1>9
    <3> QED BY <2>2, <3>1, <3>2, <3>3, <3>4, <3>5, ActsMore
  <2>7. CASE j = 1
    <3>1. AtEnd(tree, z, h, l, b, p)
      BY <1>14
    <3> QED BY <2>1, <2>2, <2>4, <2>5, <2>6, <2>7, <3>1 DEF Stands
  <2>8. CASE j > 1
    <3>1. Post(z[i - 1], p) = p
      <4>1. z[i - 1].op \in PureOps \/ IsResult(z[i - 1])
        BY <2>2, <2>8 DEF Proceeds
      <4> QED BY <4>1 DEF Post, PureOps, IsResult
    <3>2. Same(tree, Post(z[i - 1], h.pre[i - 1]), p)
      BY <2>4, <2>8, <3>1, SameSelf
    <3>3. i - 1 \in 1 .. i - 1 /\ \A y \in (i - 1) + 1 .. i - 1 : z[y].bb # b
      BY <2>3, <2>8
    <3>4. AtEnd(tree, z, h, i - 1, b, p)
      BY <2>2, <2>8, <3>2, <3>3 DEF AtEnd
    <3> QED BY <2>2, <2>4, <2>5, <2>6, <3>4 DEF Stands
  <2> QED BY <2>7, <2>8
<1>17. ASSUME NEW x \in open PROVE AtEnd(tree, z, h, l + n, x, h.fin[x])
  <2>1. CASE x = b
    <3>1. l + n \in 1 .. l + n /\ z[l + n].bb = b /\ h.pre[l + n] = p
      BY <1>4, <1>11, <1>16
    <3>2. Post(z[l + n], p) = Post(c[n], p)
      <4>1. z[l + n] = d[n] /\ d[n].op = c[n].op /\ d[n].args = c[n].args /\ d[n].sym = c[n].sym
        BY <1>4, <1>20, <1>21
      <4> QED BY <4>1 DEF Post
    <3>3. Same(tree, Post(z[l + n], h.pre[l + n]), q)
      BY <1>4, <3>1, <3>2
    <3>4. \A y \in (l + n) + 1 .. l + n : z[y].bb # b
      OBVIOUS
    <3> QED BY <1>10, <2>1, <3>1, <3>3, <3>4 DEF AtEnd
  <2>2. CASE x # b
    <3>1. AtEnd(tree, z, h, l, x, g.fin[x]) /\ h.fin[x] = g.fin[x]
      <4>1. x \in Nat
        BY <1>2
      <4> QED BY <1>10, <1>14, <2>2, <4>1
    <3>2. \A i \in l + 1 .. l + n : z[i].bb # x
      BY <1>16, <2>2
    <3>3. l + n \in Nat /\ l <= l + n
      OBVIOUS
    <3> QED BY <3>1, <3>2, <3>3, AtEndOthers
  <2> QED BY <2>1, <2>2
<1>18. Guided(tree, name, z, open, h)
  <2>1. \A i \in 1 .. l + n : i \in 1 .. l \/ i \in l + 1 .. l + n
    OBVIOUS
  <2>2. retBB \notin open
    BY DEF Guided
  <2> QED BY <1>2, <1>6, <1>9, <1>13, <1>16, <1>17, <2>1, <2>2 DEF Guided
<1> QED BY <1>1, <1>5, <1>6, <1>10, <1>12, <1>18

\* The tasks w start at position p.
AheadFrom(t, g, w, p) == \E k : Ahead(t, g, w, k) /\ k[1] = p

\* There is a guide for the instructions s, with the current block c and w left to do.
Traced(t, nm, s, c, w) ==
  \E g : Guided(t, nm, s, OpenAt(w, c), g) /\ AheadFrom(t, g, w, g.fin[c]) /\ Entered(t, nm, s, g)

LEMMA AheadTail ==
  ASSUME NEW t, NEW g, NEW S, NEW w \in Seq(S), w # <<>>, NEW p, AheadFrom(t, g, w, p)
  PROVE  p \in Pos(t) /\ \E q \in Pos(t) : TaskFits(g, Head(w), p, q) /\ AheadFrom(t, g, Tail(w), q)
<1>1. PICK k \in [Nat -> Pos(t)] :
        /\ \A j \in 1 .. Len(w) : TaskFits(g, w[j], k[j], k[j + 1])
        /\ k[Len(w) + 1] = <<>> /\ k[1] = p
  BY DEF AheadFrom, Ahead
<1>2. PICK m \in [Nat -> Pos(t)] : m = [j \in Nat |-> k[j + 1]]
  <2>1. [j \in Nat |-> k[j + 1]] \in [Nat -> Pos(t)]
    OBVIOUS
  <2> QED BY <2>1
<1>3. PICK l \in Nat : l = Len(w) /\ l >= 1
  <2>1. Len(w) \in Nat /\ Len(w) >= 1
    OBVIOUS
  <2> QED BY <2>1
<1>4. PICK v \in Seq(S) : v = Tail(w) /\ Len(v) = l - 1 /\ \A j \in 1 .. l - 1 : v[j] = w[j + 1]
  <2>1. Tail(w) \in Seq(S) /\ Len(Tail(w)) = l - 1 /\ \A j \in 1 .. l - 1 : Tail(w)[j] = w[j + 1]
    BY <1>3
  <2> QED BY <2>1
<1>5. ASSUME NEW j \in 1 .. l - 1 PROVE TaskFits(g, v[j], m[j], m[j + 1])
  <2>1. j + 1 \in 1 .. Len(w) /\ j \in Nat /\ j + 1 \in Nat
    BY <1>3
  <2>2. TaskFits(g, w[j + 1], k[j + 1], k[(j + 1) + 1])
    BY <1>1, <2>1
  <2>3. m[j] = k[j + 1] /\ m[j + 1] = k[(j + 1) + 1]
    BY <1>2, <2>1
  <2> QED BY <1>4, <2>2, <2>3
<1>6. m[(l - 1) + 1] = <<>>
  <2>1. (l - 1) + 1 = l /\ l \in Nat /\ m[l] = k[l + 1]
    BY <1>2
  <2> QED BY <1>1, <1>3, <2>1
<1>7. Ahead(t, g, v, m)
  BY <1>4, <1>5, <1>6 DEF Ahead
<1>8. m[1] = k[2] /\ k[2] \in Pos(t) /\ p \in Pos(t)
  BY <1>1, <1>2
<1>9. TaskFits(g, Head(w), p, k[2])
  <2>1. 1 \in 1 .. Len(w) /\ Head(w) = w[1]
    BY <1>3
  <2>2. TaskFits(g, w[1], k[1], k[1 + 1]) /\ 1 + 1 = 2
    BY <1>1, <2>1
  <2> QED BY <1>1, <2>1, <2>2
<1> QED BY <1>4, <1>7, <1>8, <1>9 DEF AheadFrom

LEMMA AheadCons ==
  ASSUME NEW t, NEW g, NEW S, NEW w \in Seq(S), NEW q, AheadFrom(t, g, w, q), NEW p \in Pos(t),
         NEW task \in S, TaskFits(g, task, p, q)
  PROVE  AheadFrom(t, g, <<task>> \o w, p)
<1>1. PICK k \in [Nat -> Pos(t)] :
        /\ \A j \in 1 .. Len(w) : TaskFits(g, w[j], k[j], k[j + 1])
        /\ k[Len(w) + 1] = <<>> /\ k[1] = q
  BY DEF AheadFrom, Ahead
<1>2. PICK m \in [Nat -> Pos(t)] : m = [j \in Nat |-> IF j <= 1 THEN p ELSE k[j - 1]]
  <2>1. [j \in Nat |-> IF j <= 1 THEN p ELSE k[j - 1]] \in [Nat -> Pos(t)]
    OBVIOUS
  <2> QED BY <2>1
<1>3. PICK l \in Nat : l = Len(w)
  OBVIOUS
<1>4. PICK v \in Seq(S) : /\ v = <<task>> \o w /\ Len(v) = l + 1 /\ v[1] = task
                          /\ \A j \in 1 .. l : v[j + 1] = w[j]
  <2>1. PICK one \in Seq(S) : one = <<task>> /\ Len(one) = 1 /\ one[1] = task
    <3>1. <<task>> \in Seq(S) /\ Len(<<task>>) = 1 /\ <<task>>[1] = task
      OBVIOUS
    <3> QED BY <3>1
  <2>2. one \o w \in Seq(S) /\ Len(one \o w) = l + 1
    BY <1>3, <2>1
  <2>3. PICK v \in Seq(S) : v = one \o w /\ Len(v) = l + 1
    BY <2>2
  <2>4. v[1] = task /\ \A j \in 1 .. l : v[j + 1] = w[j]
    BY <1>3, <2>1, <2>3
  <2> QED BY <2>1, <2>3, <2>4
<1>5. m[1] = p /\ \A j \in 1 .. l + 1 : m[j + 1] = k[j]
  BY <1>2
<1>6. ASSUME NEW j \in 1 .. l + 1 PROVE TaskFits(g, v[j], m[j], m[j + 1])
  <2>1. CASE j = 1
    <3>1. m[1] = p /\ m[1 + 1] = k[1]
      BY <1>5
    <3> QED BY <1>1, <1>4, <2>1, <3>1
  <2>2. CASE j # 1
    <3>1. PICK i \in 1 .. l : j = i + 1
      <4>1. j - 1 \in 1 .. l /\ j = (j - 1) + 1
        BY <2>2
      <4> QED BY <4>1
    <3>2. TaskFits(g, w[i], k[i], k[i + 1])
      BY <1>1, <1>3
    <3>3. m[j] = k[i] /\ m[j + 1] = k[i + 1] /\ v[j] = w[i]
      <4>1. i \in 1 .. l + 1 /\ i + 1 \in 1 .. l + 1
        OBVIOUS
      <4> QED BY <1>4, <1>5, <3>1, <4>1
    <3> QED BY <3>2, <3>3
  <2> QED BY <2>1, <2>2
<1>7. m[(l + 1) + 1] = <<>>
  <2>1. l + 1 \in 1 .. l + 1
    OBVIOUS
  <2> QED BY <1>1, <1>3, <1>5, <2>1
<1>8. Ahead(t, g, v, m)
  BY <1>4, <1>6, <1>7 DEF Ahead
<1> QED BY <1>4, <1>5, <1>8 DEF AheadFrom

LEMMA AheadKept ==
  ASSUME NEW t, NEW g, NEW h, NEW w, NEW q, NEW n, NEW nb \in Nat, NEW owned,
         LeftToDo(w, nb, owned), AheadFrom(t, g, w, q), Keeps(g, h, n, nb),
         \A b \in owned : h.fin[b] = g.fin[b]
  PROVE  AheadFrom(t, h, w, q)
<1>1. PICK k : Ahead(t, g, w, k) /\ k[1] = q
  BY DEF AheadFrom
<1>2. w \in Seq(TasksIn(nb)) /\ owned = UNION {Owned(w[i]) : i \in DOMAIN w}
  BY DEF LeftToDo
<1>3. ASSUME NEW j \in 1 .. Len(w) PROVE TaskFits(h, w[j], k[j], k[j + 1])
  <2>1. w[j] \in TasksIn(nb) /\ j \in DOMAIN w
    BY <1>2
  <2>2. Owned(w[j]) \subseteq owned
    BY <1>2, <2>1
  <2>3. PICK task \in TasksIn(nb) : task = w[j]
    BY <2>1
  <2>4. /\ task[1] = "loop" => task[2] \in 1 .. nb /\ task[3] \in owned
        /\ task[1] \in {"endif", "else", "join"} => task[2] \in 1 .. nb /\ task[2] \in owned
    BY <2>2, <2>3, TaskKinds
  <2>5. \A b \in 1 .. nb : h.start[b] = g.start[b]
    BY DEF Keeps
  <2>6. TaskFits(g, task, k[j], k[j + 1])
    BY <1>1, <2>3 DEF Ahead
  <2>7. TaskFits(h, task, k[j], k[j + 1])
    BY <2>4, <2>5, <2>6 DEF TaskFits
  <2> QED BY <2>3, <2>7
<1>4. Ahead(t, h, w, k)
  BY <1>1, <1>3 DEF Ahead
<1> QED BY <1>1, <1>4 DEF AheadFrom

LEMMA EnteredMore ==
  ASSUME NEW t, NEW nm, NEW s, NEW z, NEW g, NEW h, NEW n, NEW nb \in Nat, nb >= 1,
         NEW S, s \in Seq(S), z \in Seq(S),
         Entered(t, nm, s, g), Starts(s, z), Keeps(g, h, n, nb)
  PROVE  Entered(t, nm, z, h)
<1>1. h.start[entryBB] = g.start[entryBB]
  BY DEF Keeps, entryBB
<1>2. 1 \in DOMAIN s => 1 \in DOMAIN z /\ z[1] = s[1]
  BY DEF Starts
<1> QED BY <1>1, <1>2 DEF Entered

LEMMA GuidedLess ==
  ASSUME NEW t, NEW nm, NEW s, NEW open, NEW less, less \subseteq open, NEW g,
         Guided(t, nm, s, open, g)
  PROVE  Guided(t, nm, s, less, g)
BY DEF Guided

LEMMA OpenIsOwned ==
  ASSUME NEW w, NEW nb, NEW owned, LeftToDo(w, nb, owned), NEW c
  PROVE  OpenAt(w, c) = owned \cup {c}
BY DEF OpenAt, LeftToDo

LEMMA TracedTask ==
  ASSUME PartWay(instrs, nblocks, cur, work), Traced(tree, name, instrs, cur, work), work # <<>>
  PROVE  \E owned, rest, g, p, q :
           /\ rest = Tail(work) /\ LeftToDo(rest, nblocks, owned)
           /\ Task \in TasksIn(nblocks) /\ Owned(Task) \cap owned = {}
           /\ cur \notin owned /\ cur \notin Owned(Task)
           /\ Function(instrs, nblocks, owned \cup Owned(Task) \cup {cur})
           /\ nblocks \in Nat /\ instrs \in Seq(Built)
           /\ cur \in 1 .. nblocks /\ owned \subseteq 1 .. nblocks
           /\ Guided(tree, name, instrs, owned \cup Owned(Task) \cup {cur}, g)
           /\ g.fin[cur] = p /\ p \in Pos(tree) /\ q \in Pos(tree)
           /\ TaskFits(g, Task, p, q) /\ AheadFrom(tree, g, rest, q)
           /\ Entered(tree, name, instrs, g)
<1>1. PICK owned, rest :
           /\ rest = Tail(work) /\ LeftToDo(rest, nblocks, owned)
           /\ Task \in TasksIn(nblocks) /\ Owned(Task) \cap owned = {}
           /\ cur \notin owned /\ cur \notin Owned(Task)
           /\ Function(instrs, nblocks, owned \cup Owned(Task) \cup {cur})
           /\ nblocks \in Nat /\ instrs \in Seq(Built)
           /\ cur \in 1 .. nblocks /\ owned \subseteq 1 .. nblocks
  BY AtTask
<1>2. PICK all : LeftToDo(work, nblocks, all)
  BY DEF PartWay
<1>3. PICK g : /\ Guided(tree, name, instrs, OpenAt(work, cur), g)
               /\ AheadFrom(tree, g, work, g.fin[cur]) /\ Entered(tree, name, instrs, g)
  BY DEF Traced
<1>4. work \in Seq(TasksIn(nblocks)) /\ all = UNION {Owned(work[i]) : i \in DOMAIN work}
  BY <1>2 DEF LeftToDo
<1>5. rest \in Seq(TasksIn(nblocks)) /\ owned = UNION {Owned(rest[i]) : i \in DOMAIN rest}
  BY <1>1 DEF LeftToDo
<1>6. all = owned \cup Owned(Task)
  <2>1. PICK l \in Nat : l = Len(work) /\ DOMAIN work = 1 .. l /\ l >= 1
    BY <1>4
  <2>2. /\ DOMAIN rest = 1 .. l - 1 /\ \A i \in 1 .. l - 1 : rest[i] = work[i + 1]
        /\ work[1] = Task
    BY <1>1, <1>4, <2>1 DEF Task
  <2>3. \A i \in 1 .. l : i = 1 \/ (i - 1 \in 1 .. l - 1 /\ rest[i - 1] = work[i])
    <3>1. \A i \in 1 .. l : i # 1 => i - 1 \in 1 .. l - 1 /\ (i - 1) + 1 = i
      OBVIOUS
    <3> QED BY <2>2, <3>1
  <2>4. \A i \in 1 .. l - 1 : i + 1 \in 1 .. l /\ 1 \in 1 .. l
    OBVIOUS
  <2>5. 1 \in 1 .. l
    BY <2>1
  <2>6. ASSUME NEW b \in all PROVE b \in owned \cup Owned(Task)
    <3>1. PICK i \in 1 .. l : b \in Owned(work[i])
      BY <1>4, <2>1
    <3> QED BY <1>5, <2>2, <2>3, <3>1
  <2>7. ASSUME NEW b \in owned PROVE b \in all
    <3>1. PICK i \in 1 .. l - 1 : b \in Owned(rest[i])
      BY <1>5, <2>2
    <3>2. b \in Owned(work[i + 1]) /\ i + 1 \in DOMAIN work
      BY <2>1, <2>2, <2>4, <3>1
    <3> QED BY <1>4, <3>2
  <2>8. Owned(Task) \subseteq all
    BY <1>4, <2>1, <2>2, <2>5
  <2> QED BY <2>6, <2>7, <2>8
<1>7. OpenAt(work, cur) = owned \cup Owned(Task) \cup {cur}
  BY <1>2, <1>6, OpenIsOwned
<1>8. /\ g.fin[cur] \in Pos(tree)
      /\ \E q \in Pos(tree) : /\ TaskFits(g, Task, g.fin[cur], q)
                              /\ AheadFrom(tree, g, rest, q)
  BY <1>1, <1>3, <1>4, AheadTail DEF Task
<1> QED BY <1>1, <1>3, <1>7, <1>8

\* What Lower makes of it.
LEMMA TracedTo ==
  ASSUME NEW code, NEW blocks, NEW next, NEW tasks, Lower(code, blocks, next, tasks),
         NEW nb, NEW owned, LeftToDo(tasks \o Tail(work), nb, owned), NEW h,
         Guided(tree, name, instrs \o code, owned \cup {next}, h),
         AheadFrom(tree, h, tasks \o Tail(work), h.fin[next]),
         Entered(tree, name, instrs \o code, h)
  PROVE  Traced(tree, name, instrs, cur, work)'
<1>1. /\ instrs' = instrs \o code /\ cur' = next /\ work' = tasks \o Tail(work)
      /\ tree' = tree /\ name' = name
  BY DEF Lower, unchangedByLowering, scopevars, walkvars
<1>2. OpenAt(tasks \o Tail(work), next) = owned \cup {next}
  BY OpenIsOwned
<1>3. Traced(tree, name, instrs \o code, next, tasks \o Tail(work))
  BY <1>2 DEF Traced
<1> QED BY <1>1, <1>3

-----------------------------------------------------------------------------
(***************************************************************************)
(* The code of the statements                                              *)
(***************************************************************************)

\* The code d of the statement at position p, after which the position is q.
PieceTo(t, nm, of, start, d, p, k, q) ==
  Piece(t, nm, of, start, d, p, k) /\ Len(d) >= 1 /\ Post(d[Len(d)], p) = q

\* The code d is c, and then instruction i.
Adds(d, c, i) == d = Append(c, i)

\* The first part c of code d computes something, and the last instruction i uses it.
Feeds(t, nm, of, start, c, i, d, p, k) ==
  /\ k \in Nat /\ c \in Seq(Built) /\ i \in Built /\ Adds(d, c, i)
  /\ ~Silent(t, p)
  /\ \A j \in DOMAIN c : c[j].op \in PureOps /\ Acts(t, nm, of, start, c[j], p, k + 1, k + j)
  /\ Acts(t, nm, of, start, i, p, k + 1, k + Len(c) + 1)
  /\ i.op = "br" => i.succ[1] # retBB

LEMMA PieceThen ==
  ASSUME NEW t, NEW nm, NEW of, NEW start, NEW k, NEW p, NEW c, NEW i, NEW d,
         Feeds(t, nm, of, start, c, i, d, p, k)
  PROVE  PieceTo(t, nm, of, start, d, p, k, Post(i, p))
<1>5. k \in Nat /\ c \in Seq(Built) /\ i \in Built /\ d = Append(c, i)
  BY DEF Feeds, Adds
<1>0. PICK l \in Nat : l = Len(c) /\ DOMAIN c = 1 .. l
  BY <1>5
<1>4. /\ ~Silent(t, p)
      /\ \A j \in 1 .. l : c[j].op \in PureOps /\ Acts(t, nm, of, start, c[j], p, k + 1, k + j)
      /\ Acts(t, nm, of, start, i, p, k + 1, k + l + 1) /\ (i.op = "br" => i.succ[1] # retBB)
  BY <1>0 DEF Feeds
<1>1. /\ d \in Seq(Built) /\ DOMAIN d = 1 .. l + 1 /\ Len(d) = l + 1
      /\ d[l + 1] = i /\ \A j \in 1 .. l : d[j] = c[j]
  <2>1. /\ Append(c, i) \in Seq(Built) /\ DOMAIN Append(c, i) = 1 .. l + 1
        /\ Len(Append(c, i)) = l + 1
        /\ Append(c, i)[l + 1] = i /\ \A j \in 1 .. l : Append(c, i)[j] = c[j]
    BY <1>0, <1>5, AppendFacts
  <2> QED BY <1>5, <2>1
<1>2. ASSUME NEW j \in 1 .. l + 1
      PROVE  /\ Acts(t, nm, of, start, d[j], p, k + 1, k + j)
             /\ j > 1 => Proceeds(t, d[j - 1], d[j], p)
             /\ d[j].op = "br" /\ d[j].succ[1] = retBB => j > 1 /\ IsResult(d[j - 1])
  <2>1. j > 1 => j - 1 \in 1 .. l
    OBVIOUS
  <2>2. j > 1 => Proceeds(t, d[j - 1], d[j], p)
    BY <1>1, <1>4, <2>1 DEF Proceeds
  <2>3. CASE j \in 1 .. l
    <3>1. d[j] = c[j] /\ c[j].op # "br" /\ Acts(t, nm, of, start, c[j], p, k + 1, k + j)
      BY <1>1, <1>4, <2>3 DEF PureOps
    <3> QED BY <2>2, <3>1
  <2>4. CASE j \notin 1 .. l
    <3>0. j \in 1 .. l + 1 /\ l \in Nat /\ k \in Nat
      BY <1>5
    <3>1. j = l + 1 /\ k + j = k + l + 1
      BY ONLY <2>4, <3>0
    <3>2. d[j] = i
      BY <1>1, <3>1
    <3> QED BY <1>4, <2>2, <3>1, <3>2
  <2> QED BY <2>3, <2>4
<1>3. Piece(t, nm, of, start, d, p, k)
  BY <1>1, <1>2 DEF Piece
<1>6. Len(d) >= 1 /\ Post(d[Len(d)], p) = Post(i, p)
  BY <1>1
<1> QED BY <1>3, <1>6 DEF PieceTo

LEMMA PureActs ==
  ASSUME NEW t, NEW nm, NEW of, NEW start, NEW j, NEW p, NEW first, NEW i,
         j.op \in {"load", "arith", "icmp"}, Computes(t, nm, of, j, first, i), ~Silent(t, p)
  PROVE  j.op \in PureOps /\ Acts(t, nm, of, start, j, p, first, i)
BY DEF Acts, PureOps, IsCall, IsResult

\* The code of an expression without read(), and what uses it.
LEMMA ExprFeeds ==
  ASSUME NEW t, NEW nm, NEW of, NEW start, NEW k \in Nat, NEW p, ~Silent(t, p),
         NEW c \in Seq(Built), NEW i \in Built, NEW d, Adds(d, c, i), Coded(t, nm, c, k, of),
         \A j \in DOMAIN c : c[j].op \in {"load", "arith", "icmp"},
         Acts(t, nm, of, start, i, p, k + 1, k + Len(c) + 1), i.op = "br" => i.succ[1] # retBB
  PROVE  Feeds(t, nm, of, start, c, i, d, p, k)
<1>1. ASSUME NEW j \in DOMAIN c
      PROVE  c[j].op \in PureOps /\ Acts(t, nm, of, start, c[j], p, k + 1, k + j)
  <2>1. Computes(t, nm, of, c[j], k + 1, k + j) /\ c[j].op \in {"load", "arith", "icmp"}
    BY DEF Coded
  <2> QED BY <2>1, PureActs
<1> QED BY <1>1 DEF Feeds

LEMMA NotSilent ==
  ASSUME NEW t, NEW p, t[Head(p)].kind \notin {"block", "decl"}
  PROVE  ~Silent(t, p)
BY DEF Silent

LEMMA TermValue ==
  ASSUME NEW e, NEW k \in Nat, IsTerm(e, k)
  PROVE  /\ e.val \in Int /\ e.val # 0 /\ e.code \in Seq(Built)
         /\ \A j \in DOMAIN e.code : e.code[j].op \in {"load", "arith"}
<1>1. TermCode(e.code, k) /\ e.code \in Seq(Built)
  BY DEF IsTerm, TermCode
<1>2. \A j \in DOMAIN e.code : e.code[j].op \in {"load", "arith"}
  BY <1>1, TermInstr
<1>3. PICK l \in Nat : l = Len(e.code)
  BY <1>1
<1>4. e.val \in Int /\ OperandIn(e.val, k, l)
  BY <1>3, ValueIn
<1>5. e.val # 0
  BY <1>4 DEF OperandIn, IsWord
<1> QED BY <1>1, <1>2, <1>4, <1>5

LEMMA PieceAsgn ==
  ASSUME Prepared, NEW k \in Nat, NEW p \in Pos(tree), p # <<>>, tree[Head(p)].kind = "asgn",
         NEW e, e = genIRExpr[Kids(Head(p))[2]][k], NEW x, x = name[Kids(Head(p))[1]],
         NEW c, Adds(c, e.code, Store(e.val, x)), NEW start
  PROVE  \E of : Map(of) /\ PieceTo(tree, name, of, start, c, p, k, Tail(p))
<1>0. WellFormedTree(tree)
  BY DEF Prepared
<1>1. PICK n \in StmtNodes : n = Head(p) /\ tree[n].kind = "asgn"
  BY <1>0, PosFacts
<1>2. /\ Kids(n)[1] \in Uses /\ Kids(n)[2] \in Exprs
      /\ tree[Kids(n)[2]].kind \in Terms \cup {"read"}
  BY <1>0, <1>1, StmtFacts
<1>3. PICK m \in Exprs : m = Kids(n)[2] /\ tree[m].kind \in Terms \cup {"read"}
  BY <1>2
<1>4. x \in Allocas /\ x # ret_ref
  BY <1>1, <1>2, NameFacts
<1>5. ~Silent(tree, p)
  BY <1>1, NotSilent
<1>6. PICK of : Map(of) /\ Means(tree, name, m, e, k, of)
  <2>1. \E of \in [Nat -> Nat] : Means(tree, name, m, genIRExpr[m][k], k, of)
    BY ExprsMean
  <2> QED BY <1>1, <1>3, <2>1 DEF Map
<1>7. e.val \in Int /\ e.val # 0 /\ e.code \in Seq(Built)
  <2>1. CASE tree[m].kind \in Terms
    <3>1. IsTerm(e, k)
      BY <1>1, <1>3, <2>1, TermsCode DEF TermNodes
    <3> QED BY <3>1, TermValue
  <2>2. CASE tree[m].kind = "read"
    <3>1. PICK i : i = Instr("read", <<>>, <<"">>, <<>>)
      BY Zenon
    <3>2. e = [code |-> <<i>>, val |-> k + 1]
      BY <1>1, <1>3, <2>2, <3>1, ReadCode, Zenon
    <3>3. i \in Built
      <4>1. "read" \in AllOps /\ <<"">> \in AllSyms
        BY BuiltFacts, Zenon DEF AllOps, Operators
      <4>2. <<>> \in Seq(Int)
        OBVIOUS
      <4>3. <<>> \in Seq(Nat)
        OBVIOUS
      <4> QED BY <3>1, <4>1, <4>2, <4>3, BuiltFacts, Zenon
    <3>4. <<i>> \in Seq(Built)
      BY <3>3
    <3> QED BY <3>2, <3>4
  <2> QED BY <1>3, <2>1, <2>2
<1>8. PICK i \in Built : i = Store(e.val, x) /\ i.op = "store" /\ i.args = <<e.val>> /\ i.sym = x
  <2>1. Store(e.val, x) \in Built
    BY <1>4, <1>7, BuiltStmt
  <2>2. PICK i \in Built : i = Store(e.val, x)
    BY <2>1
  <2>3. i.op = "store" /\ i.args = <<e.val>> /\ i.sym = x
    BY <2>2 DEF Store, Instr
  <2> QED BY <2>2, <2>3, Zenon
<1>9. i.args[1] = e.val
  <2>1. <<e.val>>[1] = e.val
    BY Zenon
  <2> QED BY ONLY <1>8, <2>1
<1>10. Acts(tree, name, of, start, i, p, k + 1, k + Len(e.code) + 1)
  <2>1. Names(tree, of, i.args[1], tree[Head(p)].kids[2], k + 1, k + Len(e.code) + 1)
    BY <1>1, <1>3, <1>6, <1>9, Zenon DEF Means, Kids
  <2>2. i.sym = name[tree[Head(p)].kids[1]] /\ i.sym # ret_ref /\ i.args[1] # 0
    BY <1>1, <1>4, <1>7, <1>8, <1>9, Zenon DEF Kids
  <2> QED BY <1>1, <1>5, <1>8, <2>1, <2>2, Zenon DEF Acts, PureOps, IsCall, IsResult
<1>11. Post(i, p) = Tail(p)
  BY <1>4, <1>7, <1>8, <1>9, Zenon DEF Post
<1>13. CASE tree[m].kind \in Terms
  <2>1. IsTerm(e, k)
    BY <1>1, <1>3, <1>13, TermsCode DEF TermNodes
  <2>2. \A j \in DOMAIN e.code : e.code[j].op \in {"load", "arith", "icmp"}
    BY <2>1, TermValue
  <2>3. Coded(tree, name, e.code, k, of)
    BY <1>6, Zenon DEF Means
  <2>4. i.op # "br"
    BY <1>8, Zenon
  <2>5. Adds(c, e.code, i)
    BY <1>8, Zenon
  <2>6. Feeds(tree, name, of, start, e.code, i, c, p, k)
    BY <1>5, <1>7, <1>10, <2>2, <2>3, <2>4, <2>5, ExprFeeds, Zenon
  <2> QED BY <1>6, <1>11, <2>6, PieceThen
<1>14. CASE tree[m].kind = "read"
  <2>1. PICK r : r = Instr("read", <<>>, <<"">>, <<>>) /\ e = [code |-> <<r>>, val |-> k + 1]
    BY <1>1, <1>3, <1>14, ReadCode, Zenon
  <2>2. r.op = "read"
    BY <2>1, Zenon DEF Instr
  <2>3. e.code = <<r>> /\ e.val = k + 1
    BY ONLY <2>1, Zenon
  <2>4. PICK code \in Seq(Built) : code = e.code /\ code = <<r>>
    BY <1>7, <2>3
  <2>5. Len(code) = 1 /\ code[1] = r /\ DOMAIN code = {1}
    BY <2>4
  <2>6. of[k + 1] = m
    <3>1. Names(tree, of, k + 1, m, k + 1, k + Len(code) + 1) /\ k + 1 > 0
      BY <1>6, <2>3, <2>4 DEF Means
    <3> QED BY <3>1 DEF Names, Fixed
  <2>7. Computes(tree, name, of, r, k + 1, k + 1)
    BY <1>6, <2>4, <2>5 DEF Means, Coded
  <2>8. Acts(tree, name, of, start, r, p, k + 1, k + 1)
    <3>1. tree[Head(p)].kids[2] = m
      BY <1>1, <1>3, Zenon DEF Kids
    <3> QED BY <1>1, <1>5, <2>2, <2>6, <2>7, <3>1, Zenon DEF Acts, PureOps, IsCall, IsResult
  <2>9. \A j \in {1} : code[j].op \in PureOps
          /\ Acts(tree, name, of, start, code[j], p, k + 1, k + j)
    BY <2>2, <2>5, <2>8, Zenon DEF PureOps
  <2>10. i.op # "br" /\ Acts(tree, name, of, start, i, p, k + 1, k + Len(code) + 1)
    BY <1>8, <1>10, <2>4, Zenon
  <2>11. Adds(c, code, i)
    BY <1>8, <2>4, Zenon
  <2>12. Feeds(tree, name, of, start, code, i, c, p, k)
    BY <1>5, <2>5, <2>9, <2>10, <2>11 DEF Feeds
  <2> QED BY <1>6, <1>11, <2>12, PieceThen
<1> QED BY <1>3, <1>13, <1>14

LEMMA NoSuccs == <<>> \in Seq(Nat)
OBVIOUS

LEMMA MeansOf ==
  ASSUME Prepared, NEW m \in Exprs, NEW k \in Nat, NEW e, e = genIRExpr[m][k]
  PROVE  \E of : Map(of) /\ Coded(tree, name, e.code, k, of)
                 /\ Names(tree, of, e.val, m, k + 1, k + Len(e.code) + 1)
<1>1. \E of \in [Nat -> Nat] : Means(tree, name, m, genIRExpr[m][k], k, of)
  BY ExprsMean
<1> QED BY <1>1 DEF Map, Means

LEMMA PiecePrint ==
  ASSUME Prepared, NEW k \in Nat, NEW p \in Pos(tree), p # <<>>, tree[Head(p)].kind = "print",
         NEW e, e = genIRExpr[Kids(Head(p))[1]][k],
         NEW c, Adds(c, e.code, Instr("print", <<e.val>>, <<"">>, <<>>)), NEW start
  PROVE  \E of : Map(of) /\ PieceTo(tree, name, of, start, c, p, k, Tail(p))
<1>0. WellFormedTree(tree)
  BY Zenon DEF Prepared
<1>1. PICK n \in StmtNodes : n = Head(p) /\ tree[n].kind = "print"
  BY <1>0, PosFacts, Zenon
<1>2. PICK m \in TermNodes : m = Kids(n)[1]
  BY <1>0, <1>1, StmtFacts, Zenon
<1>3. IsTerm(e, k) /\ m \in Exprs
  BY <1>1, <1>2, TermsCode, Zenon DEF TermNodes
<1>4. /\ e.val \in Int /\ e.code \in Seq(Built)
      /\ \A j \in DOMAIN e.code : e.code[j].op \in {"load", "arith", "icmp"}
  BY <1>3, TermValue, Zenon
<1>5. PICK of : Map(of) /\ Coded(tree, name, e.code, k, of)
                /\ Names(tree, of, e.val, m, k + 1, k + Len(e.code) + 1)
  BY <1>1, <1>2, <1>3, MeansOf, Zenon
<1>6. PICK i : i = Instr("print", <<e.val>>, <<"">>, <<>>)
  BY Zenon
<1>7. i.op = "print" /\ i.args = <<e.val>>
  BY <1>6, Zenon DEF Instr
<1>8. i.args[1] = e.val
  <2>1. <<e.val>>[1] = e.val
    BY Zenon
  <2> QED BY ONLY <1>7, <2>1
<1>9. i \in Built
  <2>1. "print" \in AllOps /\ <<"">> \in AllSyms
    BY BuiltFacts, Zenon DEF AllOps, Operators
  <2>2. <<e.val>> \in Seq(Int)
    <3>1. e.val \in Int
      BY <1>4, Zenon
    <3> QED BY ONLY <3>1
  <2>3. <<>> \in Seq(Nat)
    BY ONLY NoSuccs
  <2> QED BY <1>6, <2>1, <2>2, <2>3, BuiltFacts, Zenon
<1>10. ~Silent(tree, p)
  BY <1>1, NotSilent, Zenon
<1>11. Acts(tree, name, of, start, i, p, k + 1, k + Len(e.code) + 1)
  <2>1. Names(tree, of, i.args[1], tree[Head(p)].kids[1], k + 1, k + Len(e.code) + 1)
    BY <1>1, <1>2, <1>5, <1>8, Zenon DEF Kids
  <2> QED BY <1>1, <1>7, <1>10, <2>1, Zenon DEF Acts, PureOps, IsCall, IsResult
<1>12. Post(i, p) = Tail(p)
  BY <1>7, Zenon DEF Post
<1>13. Adds(c, e.code, i) /\ i.op # "br"
  BY <1>6, <1>7, Zenon
<1>14. Feeds(tree, name, of, start, e.code, i, c, p, k)
  BY <1>4, <1>5, <1>9, <1>10, <1>11, <1>13, ExprFeeds, Zenon
<1> QED BY <1>5, <1>12, <1>14, PieceThen, Zenon

LEMMA CondCodeOps ==
  ASSUME NEW k \in Nat, NEW e, CondCode(e, k)
  PROVE  \A j \in DOMAIN e.code : e.code[j].op \in {"load", "arith", "icmp"}
<1>1. CASE e.code = <<>>
  BY <1>1
<1>2. ASSUME NEW c, NEW i, TermCode(c, k), e.code = Append(c, i),
             i = Instr("icmp", i.args, i.sym, <<>>), NEW j \in DOMAIN e.code
      PROVE  e.code[j].op \in {"load", "arith", "icmp"}
  <2>1. i.op = "icmp"
    BY <1>2, InstrFields
  <2>2. c \in Seq(Built) /\ \A x \in DOMAIN c : c[x].op \in {"load", "arith"}
    BY <1>2, TermInstr DEF TermCode
  <2>3. PICK l \in Nat : l = Len(c) /\ DOMAIN c = 1 .. l
    BY <2>2
  <2>4. j \in 1 .. l + 1
    BY <1>2, <2>2, <2>3
  <2>5. CASE j \in 1 .. l
    <3>1. e.code[j] = c[j]
      BY <1>2, <2>2, <2>3, <2>5
    <3> QED BY <2>2, <2>3, <2>5, <3>1
  <2>6. CASE j = l + 1
    <3>1. e.code[j] = i
      BY <1>2, <2>2, <2>3, <2>6
    <3> QED BY <2>1, <3>1
  <2> QED BY <2>4, <2>5, <2>6
<1> QED BY <1>1, <1>2 DEF CondCode

LEMMA PieceCond ==
  ASSUME Prepared, NEW k \in Nat, NEW p \in Pos(tree), p # <<>>,
         tree[Head(p)].kind \in {"while", "if"}, NEW e, e = genIRExpr[Kids(Head(p))[1]][k],
         NEW y \in Nat, y > retBB, NEW z \in Nat, z > retBB, NEW start,
         Same(tree, start[y], Taken(tree, p, TRUE)), Same(tree, start[z], Taken(tree, p, FALSE)),
         NEW c, Adds(c, e.code, CondBr(e.val, y, z))
  PROVE  \E of : Map(of) /\ PieceTo(tree, name, of, start, c, p, k, p)
<1>0. WellFormedTree(tree)
  BY DEF Prepared
<1>1. PICK n \in StmtNodes : n = Head(p) /\ tree[n].kind \in {"while", "if"}
  BY <1>0, PosFacts
<1>2. PICK m \in Conds : m = Kids(n)[1]
  BY <1>0, <1>1, StmtFacts
<1>3. CondCode(e, k) /\ m \in Exprs
  BY <1>1, <1>2, CondsCode DEF Conds
<1>4. PICK i : i = CondBr(e.val, y, z)
  BY Zenon
<1>5. /\ e.val \in Int /\ e.code \in Seq(Built) /\ i \in Built
      /\ \A j \in DOMAIN e.code : e.code[j].op \in {"load", "arith", "icmp"}
  BY <1>3, <1>4, CondThen, CondCodeOps, Zenon
<1>6. PICK of : Map(of) /\ Coded(tree, name, e.code, k, of)
                /\ Names(tree, of, e.val, m, k + 1, k + Len(e.code) + 1)
  BY <1>1, <1>2, <1>3, MeansOf
<1>7. i.op = "condbr" /\ i.args = <<e.val>> /\ i.succ = <<y, z>>
  BY <1>4, Zenon DEF CondBr, Instr
<1>8. i.args[1] = e.val /\ i.succ[1] = y /\ i.succ[2] = z
  <2>1. <<e.val>>[1] = e.val /\ <<y, z>>[1] = y /\ <<y, z>>[2] = z
    OBVIOUS
  <2> QED BY ONLY <1>7, <2>1
<1>10. ~Silent(tree, p)
  BY <1>1, NotSilent
<1>11. Acts(tree, name, of, start, i, p, k + 1, k + Len(e.code) + 1)
  <2>1. Names(tree, of, i.args[1], tree[Head(p)].kids[1], k + 1, k + Len(e.code) + 1)
    BY <1>1, <1>2, <1>6, <1>8, Zenon DEF Kids
  <2> QED BY <1>1, <1>7, <1>8, <1>10, <2>1, Zenon DEF Acts, PureOps, IsCall, IsResult
<1>12. Post(i, p) = p
  BY <1>7, Zenon DEF Post
<1>13. Adds(c, e.code, i) /\ i.op # "br"
  BY <1>4, <1>7, Zenon
<1>14. Feeds(tree, name, of, start, e.code, i, c, p, k)
  BY <1>5, <1>6, <1>10, <1>11, <1>13, ExprFeeds, Zenon
<1> QED BY <1>6, <1>12, <1>14, PieceThen

LEMMA PieceBr ==
  ASSUME Prepared, NEW k \in Nat, NEW p, NEW b \in Nat, b > retBB, NEW start,
         Same(tree, start[b], p)
  PROVE  \E of : Map(of) /\ PieceTo(tree, name, of, start, <<Br(b)>>, p, k, p)
<1>1. PICK i : i = Br(b)
  OBVIOUS
<1>2. i.op = "br" /\ i.succ = <<b>>
  BY <1>1, Zenon DEF Br, Instr
<1>3. i.succ[1] = b
  <2>1. <<b>>[1] = b
    OBVIOUS
  <2> QED BY ONLY <1>2, <2>1
<1>4. PICK c : c = <<i>> /\ Len(c) = 1 /\ DOMAIN c = {1} /\ c[1] = i
  <2>1. Len(<<i>>) = 1 /\ DOMAIN <<i>> = {1} /\ <<i>>[1] = i
    OBVIOUS
  <2> QED BY <2>1
<1>5. PICK of : Map(of)
  <2>1. [x \in Nat |-> 0] \in [Nat -> Nat]
    OBVIOUS
  <2> QED BY <2>1 DEF Map
<1>6. Acts(tree, name, of, start, i, p, k + 1, k + 1)
  BY <1>2, <1>3 DEF Acts, PureOps, IsCall, IsResult
<1>7. Piece(tree, name, of, start, c, p, k)
  BY <1>3, <1>4, <1>6 DEF Piece
<1>8. Len(c) >= 1 /\ Post(c[Len(c)], p) = p
  BY <1>2, <1>4 DEF Post
<1> QED BY <1>1, <1>4, <1>5, <1>7, <1>8 DEF PieceTo

\* A return: the value, the store to the result, and the branch.
LEMMA PieceReturn ==
  ASSUME Prepared, NEW k \in Nat, NEW p, ~Silent(tree, p), NEW e, IsTerm(e, k),
         NEW of, Map(of), Coded(tree, name, e.code, k, of),
         \/ p = <<>> /\ e.val = Constant(0)
         \/ /\ p # <<>> /\ tree[Head(p)].kind = "ret"
            /\ Names(tree, of, e.val, Kids(Head(p))[1], k + 1, k + Len(e.code) + 1),
         NEW start, NEW c, c = e.code \o <<Store(e.val, ret_ref), Br(retBB)>>
  PROVE  PieceTo(tree, name, of, start, c, p, k, p) /\ GoodCode(c, k)
<1>1. PICK h : h = Br(retBB)
  OBVIOUS
<1>2. PICK i : i = Store(e.val, ret_ref)
  OBVIOUS
<1>3. retBB \in Nat /\ ret_ref \in Allocas
  BY DEF retBB, Allocas
<1>4. /\ e.val \in Int /\ e.val # 0 /\ e.code \in Seq(Built)
      /\ \A j \in DOMAIN e.code : e.code[j].op \in {"load", "arith", "icmp"}
  BY TermValue
<1>5. /\ h \in Built /\ h.op = "br" /\ h.succ = <<retBB>>
      /\ i \in Built /\ i.op = "store" /\ i.args = <<e.val>>
  BY <1>1, <1>2, <1>3, <1>4, BuiltStmt
<1>6. i.sym = ret_ref
  BY <1>2 DEF Store, Instr
<1>7. i.args[1] = e.val /\ h.succ[1] = retBB
  <2>1. <<e.val>>[1] = e.val /\ <<retBB>>[1] = retBB
    OBVIOUS
  <2> QED BY ONLY <1>5, <2>1
<1>8. PICK d \in Seq(Built) : d = Append(e.code, i)
  <2>1. Append(e.code, i) \in Seq(Built)
    <3>1. PICK l \in Nat : l = Len(e.code)
      BY ONLY <1>4
    <3> QED BY ONLY <1>4, <1>5, <3>1, AppendFacts
  <2> QED BY <2>1
<1>9. d \o <<h>> = Append(d, h) /\ e.code \o <<i, h>> = Append(d, h)
  <2>1. <<h>> \in Seq(Built) /\ <<i>> \in Seq(Built) /\ <<i, h>> = <<i>> \o <<h>>
    BY <1>5
  <2>2. d = e.code \o <<i>> /\ Append(d, h) = d \o <<h>>
    BY <1>4, <1>5, <1>8, AppendIsConcat
  <2>3. (e.code \o <<i>>) \o <<h>> = e.code \o (<<i>> \o <<h>>)
    BY <1>4, <2>1, ConcatAssociative
  <2> QED BY <2>1, <2>2, <2>3
<1>10. GoodCode(c, k)
  <2>1. GoodCode(d, k)
    BY <1>2, <1>3, <1>8, StoreGood
  <2>2. GoodCode(<<h>>, k + Len(d))
    <3>1. k + Len(d) \in Nat
      BY <1>8
    <3> QED BY <1>1, <1>3, <3>1, BrGood
  <2>3. GoodCode(d \o <<h>>, k)
    BY <2>1, <2>2, GoodJoin
  <2> QED BY <1>1, <1>2, <1>9, <2>3
<1>11. Acts(tree, name, of, start, i, p, k + 1, k + Len(e.code) + 1)
  <2>1. CASE p = <<>> /\ e.val = Constant(0)
    BY <1>4, <1>5, <1>6, <1>7, <2>1 DEF Acts, PureOps, IsCall, IsResult
  <2>2. CASE p # <<>> /\ tree[Head(p)].kind = "ret"
               /\ Names(tree, of, e.val, Kids(Head(p))[1], k + 1, k + Len(e.code) + 1)
    BY <1>4, <1>5, <1>6, <1>7, <2>2 DEF Acts, PureOps, IsCall, IsResult, Kids
  <2> QED BY <2>1, <2>2
<1>12. Feeds(tree, name, of, start, e.code, i, d, p, k)
  <2>1. Adds(d, e.code, i)
    BY <1>8, Zenon DEF Adds
  <2>2. i \in Built /\ i.op # "br" /\ e.code \in Seq(Built)
    BY <1>4, <1>5, Zenon
  <2> QED BY <1>4, <1>11, <2>1, <2>2, ExprFeeds, Zenon
<1>13. Piece(tree, name, of, start, d, p, k) /\ Len(d) >= 1
  BY <1>12, PieceThen DEF PieceTo
<1>14. PICK l \in Nat : l = Len(d) /\ DOMAIN d = 1 .. l /\ l >= 1
  BY <1>8, <1>13
<1>15. d[l] = i
  <2>1. PICK m \in Nat : m = Len(e.code)
    BY ONLY <1>4
  <2>2. Len(d) = m + 1 /\ d[m + 1] = i
    BY ONLY <1>4, <1>5, <1>8, <2>1, AppendFacts
  <2> QED BY <1>14, <2>2
<1>16. PICK s \in Seq(Built) : /\ s = Append(d, h) /\ DOMAIN s = 1 .. l + 1 /\ Len(s) = l + 1
                               /\ s[l + 1] = h /\ \A j \in 1 .. l : s[j] = d[j]
  <2>1. /\ Append(d, h) \in Seq(Built) /\ DOMAIN Append(d, h) = 1 .. l + 1
        /\ Len(Append(d, h)) = l + 1
        /\ Append(d, h)[l + 1] = h /\ \A j \in 1 .. l : Append(d, h)[j] = d[j]
    BY <1>5, <1>14, AppendFacts
  <2> QED BY <2>1
<1>17. ASSUME NEW j \in 1 .. l + 1
       PROVE  /\ Acts(tree, name, of, start, s[j], p, k + 1, k + j)
              /\ j > 1 => Proceeds(tree, s[j - 1], s[j], p)
              /\ s[j].op = "br" /\ s[j].succ[1] = retBB => j > 1 /\ IsResult(s[j - 1])
  <2>1. CASE j \in 1 .. l
    <3>1. s[j] = d[j] /\ (j > 1 => s[j - 1] = d[j - 1])
      BY <1>16, <2>1
    <3>2. /\ Acts(tree, name, of, start, d[j], p, k + 1, k + j)
          /\ j > 1 => Proceeds(tree, d[j - 1], d[j], p)
          /\ d[j].op = "br" /\ d[j].succ[1] = retBB => j > 1 /\ IsResult(d[j - 1])
      BY <1>13, <1>14, <2>1 DEF Piece
    <3> QED BY ONLY <3>1, <3>2
  <2>2. CASE j = l + 1
    <3>1. s[j] = h /\ s[j - 1] = i /\ j > 1
      BY <1>14, <1>15, <1>16, <2>2
    <3>2. IsResult(i)
      BY <1>5, <1>6 DEF IsResult
    <3>3. Proceeds(tree, i, h, p)
      BY <1>5, <3>2 DEF Proceeds
    <3>4. Acts(tree, name, of, start, h, p, k + 1, k + j)
      BY <1>5, <1>7 DEF Acts, PureOps, IsCall, IsResult
    <3> QED BY ONLY <3>1, <3>2, <3>3, <3>4
  <2> QED BY <2>1, <2>2
<1>18. Piece(tree, name, of, start, s, p, k)
  BY <1>16, <1>17 DEF Piece
<1>19. Len(s) >= 1 /\ Post(s[Len(s)], p) = p
  BY <1>5, <1>16 DEF Post
<1>20. s = c
  BY <1>1, <1>2, <1>9, <1>16
<1> QED BY <1>10, <1>18, <1>19, <1>20 DEF PieceTo

-----------------------------------------------------------------------------
(***************************************************************************)
(* In the middle of a step of genIRStmt: some of its blocks are appended,  *)
(* some of its code is built, and rest is to do, from position q on.       *)
(***************************************************************************)

Midway(s, nb, open, g, rest, owned, q) ==
  /\ Function(s, nb, open) /\ Guided(tree, name, s, open, g) /\ Entered(tree, name, s, g)
  /\ LeftToDo(rest, nb, owned) /\ owned \subseteq 1 .. nb
  /\ q \in Pos(tree) /\ AheadFrom(tree, g, rest, q)

LEMMA MidwayFacts ==
  ASSUME NEW s, NEW nb, NEW open, NEW g, NEW rest, NEW owned, NEW q,
         Midway(s, nb, open, g, rest, owned, q)
  PROVE  /\ nb \in Nat /\ nb >= 2 /\ open \subseteq 1 .. nb /\ s \in Seq(Built) /\ Len(s) \in Nat
         /\ retBB \notin open /\ \A b \in Nat : g.fin[b] \in Pos(tree) /\ g.start[b] \in Pos(tree)
<1>1. nb \in Nat /\ nb >= 2 /\ open \subseteq 1 .. nb /\ s \in Seq(Built)
  BY DEF Midway, Function, GoodCode
<1>2. g \in Guides(tree) /\ retBB \notin open
  BY DEF Midway, Guided
<1>3. g.fin \in [Nat -> Pos(tree)] /\ g.start \in [Nat -> Pos(tree)]
  BY <1>2 DEF Guides
<1> QED BY <1>1, <1>2, <1>3

LEMMA MidwayStart ==
  ASSUME PartWay(instrs, nblocks, cur, work), Traced(tree, name, instrs, cur, work), work # <<>>
  PROVE  \E owned, g, p, q :
           /\ Midway(instrs, nblocks, owned \cup Owned(Task) \cup {cur}, g, Tail(work), owned, q)
           /\ Task \in TasksIn(nblocks) /\ Owned(Task) \cap owned = {}
           /\ cur \notin owned /\ cur \notin Owned(Task) /\ cur \in 1 .. nblocks
           /\ g.fin[cur] = p /\ p \in Pos(tree) /\ TaskFits(g, Task, p, q)
<1>1. PICK owned, rest, g, p, q :
           /\ rest = Tail(work) /\ LeftToDo(rest, nblocks, owned)
           /\ Task \in TasksIn(nblocks) /\ Owned(Task) \cap owned = {}
           /\ cur \notin owned /\ cur \notin Owned(Task)
           /\ Function(instrs, nblocks, owned \cup Owned(Task) \cup {cur})
           /\ nblocks \in Nat /\ instrs \in Seq(Built)
           /\ cur \in 1 .. nblocks /\ owned \subseteq 1 .. nblocks
           /\ Guided(tree, name, instrs, owned \cup Owned(Task) \cup {cur}, g)
           /\ g.fin[cur] = p /\ p \in Pos(tree) /\ q \in Pos(tree)
           /\ TaskFits(g, Task, p, q) /\ AheadFrom(tree, g, rest, q)
           /\ Entered(tree, name, instrs, g)
  BY TracedTask
<1>2. Midway(instrs, nblocks, owned \cup Owned(Task) \cup {cur}, g, rest, owned, q)
  BY <1>1 DEF Midway
<1> QED BY <1>1, <1>2

\* h has block b in addition, at position p.
Grown(g, h, nb, b, p) ==
  /\ h.start[b] = p /\ h.fin[b] = p
  /\ \A x \in 1 .. nb : h.fin[x] = g.fin[x] /\ h.start[x] = g.start[x]

LEMMA MidwayBlock ==
  ASSUME Prepared, NEW s, NEW nb, NEW open, NEW g, NEW rest, NEW owned, NEW q,
         Midway(s, nb, open, g, rest, owned, q), NEW p \in Pos(tree), NEW b, b = nb + 1
  PROVE  \E h : Midway(s, b, open \cup {b}, h, rest, owned, q) /\ Grown(g, h, nb, b, p)
<1>1. nb \in Nat /\ nb >= 2 /\ s \in Seq(Built) /\ Len(s) \in Nat
  BY MidwayFacts
<1>2. PICK h : /\ Guided(tree, name, s, open \cup {b}, h)
               /\ Keeps(g, h, Len(s), nb) /\ h.start[b] = p /\ h.fin[b] = p
               /\ \A x \in 1 .. nb : h.fin[x] = g.fin[x]
  <2>1. Function(s, nb, open) /\ Guided(tree, name, s, open, g)
    BY DEF Midway
  <2>2. \E h : FreshBlock(s, nb, open, g, p, h)
    BY <2>1, GuidedBlock
  <2> QED BY <2>2 DEF FreshBlock
<1>3. Function(s, b, open \cup {b})
  <2>1. Function(s, nb + 1, open \cup (nb + 1 .. nb + 1))
    <3>1. 1 \in Nat
      OBVIOUS
    <3> QED BY <3>1, MoreBlocks DEF Midway
  <2>2. nb + 1 .. nb + 1 = {b}
    BY <1>1
  <2> QED BY <2>1, <2>2
<1>4. LeftToDo(rest, b, owned) /\ owned \subseteq 1 .. b
  <2>1. LeftToDo(rest, nb + 1, owned)
    BY <1>1, LeftMore DEF Midway
  <2>2. \A x \in 1 .. nb : x \in 1 .. b
    BY <1>1
  <2> QED BY <2>1, <2>2 DEF Midway
<1>5. AheadFrom(tree, h, rest, q)
  <2>1. LeftToDo(rest, nb, owned) /\ AheadFrom(tree, g, rest, q)
          /\ \A x \in owned : h.fin[x] = g.fin[x]
    BY <1>2 DEF Midway
  <2> QED BY <1>1, <1>2, <2>1, AheadKept
<1>6. Entered(tree, name, s, h)
  <2>1. nb >= 1 /\ Starts(s, s)
    BY <1>1, StartsSelf
  <2> QED BY <1>1, <1>2, <2>1, EnteredMore DEF Midway
<1>7. Midway(s, b, open \cup {b}, h, rest, owned, q)
  BY <1>2, <1>3, <1>4, <1>5, <1>6 DEF Midway
<1>8. \A x \in 1 .. nb : h.start[x] = g.start[x]
  BY <1>2 DEF Keeps
<1> QED BY <1>2, <1>7, <1>8 DEF Grown

LEMMA StartsJoin ==
  ASSUME NEW S, NEW s \in Seq(S), NEW c \in Seq(S)
  PROVE  Starts(s, s \o c)
<1>1. s \o c \in Seq(S) /\ Len(s \o c) = Len(s) + Len(c)
        /\ \A i \in 1 .. Len(s) : (s \o c)[i] = s[i]
  OBVIOUS
<1> QED BY <1>1 DEF Starts

\* c, which goes from p to r, is built in block b, and the position after it is e.
Coding(s, nb, open, g, rest, owned, q, b, c, of, p, r, e, less, z) ==
  /\ Midway(s, nb, open, g, rest, owned, q) /\ b \in open /\ b \notin owned
  /\ GoodCode(c, Len(s)) /\ Map(of) /\ p = g.fin[b]
  /\ PieceTo(tree, name, of, g.start, c, p, Len(s), r) /\ e \in Pos(tree) /\ Same(tree, r, e)
  /\ less \subseteq open /\ z = s \o In(b, c) /\ Function(z, nb, less)

\* h says what g says of the other blocks; position p is at the end of block b.
Onwards(g, h, nb, b, p) ==
  /\ h.fin[b] = p /\ \A x \in 1 .. nb : h.start[x] = g.start[x]
  /\ \A x \in 1 .. nb : x # b => h.fin[x] = g.fin[x]

LEMMA MidwayCode ==
  ASSUME Prepared, NEW s, NEW nb, NEW open, NEW g, NEW rest, NEW owned, NEW q, NEW b, NEW c, NEW of,
         NEW p, NEW r, NEW e, NEW less, NEW z,
         Coding(s, nb, open, g, rest, owned, q, b, c, of, p, r, e, less, z)
  PROVE  \E h : Midway(z, nb, less, h, rest, owned, q) /\ Onwards(g, h, nb, b, e)
<1>0. /\ Midway(s, nb, open, g, rest, owned, q) /\ b \in open /\ b \notin owned
      /\ GoodCode(c, Len(s)) /\ Map(of) /\ p = g.fin[b] /\ p \in Pos(tree)
      /\ PieceTo(tree, name, of, g.start, c, p, Len(s), r) /\ e \in Pos(tree)
      /\ Same(tree, r, e) /\ less \subseteq open /\ z = s \o In(b, c) /\ Function(z, nb, less)
  <2>1. /\ Midway(s, nb, open, g, rest, owned, q) /\ b \in open /\ b \notin owned
        /\ GoodCode(c, Len(s)) /\ Map(of) /\ p = g.fin[b]
        /\ PieceTo(tree, name, of, g.start, c, p, Len(s), r) /\ e \in Pos(tree)
        /\ Same(tree, r, e) /\ less \subseteq open /\ z = s \o In(b, c) /\ Function(z, nb, less)
    BY DEF Coding
  <2>2. open \subseteq Nat /\ \A x \in Nat : g.fin[x] \in Pos(tree)
    BY <2>1, MidwayFacts
  <2> QED BY <2>1, <2>2
<1>1. nb \in Nat /\ nb >= 2 /\ s \in Seq(Built) /\ Len(s) \in Nat /\ b \in Nat
  BY <1>0, MidwayFacts
<1>2. PICK h : /\ Guided(tree, name, z, open, h)
               /\ Keeps(g, h, Len(s), nb)
               /\ h.fin[b] = e /\ \A x \in Nat \ {b} : h.fin[x] = g.fin[x]
  <2>1. Piece(tree, name, of, g.start, c, p, Len(s)) /\ Len(c) >= 1
        /\ Same(tree, Post(c[Len(c)], p), e)
    BY <1>0 DEF PieceTo
  <2>2. Function(s, nb, open) /\ Guided(tree, name, s, open, g)
    BY <1>0 DEF Midway
  <2> QED BY <1>0, <1>1, <2>1, <2>2, GuidedCode
<1>3. Guided(tree, name, z, less, h)
  BY <1>0, <1>2, GuidedLess
<1>4. \A x \in 1 .. nb : x # b => h.fin[x] = g.fin[x]
  BY <1>1, <1>2
<1>5. AheadFrom(tree, h, rest, q)
  <2>1. LeftToDo(rest, nb, owned) /\ AheadFrom(tree, g, rest, q)
          /\ \A x \in owned : h.fin[x] = g.fin[x]
    BY <1>0, <1>4 DEF Midway
  <2> QED BY <1>1, <1>2, <2>1, AheadKept
<1>6. Entered(tree, name, z, h)
  <2>1. In(b, c) \in Seq(Built)
    BY <1>0, <1>1, InFacts DEF GoodCode
  <2>2. Starts(s, z) /\ z \in Seq(Built)
    BY <1>0, <1>1, <2>1, StartsJoin
  <2>3. nb >= 1
    BY <1>1
  <2> QED BY <1>0, <1>1, <1>2, <2>2, <2>3, EnteredMore DEF Midway
<1>7. Midway(z, nb, less, h, rest, owned, q)
  BY <1>0, <1>3, <1>5, <1>6 DEF Midway
<1>8. \A x \in 1 .. nb : h.start[x] = g.start[x]
  BY <1>2 DEF Keeps
<1> QED BY <1>2, <1>4, <1>7, <1>8 DEF Onwards

\* The position at the end of b may be any that is the same.
LEMMA MidwayFin ==
  ASSUME Prepared, NEW s, NEW nb, NEW open, NEW g, NEW rest, NEW owned, NEW q,
         Midway(s, nb, open, g, rest, owned, q), NEW b \in open, b \notin owned,
         NEW p \in Pos(tree), Same(tree, g.fin[b], p)
  PROVE  \E h : /\ Midway(s, nb, open, h, rest, owned, q)
                /\ h.fin[b] = p /\ \A x \in 1 .. nb : h.start[x] = g.start[x]
                /\ \A x \in 1 .. nb : x # b => h.fin[x] = g.fin[x]
<1>1. nb \in Nat /\ nb >= 2 /\ s \in Seq(Built) /\ Len(s) \in Nat /\ b \in Nat
  BY MidwayFacts
<1>2. PICK h : /\ Guided(tree, name, s, open, h)
               /\ Keeps(g, h, Len(s), nb)
               /\ h.fin[b] = p /\ \A x \in Nat \ {b} : h.fin[x] = g.fin[x]
  BY GuidedFin DEF Midway
<1>4. \A x \in 1 .. nb : x # b => h.fin[x] = g.fin[x]
  BY <1>1, <1>2
<1>5. AheadFrom(tree, h, rest, q)
  <2>1. LeftToDo(rest, nb, owned) /\ AheadFrom(tree, g, rest, q)
          /\ \A x \in owned : h.fin[x] = g.fin[x]
    BY <1>4 DEF Midway
  <2> QED BY <1>1, <1>2, <2>1, AheadKept
<1>6. Entered(tree, name, s, h)
  <2>1. nb >= 1 /\ Starts(s, s)
    BY <1>1, StartsSelf
  <2> QED BY <1>1, <1>2, <2>1, EnteredMore DEF Midway
<1>7. Midway(s, nb, open, h, rest, owned, q)
  BY <1>2, <1>5, <1>6 DEF Midway
<1>8. \A x \in 1 .. nb : h.start[x] = g.start[x]
  BY <1>2 DEF Keeps
<1> QED BY <1>2, <1>4, <1>7, <1>8

\* One more task to do.
LEMMA MidwayTask ==
  ASSUME NEW s, NEW nb, NEW open, NEW g, NEW rest, NEW owned, NEW q,
         Midway(s, nb, open, g, rest, owned, q), NEW task \in TasksIn(nb),
         Owned(task) \cap owned = {}, NEW p \in Pos(tree), TaskFits(g, task, p, q)
  PROVE  Midway(s, nb, open, g, <<task>> \o rest, owned \cup Owned(task), p)
<1>1. nb \in Nat
  BY MidwayFacts
<1>2. LeftToDo(<<task>> \o rest, nb, owned \cup Owned(task))
  BY <1>1, LeftCons DEF Midway
<1>3. Owned(task) \subseteq 1 .. nb
  BY <1>1, TaskKinds
<1>4. rest \in Seq(TasksIn(nb))
  BY DEF Midway, LeftToDo
<1>5. AheadFrom(tree, g, <<task>> \o rest, p)
  BY <1>4, AheadCons DEF Midway
<1> QED BY <1>2, <1>3, <1>5 DEF Midway

LEMMA MidwayEnd ==
  ASSUME NEW code, NEW blocks, NEW next, NEW tasks, Lower(code, blocks, next, tasks),
         NEW s, s = instrs \o code, NEW w, w = tasks \o Tail(work), NEW nb, NEW owned, NEW h,
         NEW q, Midway(s, nb, owned \cup {next}, h, w, owned, q), h.fin[next] = q
  PROVE  Traced(tree, name, instrs, cur, work)'
BY TracedTo DEF Midway

\* Statements to do, one after the other.
LEMMA MidwayStmt ==
  ASSUME Prepared, NEW s, NEW nb, NEW open, NEW g, NEW rest, NEW owned, NEW q,
         Midway(s, nb, open, g, rest, owned, q), NEW n \in StmtNodes
  PROVE  Midway(s, nb, open, g, <<Stmt(n)>> \o rest, owned, <<n>> \o q)
<1>1. q \in Pos(tree)
  BY DEF Midway
<1>2. <<n>> \o q \in Pos(tree)
  BY <1>1, PosFacts DEF Prepared
<1>3. PICK task : task = Stmt(n)
  OBVIOUS
<1>4. task \in TasksIn(nb) /\ Owned(task) = {} /\ task[1] = "stmt" /\ task[2] = n
  BY <1>3 DEF Stmt, TasksIn, Owned
<1>5. TaskFits(g, task, <<n>> \o q, q)
  BY <1>4 DEF TaskFits
<1>6. Midway(s, nb, open, g, <<task>> \o rest, owned \cup Owned(task), <<n>> \o q)
  BY <1>2, <1>4, <1>5, MidwayTask
<1> QED BY <1>3, <1>4, <1>6

\* A step that leaves no tasks behind.
LEMMA MidwayDone ==
  ASSUME NEW code, NEW blocks, NEW next, Lower(code, blocks, next, <<>>),
         NEW s, s = instrs \o code, NEW nb, NEW owned, NEW h,
         NEW q, Midway(s, nb, owned \cup {next}, h, Tail(work), owned, q), h.fin[next] = q
  PROVE  Traced(tree, name, instrs, cur, work)'
<1>1. PICK w : w = <<>> \o Tail(work)
  OBVIOUS
<1>2. w = Tail(work)
  <2>1. Tail(work) \in Seq(TasksIn(nb))
    BY DEF Midway, LeftToDo
  <2> QED BY <1>1, <2>1
<1>3. PICK tasks : tasks = <<>>
  OBVIOUS
<1>4. Lower(code, blocks, next, tasks) /\ w = tasks \o Tail(work)
  BY <1>1, <1>3
<1>5. Midway(s, nb, owned \cup {next}, h, w, owned, q)
  BY <1>2
<1> QED BY <1>4, <1>5, MidwayEnd

AtStatement(kind, owned, g, p, q, n, k, nb) ==
  /\ Midway(instrs, nb, owned \cup {cur}, g, Tail(work), owned, q)
  /\ n = Task[2] /\ n \in StmtNodes /\ tree[n].kind = kind
  /\ cur \notin owned /\ cur \in 1 .. nb /\ cur \in Nat
  /\ p = g.fin[cur] /\ p \in Pos(tree) /\ p # <<>> /\ Head(p) = n
  /\ q = Tail(p) /\ q \in Pos(tree)
  /\ k \in Nat /\ k = Len(instrs) /\ nb \in Nat /\ nb >= 2 /\ nb = nblocks
  /\ instrs \in Seq(Built) /\ Function(instrs, nb, owned \cup {cur})

LEMMA AtStmt ==
  ASSUME Prepared, PartWay(instrs, nblocks, cur, work), Traced(tree, name, instrs, cur, work),
         NEW kind, Lowering(kind)
  PROVE  \E owned, g, p, q, n, k, nb :
           AtStatement(kind, owned, g, p, q, n, k, nb)
<1>1. work # <<>> /\ Task[1] = "stmt" /\ tree[Task[2]].kind = kind
  BY DEF Lowering
<1>2. PICK owned, g, p, q :
           /\ Midway(instrs, nblocks, owned \cup Owned(Task) \cup {cur}, g, Tail(work), owned, q)
           /\ Task \in TasksIn(nblocks) /\ cur \notin owned /\ cur \in 1 .. nblocks
           /\ g.fin[cur] = p /\ p \in Pos(tree) /\ TaskFits(g, Task, p, q)
  BY <1>1, MidwayStart
<1>3. nblocks \in Nat /\ nblocks >= 2 /\ instrs \in Seq(Built) /\ Len(instrs) \in Nat /\ cur \in Nat
  BY <1>2, MidwayFacts
<1>4. Task[2] \in StmtNodes /\ Owned(Task) = {}
  BY <1>1, <1>2, <1>3, TaskKinds
<1>5. Midway(instrs, nblocks, owned \cup {cur}, g, Tail(work), owned, q)
  <2>1. owned \cup Owned(Task) \cup {cur} = owned \cup {cur}
    BY <1>4
  <2> QED BY <1>2, <2>1
<1>6. q \in Pos(tree) /\ Function(instrs, nblocks, owned \cup {cur})
  BY <1>5 DEF Midway
<1>7. p = <<Task[2]>> \o q
  BY <1>1, <1>2 DEF TaskFits
<1>8. p # <<>> /\ Head(p) = Task[2] /\ Tail(p) = q
  BY <1>4, <1>6, <1>7, PosFacts DEF Prepared
<1>9. PICK n, k, nb : n = Task[2] /\ k = Len(instrs) /\ nb = nblocks
  OBVIOUS
<1>10. AtStatement(kind, owned, g, p, q, n, k, nb)
  BY <1>1, <1>2, <1>3, <1>4, <1>5, <1>6, <1>8, <1>9 DEF AtStatement
<1> QED BY <1>10

-----------------------------------------------------------------------------
(***************************************************************************)
(* Each lowering step continues the guide.                                 *)
(***************************************************************************)

LEMMA AsgnGood ==
  ASSUME Prepared, NEW n \in StmtNodes, tree[n].kind = "asgn", NEW k \in Nat,
         NEW e, e = genIRExpr[Kids(n)[2]][k], NEW x, x = name[Kids(n)[1]],
         NEW c, c = Append(e.code, Store(e.val, x))
  PROVE  GoodCode(c, k) /\ Straight(c)
<1>1. /\ Kids(n)[1] \in Uses
      /\ Kids(n)[2] \in Exprs /\ tree[Kids(n)[2]].kind \in Terms \cup {"read"}
  BY StmtFacts DEF Prepared
<1>2. x \in Allocas
  BY <1>1, NameFacts
<1>3. CASE tree[Kids(n)[2]].kind \in Terms
  <2>1. IsTerm(e, k)
    BY <1>1, <1>3, TermsCode DEF TermNodes
  <2> QED BY <1>2, <2>1, StoreGood
<1>4. CASE tree[Kids(n)[2]].kind = "read"
  <2>1. PICK one : one = <<Instr("read", <<>>, <<"">>, <<>>)>>
    BY Zenon
  <2>2. genIRExpr[Kids(n)[2]][k] = [code |-> one, val |-> k + 1]
    BY <1>1, <1>4, <2>1, ReadCode, Zenon
  <2>3. e = [code |-> one, val |-> k + 1]
    BY <2>2
  <2>4. e.code = one /\ e.val = k + 1
    BY <2>3
  <2>5. c = Append(<<Instr("read", <<>>, <<"">>, <<>>)>>, Store(k + 1, x))
    BY <2>1, <2>4, Zenon
  <2> QED BY <1>2, <2>5, ReadGood, Zenon
<1> QED BY <1>1, <1>3, <1>4

LEMMA TracedAsgn ==
  ASSUME Prepared, PartWay(instrs, nblocks, cur, work), Traced(tree, name, instrs, cur, work),
         LowerAsgn
  PROVE  Traced(tree, name, instrs, cur, work)'
<1>1. Lowering("asgn")
  BY DEF LowerAsgn
<1>2. PICK owned, g, p, q, n, k, nb : AtStatement("asgn", owned, g, p, q, n, k, nb)
  BY <1>1, AtStmt, Zenon
<1>3. PICK e, x, c : /\ e = genIRExpr[Kids(n)[2]][k] /\ x = name[Kids(n)[1]]
                     /\ Adds(c, e.code, Store(e.val, x))
  BY Zenon DEF Adds
<1>4. GoodCode(c, k) /\ Straight(c)
  BY <1>2, <1>3, AsgnGood, Zenon DEF AtStatement, Adds
<1>5. PICK of, start : start = g.start /\ Map(of) /\ PieceTo(tree, name, of, start, c, p, k, q)
  BY <1>2, <1>3, PieceAsgn DEF AtStatement
<1>6. PICK z : z = instrs \o In(cur, c)
  OBVIOUS
<1>7. Function(z, nb, owned \cup {cur})
  BY <1>2, <1>4, <1>6, ExtendedStraight DEF AtStatement
<1>8. Coding(instrs, nb, owned \cup {cur}, g, Tail(work), owned, q, cur, c, of, p, q, q,
             owned \cup {cur}, z)
  <2>1. Same(tree, q, q)
    BY <1>2, SameSelf DEF AtStatement
  <2> QED BY <1>2, <1>4, <1>5, <1>6, <1>7, <2>1 DEF Coding, AtStatement
<1>9. PICK h : Midway(z, nb, owned \cup {cur}, h, Tail(work), owned, q) /\ h.fin[cur] = q
  BY <1>8, MidwayCode DEF Onwards
<1>10. Lower(In(cur, c), 0, cur, <<>>)
  <2>1. n = Task[2] /\ k = Len(instrs) /\ k + 0 = k
    BY <1>2 DEF AtStatement
  <2>2. Value(2, 0) = e /\ name[Part(1)] = x
    BY <1>3, <2>1 DEF Value, Part
  <2> QED BY <1>3, <2>2 DEF LowerAsgn, Adds
<1> QED BY <1>6, <1>9, <1>10, MidwayDone

LEMMA TracedPrint ==
  ASSUME Prepared, PartWay(instrs, nblocks, cur, work), Traced(tree, name, instrs, cur, work),
         LowerPrint
  PROVE  Traced(tree, name, instrs, cur, work)'
<1>1. Lowering("print")
  BY Zenon DEF LowerPrint
<1>2. PICK owned, g, p, q, n, k, nb : AtStatement("print", owned, g, p, q, n, k, nb)
  BY <1>1, AtStmt, Zenon
<1>3. PICK e, c : /\ e = genIRExpr[Kids(n)[1]][k]
                  /\ Adds(c, e.code, Instr("print", <<e.val>>, <<"">>, <<>>))
  BY Zenon DEF Adds
<1>4. GoodCode(c, k) /\ Straight(c)
  <2>1. Kids(n)[1] \in TermNodes
    BY <1>2, StmtFacts DEF Prepared, AtStatement
  <2>2. IsTerm(e, k)
    BY <1>2, <1>3, <2>1, TermsCode, Zenon DEF AtStatement
  <2> QED BY <1>2, <1>3, <2>2, PrintGood, Zenon DEF AtStatement, Adds
<1>5. PICK of, start : start = g.start /\ Map(of) /\ PieceTo(tree, name, of, start, c, p, k, q)
  BY <1>2, <1>3, PiecePrint, Zenon DEF AtStatement
<1>6. PICK z : z = instrs \o In(cur, c)
  OBVIOUS
<1>7. Function(z, nb, owned \cup {cur})
  BY <1>2, <1>4, <1>6, ExtendedStraight DEF AtStatement
<1>8. Coding(instrs, nb, owned \cup {cur}, g, Tail(work), owned, q, cur, c, of, p, q, q,
             owned \cup {cur}, z)
  <2>1. Same(tree, q, q)
    BY <1>2, SameSelf DEF AtStatement
  <2> QED BY <1>2, <1>4, <1>5, <1>6, <1>7, <2>1 DEF Coding, AtStatement
<1>9. PICK h : Midway(z, nb, owned \cup {cur}, h, Tail(work), owned, q) /\ h.fin[cur] = q
  BY <1>8, MidwayCode DEF Onwards
<1>10. Lower(In(cur, c), 0, cur, <<>>)
  <2>1. Value(1, 0) = e
    <3>1. n = Task[2] /\ k = Len(instrs) /\ k + 0 = k
      BY <1>2 DEF AtStatement
    <3> QED BY <1>3, <3>1, Zenon DEF Value, Part
  <2> QED BY <1>3, <2>1, Zenon DEF LowerPrint, Adds
<1> QED BY <1>6, <1>9, <1>10, MidwayDone

LEMMA NoCodeMidway ==
  ASSUME NEW nb, NEW open, NEW g, NEW rest, NEW owned, NEW q,
         Midway(instrs, nb, open, g, rest, owned, q), NEW z, z = instrs \o <<>>
  PROVE  Midway(z, nb, open, g, rest, owned, q)
<1>1. instrs \in Seq(Built)
  BY MidwayFacts
<1>2. z = instrs
  BY <1>1
<1> QED BY <1>2

LEMMA TracedDecl ==
  ASSUME Prepared, PartWay(instrs, nblocks, cur, work), Traced(tree, name, instrs, cur, work),
         LowerDecl
  PROVE  Traced(tree, name, instrs, cur, work)'
<1>1. Lowering("decl")
  BY DEF LowerDecl
<1>2. PICK owned, g, p, q, n, k, nb : AtStatement("decl", owned, g, p, q, n, k, nb)
  BY <1>1, AtStmt
<1>3. Same(tree, p, q)
  <2>1. Silent(tree, p)
    BY <1>2 DEF Silent, AtStatement
  <2>2. Onto(tree, p) = q
    <3>1. Onto(tree, p) = <<>> \o Tail(p)
      BY <1>2 DEF Onto, AtStatement
    <3>2. Tail(p) \in Seq(StmtNodes)
      BY <1>2, PosFacts DEF Prepared, AtStatement
    <3> QED BY <1>2, <3>1, <3>2 DEF AtStatement
  <2> QED BY <1>2, <2>1, <2>2, SameFacts DEF Prepared, AtStatement
<1>4. PICK h : Midway(instrs, nb, owned \cup {cur}, h, Tail(work), owned, q) /\ h.fin[cur] = q
  BY <1>2, <1>3, MidwayFin DEF AtStatement
<1>5. PICK z : z = instrs \o <<>>
  OBVIOUS
<1>6. Midway(z, nb, owned \cup {cur}, h, Tail(work), owned, q)
  BY <1>4, <1>5, NoCodeMidway
<1>7. PICK code : code = <<>>
  OBVIOUS
<1>8. Lower(code, 0, cur, <<>>) /\ z = instrs \o code
  BY <1>5, <1>7 DEF LowerDecl
<1> QED BY <1>4, <1>6, <1>8, MidwayDone

\* Block b ends with a branch to block t, which starts where b ends.
Branching(s, nb, open, g, rest, owned, q, b, t, p, less, z) ==
  /\ Midway(s, nb, open, g, rest, owned, q) /\ b \in open /\ b \notin owned
  /\ t \in 1 .. nb /\ t > retBB /\ p = g.fin[b] /\ g.start[t] = p
  /\ less = open \ {b} /\ z = s \o In(b, <<Br(t)>>)

LEMMA MidwayBranch ==
  ASSUME Prepared, NEW s, NEW nb, NEW open, NEW g, NEW rest, NEW owned, NEW q, NEW b, NEW t,
         NEW p, NEW less, NEW z, Branching(s, nb, open, g, rest, owned, q, b, t, p, less, z)
  PROVE  \E h : Midway(z, nb, less, h, rest, owned, q) /\ Onwards(g, h, nb, b, p)
<1>1. /\ Midway(s, nb, open, g, rest, owned, q) /\ b \in open /\ b \notin owned
      /\ t \in 1 .. nb /\ t > retBB /\ p = g.fin[b] /\ g.start[t] = p
      /\ less = open \ {b} /\ z = s \o In(b, <<Br(t)>>)
  BY DEF Branching
<1>2. /\ nb \in Nat /\ open \subseteq 1 .. nb /\ s \in Seq(Built) /\ Len(s) \in Nat
      /\ \A x \in Nat : g.fin[x] \in Pos(tree)
  BY <1>1, MidwayFacts
<1>3. t \in Nat /\ b \in Nat /\ p \in Pos(tree)
  BY <1>1, <1>2
<1>4. PICK c : c = <<Br(t)>>
  OBVIOUS
<1>5. PICK k \in Nat : k = Len(s)
  BY <1>2
<1>6. GoodCode(c, k)
  BY <1>3, <1>4, BrGood
<1>7. Same(tree, p, p)
  BY <1>3, SameSelf
<1>8. PICK start : start = g.start
  OBVIOUS
<1>9. Same(tree, start[t], p)
  BY <1>1, <1>7, <1>8
<1>10. PICK of : Map(of) /\ PieceTo(tree, name, of, start, c, p, k, p)
  BY <1>1, <1>3, <1>4, <1>9, PieceBr
<1>11. Function(z, nb, less)
  BY <1>1, ExtendedBr DEF Midway
<1>12. Coding(s, nb, open, g, rest, owned, q, b, c, of, p, p, p, less, z)
  BY <1>1, <1>3, <1>4, <1>5, <1>6, <1>7, <1>8, <1>10, <1>11 DEF Coding
<1> QED BY <1>12, MidwayCode

AtClosing(kind, owned, all, g, p, q, k, nb) ==
  /\ Midway(instrs, nb, all, g, Tail(work), owned, q)
  /\ all = owned \cup Owned(Task) \cup {cur}
  /\ Task \in TasksIn(nb) /\ Task[1] = kind /\ TaskFits(g, Task, p, q)
  /\ Owned(Task) \cap owned = {} /\ cur \notin Owned(Task)
  /\ cur \notin owned /\ cur \in 1 .. nb /\ cur \in Nat
  /\ p = g.fin[cur] /\ p \in Pos(tree) /\ q \in Pos(tree)
  /\ k \in Nat /\ k = Len(instrs) /\ nb \in Nat /\ nb >= 2 /\ nb = nblocks
  /\ instrs \in Seq(Built)

LEMMA AtClose ==
  ASSUME PartWay(instrs, nblocks, cur, work), Traced(tree, name, instrs, cur, work),
         NEW kind, Closing(kind)
  PROVE  \E owned, all, g, p, q, k, nb : AtClosing(kind, owned, all, g, p, q, k, nb)
<1>1. work # <<>> /\ Task[1] = kind
  BY DEF Closing
<1>2. PICK owned, g, p, q :
           /\ Midway(instrs, nblocks, owned \cup Owned(Task) \cup {cur}, g, Tail(work), owned, q)
           /\ Task \in TasksIn(nblocks) /\ Owned(Task) \cap owned = {}
           /\ cur \notin owned /\ cur \notin Owned(Task) /\ cur \in 1 .. nblocks
           /\ g.fin[cur] = p /\ p \in Pos(tree) /\ TaskFits(g, Task, p, q)
  BY <1>1, MidwayStart
<1>3. nblocks \in Nat /\ nblocks >= 2 /\ instrs \in Seq(Built) /\ Len(instrs) \in Nat /\ cur \in Nat
  BY <1>2, MidwayFacts
<1>4. q \in Pos(tree)
  BY <1>2 DEF Midway
<1>5. PICK k, nb, all : k = Len(instrs) /\ nb = nblocks /\ all = owned \cup Owned(Task) \cup {cur}
  OBVIOUS
<1>6. AtClosing(kind, owned, all, g, p, q, k, nb)
  BY <1>1, <1>2, <1>3, <1>4, <1>5 DEF AtClosing
<1> QED BY <1>6

LEMMA TracedEndWhile ==
  ASSUME Prepared, PartWay(instrs, nblocks, cur, work), Traced(tree, name, instrs, cur, work),
         EndWhile
  PROVE  Traced(tree, name, instrs, cur, work)'
<1>1. PICK owned, all, g, p, q, k, nb : AtClosing("loop", owned, all, g, p, q, k, nb)
  BY AtClose DEF EndWhile
<1>2. PICK t, f : t = Task[2] /\ f = Task[3]
  OBVIOUS
<1>3. t \in 1 .. nb /\ Owned(Task) = {f} /\ t > retBB /\ g.start[t] = p /\ g.fin[f] = q
  BY <1>1, <1>2, TaskKinds DEF AtClosing, TaskFits
<1>4. PICK z, less : z = instrs \o In(cur, <<Br(t)>>) /\ less = all \ {cur}
  OBVIOUS
<1>5. Branching(instrs, nb, all, g, Tail(work), owned, q, cur, t, p, less, z)
  BY <1>1, <1>3, <1>4 DEF AtClosing, Branching
<1>6. PICK h : Midway(z, nb, less, h, Tail(work), owned, q) /\ Onwards(g, h, nb, cur, p)
  BY <1>5, MidwayBranch
<1>7. less = owned \cup {f} /\ f # cur /\ f \in 1 .. nb
  <2>1. Owned(Task) \subseteq 1 .. nb
    BY <1>1, TaskKinds DEF AtClosing
  <2> QED BY <1>1, <1>3, <1>4, <2>1 DEF AtClosing
<1>8. h.fin[f] = q
  BY <1>3, <1>6, <1>7 DEF Onwards
<1>9. Lower(In(cur, <<Br(t)>>), 0, f, <<>>)
  BY <1>2 DEF EndWhile
<1>10. Midway(z, nb, owned \cup {f}, h, Tail(work), owned, q)
  BY <1>6, <1>7
<1> QED BY <1>4, <1>8, <1>9, <1>10, MidwayDone

LEMMA TracedEndIf ==
  ASSUME Prepared, PartWay(instrs, nblocks, cur, work), Traced(tree, name, instrs, cur, work),
         EndIf
  PROVE  Traced(tree, name, instrs, cur, work)'
<1>1. PICK owned, all, g, p, q, k, nb : AtClosing("endif", owned, all, g, p, q, k, nb)
  BY AtClose DEF EndIf
<1>2. PICK f : f = Task[2]
  OBVIOUS
<1>3. f \in 1 .. nb /\ Owned(Task) = {f} /\ f > retBB /\ g.start[f] = p /\ g.fin[f] = q
  BY <1>1, <1>2, TaskKinds DEF AtClosing, TaskFits
<1>4. PICK z, less : z = instrs \o In(cur, <<Br(f)>>) /\ less = all \ {cur}
  OBVIOUS
<1>5. Branching(instrs, nb, all, g, Tail(work), owned, q, cur, f, p, less, z)
  BY <1>1, <1>3, <1>4 DEF AtClosing, Branching
<1>6. PICK h : Midway(z, nb, less, h, Tail(work), owned, q) /\ Onwards(g, h, nb, cur, p)
  BY <1>5, MidwayBranch
<1>7. less = owned \cup {f} /\ f # cur
  BY <1>1, <1>3, <1>4 DEF AtClosing
<1>8. h.fin[f] = q
  BY <1>3, <1>6, <1>7 DEF Onwards
<1>9. Lower(In(cur, <<Br(f)>>), 0, f, <<>>)
  BY <1>2 DEF EndIf
<1>10. Midway(z, nb, owned \cup {f}, h, Tail(work), owned, q)
  BY <1>6, <1>7
<1> QED BY <1>4, <1>8, <1>9, <1>10, MidwayDone

LEMMA JoinTwo ==
  ASSUME Prepared, NEW x, NEW y, x \in Seq(Built), y \in Seq(Built)
  PROVE  instrs \in Seq(Built) => instrs \o (x \o y) = (instrs \o x) \o y
BY ConcatAssociative

LEMMA BrIn ==
  ASSUME Prepared, NEW b \in Nat, NEW t \in Nat
  PROVE  In(b, <<Br(t)>>) \in Seq(Built) /\ Len(In(b, <<Br(t)>>)) = 1
<1>1. Br(t) \in Built
  <2>1. 0 \in Int /\ ret_ref \in Allocas
    BY DEF Allocas
  <2> QED BY <2>1, BuiltStmt
<1>2. <<Br(t)>> \in Seq(Built) /\ Len(<<Br(t)>>) = 1
  BY <1>1
<1>3. PICK one \in Seq(Built) : one = <<Br(t)>> /\ Len(one) = 1
  BY <1>2
<1> QED BY <1>3, InFacts

LEMMA TracedEndElse ==
  ASSUME Prepared, PartWay(instrs, nblocks, cur, work), Traced(tree, name, instrs, cur, work),
         EndElse
  PROVE  Traced(tree, name, instrs, cur, work)'
<1>1. PICK owned, all, g, p, q, k, nb : AtClosing("join", owned, all, g, p, q, k, nb)
  BY AtClose DEF EndElse
<1>2. PICK f : f = Task[2]
  OBVIOUS
<1>3. f \in 1 .. nb /\ f \in Nat /\ Owned(Task) = {f} /\ p = q /\ g.fin[f] = q
  BY <1>1, <1>2, TaskKinds DEF AtClosing, TaskFits
<1>4. PICK x \in Nat : x = nb + 1 /\ x \notin 1 .. nb /\ 1 .. nb \subseteq 1 .. x /\ x \in 1 .. x
        /\ x > retBB
  BY <1>1 DEF AtClosing, retBB
<1>5. f # cur /\ f # x /\ cur # x /\ cur \in 1 .. x /\ f \in 1 .. x /\ f \notin owned
        /\ cur \notin owned
      /\ x \notin owned /\ all = owned \cup {f, cur}
  <2>1. owned \subseteq 1 .. nb
    BY <1>1 DEF AtClosing, Midway
  <2> QED BY <1>1, <1>3, <1>4, <2>1 DEF AtClosing
<1>6. PICK g1 : Midway(instrs, x, all \cup {x}, g1, Tail(work), owned, q) /\ Grown(g, g1, nb, x, q)
  <2>1. Midway(instrs, nb, all, g, Tail(work), owned, q) /\ q \in Pos(tree)
    BY <1>1 DEF AtClosing
  <2> QED BY <1>4, <2>1, MidwayBlock
<1>7. PICK a, b, z, z2, less, less2 :
        /\ a = In(f, <<Br(x)>>) /\ b = In(cur, <<Br(x)>>) /\ z = instrs \o a /\ z2 = z \o b
        /\ less = (all \cup {x}) \ {f} /\ less2 = less \ {cur}
  OBVIOUS
<1>8. Branching(instrs, x, all \cup {x}, g1, Tail(work), owned, q, f, x, q, less, z)
  BY <1>3, <1>4, <1>5, <1>6, <1>7 DEF Branching, Grown
<1>9. PICK g2 : Midway(z, x, less, g2, Tail(work), owned, q) /\ Onwards(g1, g2, x, f, q)
  BY <1>8, MidwayBranch
<1>10. g2.start[x] = q /\ g2.fin[x] = q /\ g2.fin[cur] = q
  <2>1. g.fin[cur] = q /\ cur \in 1 .. nb
    BY <1>1, <1>3 DEF AtClosing
  <2> QED BY <1>4, <1>5, <1>6, <1>9, <2>1 DEF Onwards, Grown
<1>11. Branching(z, x, less, g2, Tail(work), owned, q, cur, x, q, less2, z2)
  BY <1>4, <1>5, <1>7, <1>9, <1>10 DEF Branching
<1>12. PICK h : Midway(z2, x, less2, h, Tail(work), owned, q) /\ Onwards(g2, h, x, cur, q)
  BY <1>11, MidwayBranch
<1>13. h.fin[x] = q
  BY <1>4, <1>5, <1>10, <1>12 DEF Onwards
<1>14. less2 = owned \cup {x}
  BY <1>5, <1>7
<1>15. Lower(a \o b, 1, x, <<>>)
  BY <1>1, <1>2, <1>4, <1>7 DEF EndElse, AtClosing
<1>16. z2 = instrs \o (a \o b)
  <2>1. a \in Seq(Built) /\ b \in Seq(Built) /\ instrs \in Seq(Built)
    BY <1>1, <1>3, <1>4, <1>7, BrIn DEF AtClosing
  <2> QED BY <1>7, <2>1, JoinTwo
<1>17. Midway(z2, x, owned \cup {x}, h, Tail(work), owned, q)
  BY <1>12, <1>14
<1>18. PICK code : code = a \o b
  OBVIOUS
<1>19. Lower(code, 1, x, <<>>) /\ z2 = instrs \o code
  BY <1>15, <1>16, <1>18
<1> QED BY <1>13, <1>17, <1>19, MidwayDone

LEMMA TracedRet ==
  ASSUME Prepared, PartWay(instrs, nblocks, cur, work), Traced(tree, name, instrs, cur, work),
         LowerRet
  PROVE  Traced(tree, name, instrs, cur, work)'
<1>1. PICK owned, g, p, q, n, k, nb : AtStatement("ret", owned, g, p, q, n, k, nb)
  BY AtStmt DEF LowerRet
<1>2. PICK e, c : /\ e = genIRExpr[Kids(n)[1]][k]
                  /\ c = e.code \o <<Store(e.val, ret_ref), Br(retBB)>>
  OBVIOUS
<1>3. PICK m : m = Kids(n)[1] /\ m \in TermNodes /\ m \in Exprs
  BY <1>1, StmtFacts, Zenon DEF Prepared, AtStatement, TermNodes
<1>4. IsTerm(e, k)
  BY <1>1, <1>2, <1>3, TermsCode, Zenon DEF AtStatement
<1>5. PICK of : Map(of) /\ Coded(tree, name, e.code, k, of)
                /\ Names(tree, of, e.val, m, k + 1, k + Len(e.code) + 1)
  BY <1>1, <1>2, <1>3, MeansOf, Zenon DEF AtStatement
<1>6. ~Silent(tree, p)
  BY <1>1, NotSilent, Zenon DEF AtStatement
<1>7. PICK start : start = g.start
  BY Zenon
<1>8. PieceTo(tree, name, of, start, c, p, k, p) /\ GoodCode(c, k)
  <2>1. /\ p # <<>> /\ tree[Head(p)].kind = "ret" /\ k \in Nat
        /\ Names(tree, of, e.val, Kids(Head(p))[1], k + 1, k + Len(e.code) + 1)
    BY <1>1, <1>3, <1>5 DEF AtStatement
  <2> QED BY <1>2, <1>4, <1>5, <1>6, <2>1, PieceReturn, Zenon
<1>9. PICK x \in Nat : x = nb + 1 /\ x \notin 1 .. nb /\ 1 .. nb \subseteq 1 .. x /\ x \in 1 .. x
                       /\ retBB \in 1 .. x
  BY <1>1 DEF AtStatement, retBB
<1>10. /\ Midway(instrs, nb, owned \cup {cur}, g, Tail(work), owned, q)
       /\ p \in Pos(tree) /\ q \in Pos(tree) /\ p = g.fin[cur] /\ cur \in 1 .. nb /\ k = Len(instrs)
       /\ cur \notin owned /\ owned \subseteq 1 .. nb
  BY <1>1 DEF AtStatement, Midway
<1>11. PICK g1 : /\ Midway(instrs, x, owned \cup {cur} \cup {x}, g1, Tail(work), owned, q)
                 /\ Grown(g, g1, nb, x, q)
  BY <1>9, <1>10, MidwayBlock
<1>12. PICK z, less : z = instrs \o In(cur, c) /\ less = owned \cup {x}
  OBVIOUS
<1>13. less = (owned \cup {cur} \cup {x}) \ {cur} /\ cur # x
  BY <1>9, <1>10, <1>12
<1>14. Function(z, x, less)
  <2>1. Function(instrs, x, owned \cup {cur} \cup {x})
    BY <1>11 DEF Midway
  <2>2. IsTerm(e, Len(instrs)) /\ cur \in owned \cup {cur} \cup {x}
    BY <1>4, <1>10, Zenon
  <2>3. Function(instrs \o In(cur, c), x, (owned \cup {cur} \cup {x}) \ {cur})
    BY <1>2, <1>9, <2>1, <2>2, ExtendedRet
  <2> QED BY <1>12, <1>13, <2>3
<1>15. PICK begin : begin = g1.start
  BY Zenon
<1>16. PieceTo(tree, name, of, begin, c, p, k, p)
  <2>1. /\ p # <<>> /\ tree[Head(p)].kind = "ret" /\ k \in Nat
        /\ Names(tree, of, e.val, Kids(Head(p))[1], k + 1, k + Len(e.code) + 1)
    BY <1>1, <1>3, <1>5 DEF AtStatement
  <2> QED BY <1>2, <1>4, <1>5, <1>6, <2>1, PieceReturn, Zenon
<1>17. Same(tree, p, p)
  BY <1>10, SameSelf
<1>18. Coding(instrs, x, owned \cup {cur} \cup {x}, g1, Tail(work), owned, q, cur, c, of,
              p, p, p, less, z)
  BY <1>5, <1>8, <1>9, <1>10, <1>11, <1>12, <1>13, <1>14, <1>15, <1>16, <1>17 DEF Coding, Grown
<1>19. PICK h : Midway(z, x, less, h, Tail(work), owned, q) /\ Onwards(g1, h, x, cur, p)
  BY <1>18, MidwayCode
<1>20. h.fin[x] = q
  BY <1>9, <1>11, <1>13, <1>19 DEF Onwards, Grown
<1>21. Lower(In(cur, c), 1, x, <<>>)
  <2>1. Value(1, 0) = e
    <3>1. n = Task[2] /\ k = Len(instrs) /\ k + 0 = k
      BY <1>1 DEF AtStatement
    <3> QED BY <1>2, <3>1, Zenon DEF Value, Part
  <2> QED BY <1>1, <1>2, <1>9, <2>1, Zenon DEF LowerRet, AtStatement
<1>22. Midway(z, x, owned \cup {x}, h, Tail(work), owned, q)
  BY <1>12, <1>19
<1> QED BY <1>12, <1>20, <1>21, <1>22, MidwayDone

Put(n, p) == <<n>> \o p

\* A statement, and the task after it.
LEMMA MidwayTwo ==
  ASSUME Prepared, NEW s, NEW nb, NEW open, NEW g, NEW rest, NEW owned, NEW q,
         Midway(s, nb, open, g, rest, owned, q), NEW n \in StmtNodes, NEW t \in TasksIn(nb),
         Owned(t) \cap owned = {}, NEW p \in Pos(tree), TaskFits(g, t, p, q),
         NEW w, w = <<Stmt(n), t>> \o rest, NEW all, all = owned \cup Owned(t),
         NEW r, r = Put(n, p)
  PROVE  Midway(s, nb, open, g, w, all, r)
<1>1. PICK v : v = <<t>> \o rest
  OBVIOUS
<1>2. Midway(s, nb, open, g, v, all, p)
  BY <1>1, MidwayTask
<1>3. Midway(s, nb, open, g, <<Stmt(n)>> \o v, all, r)
  BY <1>2, MidwayStmt DEF Put
<1>4. PICK a : a = Stmt(n)
  OBVIOUS
<1>5. w = <<a>> \o v
  <2>1. rest \in Seq(TasksIn(nb)) /\ <<a>> \in Seq(TasksIn(nb)) /\ <<t>> \in Seq(TasksIn(nb))
    <3>1. a \in TasksIn(nb)
      BY <1>4 DEF Stmt, TasksIn
    <3>2. rest \in Seq(TasksIn(nb))
      BY DEF Midway, LeftToDo
    <3> QED BY <3>1, <3>2
  <2>2. <<a>> \o <<t>> = <<a, t>>
    BY Pairs
  <2>3. (<<a>> \o <<t>>) \o rest = <<a>> \o (<<t>> \o rest)
    BY <2>1, ConcatAssociative
  <2> QED BY <1>1, <1>4, <2>2, <2>3
<1> QED BY <1>3, <1>4, <1>5

LEMMA TracedElse ==
  ASSUME Prepared, PartWay(instrs, nblocks, cur, work), Traced(tree, name, instrs, cur, work),
         Else
  PROVE  Traced(tree, name, instrs, cur, work)'
<1>1. PICK owned, all, g, p, q, k, nb : AtClosing("else", owned, all, g, p, q, k, nb)
  BY AtClose DEF Else
<1>2. PICK f, n : f = Task[2] /\ n = Task[3]
  OBVIOUS
<1>3. f \in 1 .. nb /\ n \in StmtNodes /\ Owned(Task) = {f} /\ p = q /\ g.fin[f] = Put(n, q)
  BY <1>1, <1>2, TaskKinds DEF AtClosing, TaskFits, Put
<1>4. PICK t : t = <<"join", cur, 0>>
  OBVIOUS
<1>5. t \in TasksIn(nb) /\ Owned(t) = {cur} /\ TaskFits(g, t, q, q)
  <2>1. cur \in 1 .. nb /\ g.fin[cur] = q
    BY <1>1, <1>3 DEF AtClosing
  <2>2. t[1] = "join" /\ t[2] = cur
    BY <1>4
  <2>3. t \in TasksIn(nb)
    BY <1>4, <2>1 DEF TasksIn
  <2>4. Owned(t) = {cur}
    BY <2>2 DEF Owned
  <2> QED BY <2>1, <2>2, <2>3, <2>4 DEF TaskFits
<1>6. PICK w, more, r : w = <<Stmt(n), t>> \o Tail(work) /\ more = owned \cup Owned(t)
        /\ r = Put(n, q)
  OBVIOUS
<1>7. Midway(instrs, nb, all, g, w, more, r)
  <2>1. Midway(instrs, nb, all, g, Tail(work), owned, q) /\ q \in Pos(tree) /\ cur \notin owned
    BY <1>1 DEF AtClosing
  <2>2. Owned(t) \cap owned = {}
    BY <1>5, <2>1
  <2> QED BY <1>3, <1>5, <1>6, <2>1, <2>2, MidwayTwo
<1>8. all = more \cup {f} /\ g.fin[f] = r
  BY <1>1, <1>3, <1>5, <1>6 DEF AtClosing
<1>9. PICK code, tasks, z : code = <<>> /\ tasks = <<Stmt(n), t>> /\ z = instrs \o code
  OBVIOUS
<1>10. Lower(code, 0, f, tasks)
  BY <1>2, <1>4, <1>9 DEF Else
<1>11. Midway(z, nb, more \cup {f}, g, w, more, r)
  BY <1>7, <1>8, <1>9, NoCodeMidway
<1>12. w = tasks \o Tail(work)
  BY <1>6, <1>9
<1> QED BY <1>8, <1>9, <1>10, <1>11, <1>12, MidwayEnd

LEMMA HeadAndTail ==
  ASSUME NEW S, NEW v \in Seq(S), v # <<>>, NEW n, n = Head(v), NEW q, q = Tail(v),
         NEW l \in Nat, l = Len(q)
  PROVE  Len(v) = l + 1 /\ v[1] = n /\ \A i \in 1 .. l : v[i + 1] = q[i]
<1>1. PICK m \in Nat : m = Len(v) /\ m >= 1
  OBVIOUS
<1>2. Tail(v) \in Seq(S) /\ Len(Tail(v)) = m - 1 /\ \A i \in 1 .. m - 1 : Tail(v)[i] = v[i + 1]
  BY <1>1
<1>3. m = l + 1
  BY <1>1, <1>2
<1>4. \A i \in 1 .. l : v[i + 1] = q[i]
  BY <1>2, <1>3
<1> QED BY <1>1, <1>3, <1>4

\* Where a while or an if goes on.
LEMMA TakenFacts ==
  ASSUME Prepared, NEW p \in Pos(tree), p # <<>>, NEW n, n = Head(p), NEW q, q = Tail(p)
  PROVE  tree[n].kind = "while" => /\ Taken(tree, p, TRUE) = Put(Kids(n)[2], p)
                                   /\ Taken(tree, p, FALSE) = q
<1>1. n \in StmtNodes /\ q \in Seq(StmtNodes)
  BY PosFacts DEF Prepared
<1>2. <<>> \o q = q
  BY <1>1
<1>3. CASE tree[n].kind = "while"
  <2>1. Taken(tree, p, FALSE) = <<>> \o q
    BY <1>3 DEF Taken
  <2>2. PICK m \in StmtNodes : m = Kids(n)[2]
    BY <1>1, <1>3, StmtFacts DEF Prepared
  <2>3. Taken(tree, p, TRUE) = <<m, n>> \o q
    BY <1>3, <2>2 DEF Taken, Kids
  <2>4. p = <<n>> \o q
    <3>1. p \in Seq(StmtNodes)
      BY PosFacts DEF Prepared
    <3>2. PICK x : x = <<n>> \o q
      OBVIOUS
    <3>3. x \in Seq(StmtNodes) /\ x # <<>> /\ Head(x) = n /\ Tail(x) = q
      BY <1>1, <3>2, PosFacts DEF Prepared
    <3>4. Len(x) = Len(p) /\ \A i \in 1 .. Len(p) : x[i] = p[i]
      <4>1. PICK l \in Nat : l = Len(q)
        BY <1>1
      <4>2. Len(p) = l + 1 /\ p[1] = n /\ \A i \in 1 .. l : p[i + 1] = q[i]
        BY <3>1, <4>1, HeadAndTail
      <4>5. Len(x) = l + 1 /\ x[1] = n /\ \A i \in 1 .. l : x[i + 1] = q[i]
        <5>1. x \in Seq(StmtNodes) /\ x # <<>> /\ n = Head(x) /\ q = Tail(x) /\ l \in Nat
                /\ l = Len(q)
          BY <3>3, <4>1
        <5> QED BY ONLY <5>1, HeadAndTail
      <4>3. \A i \in 1 .. l + 1 : i = 1 \/ (i - 1 \in 1 .. l /\ (i - 1) + 1 = i)
        OBVIOUS
      <4>4. /\ Len(p) = l + 1 /\ Len(x) = l + 1 /\ p[1] = n /\ x[1] = n
            /\ \A i \in 1 .. l : p[i + 1] = q[i] /\ x[i + 1] = q[i]
        BY <4>2, <4>5
      <4> QED BY <4>3, <4>4
    <3> QED BY <3>1, <3>2, <3>3, <3>4, SeqEqual
  <2>5. <<m, n>> \o q = <<m>> \o (<<n>> \o q)
    <3>1. <<m>> \in Seq(StmtNodes) /\ <<n>> \in Seq(StmtNodes)
      BY <1>1
    <3>2. (<<m>> \o <<n>>) \o q = <<m>> \o (<<n>> \o q)
      BY <1>1, <3>1, ConcatAssociative
    <3> QED BY <3>2, Pairs
  <2> QED BY <1>2, <1>3, <2>1, <2>2, <2>3, <2>4, <2>5 DEF Put
<1> QED BY <1>3
\* Where the if at position p goes on, of the parts c.
Forks(p, q, c) ==
  /\ Taken(tree, p, TRUE) = Put(c[2], q)
  /\ Len(c) = 3 => Taken(tree, p, FALSE) = Put(c[3], q)
  /\ Len(c) # 3 => Taken(tree, p, FALSE) = q

LEMMA IfForks ==
  ASSUME Prepared, NEW p \in Pos(tree), p # <<>>, NEW n, n = Head(p), NEW q, q = Tail(p),
         tree[n].kind = "if", NEW c, c = Kids(n)
  PROVE  Forks(p, q, c)
<1>1. n \in StmtNodes /\ q \in Seq(StmtNodes)
  BY PosFacts DEF Prepared
<1>2. <<>> \o q = q
  BY <1>1
<1>3. Taken(tree, p, TRUE) = <<c[2]>> \o q
  BY DEF Taken, Kids
<1>4. Len(c) = 3 => Taken(tree, p, FALSE) = <<c[3]>> \o q
  BY DEF Taken, Kids
<1>5. Len(c) # 3 => Taken(tree, p, FALSE) = <<>> \o q
  BY DEF Taken, Kids
<1> QED BY <1>2, <1>3, <1>4, <1>5 DEF Forks, Put

\* In block b is the condition of the while or if at position p, with a branch to y or z.
Deciding(s, nb, open, g, rest, owned, q, b, p, n, y, z, k, c, less, t) ==
  /\ Midway(s, nb, open, g, rest, owned, q) /\ b \in open /\ b \notin owned /\ p = g.fin[b]
  /\ p # <<>> /\ n = Head(p) /\ tree[n].kind \in {"while", "if"}
  /\ y \in 1 .. nb /\ y > retBB /\ z \in 1 .. nb /\ z > retBB
  /\ g.start[y] = Taken(tree, p, TRUE) /\ g.start[z] = Taken(tree, p, FALSE)
  /\ k \in Nat /\ k = Len(s) /\ less = open \ {b} /\ t = s \o In(b, c)
  /\ \E e : e = genIRExpr[Kids(n)[1]][k] /\ Adds(c, e.code, CondBr(e.val, y, z))

LEMMA CondCoding ==
  ASSUME Prepared, NEW s, NEW nb, NEW open, NEW g, NEW rest, NEW owned, NEW q, NEW b, NEW p,
         NEW n, NEW y, NEW z, NEW k, NEW c, NEW less, NEW t,
         Deciding(s, nb, open, g, rest, owned, q, b, p, n, y, z, k, c, less, t)
  PROVE  \E h : Midway(t, nb, less, h, rest, owned, q) /\ Onwards(g, h, nb, b, p)
<1>0. /\ Midway(s, nb, open, g, rest, owned, q) /\ b \in open /\ b \notin owned /\ p = g.fin[b]
      /\ p # <<>> /\ n = Head(p) /\ tree[n].kind \in {"while", "if"}
      /\ y \in 1 .. nb /\ y > retBB /\ z \in 1 .. nb /\ z > retBB
      /\ g.start[y] = Taken(tree, p, TRUE) /\ g.start[z] = Taken(tree, p, FALSE)
      /\ k \in Nat /\ k = Len(s) /\ less = open \ {b} /\ t = s \o In(b, c)
  BY Zenon DEF Deciding
<1>e. PICK e : e = genIRExpr[Kids(n)[1]][k] /\ Adds(c, e.code, CondBr(e.val, y, z))
  BY Zenon DEF Deciding
<1>1. /\ nb \in Nat /\ open \subseteq 1 .. nb /\ Function(s, nb, open)
      /\ \A x \in Nat : g.fin[x] \in Pos(tree) /\ g.start[x] \in Pos(tree)
  BY <1>0, MidwayFacts DEF Midway
<1>2. y \in Nat /\ z \in Nat /\ b \in Nat /\ p \in Pos(tree)
  <2>1. nb \in Nat /\ y \in 1 .. nb /\ z \in 1 .. nb /\ b \in 1 .. nb
    BY <1>0, <1>1
  <2> QED BY <1>0, <1>1, <2>1
<1>3. n \in StmtNodes
  BY <1>0, <1>2, PosFacts, Zenon DEF Prepared
<1>4. CondCode(e, k)
  <2>1. Kids(n)[1] \in Conds
    BY <1>0, <1>3, StmtFacts DEF Prepared
  <2> QED BY <1>0, <1>e, <2>1, CondsCode, Zenon
<1>5. PICK start : start = g.start
  OBVIOUS
<1>6. Same(tree, start[y], Taken(tree, p, TRUE)) /\ Same(tree, start[z], Taken(tree, p, FALSE))
  <2>1. g.start[y] \in Pos(tree) /\ g.start[z] \in Pos(tree)
    BY <1>1, <1>2
  <2>2. Same(tree, g.start[y], g.start[y]) /\ Same(tree, g.start[z], g.start[z])
    BY <2>1, SameSelf, Zenon
  <2> QED BY <1>0, <1>5, <2>2
<1>7. PICK of : Map(of) /\ PieceTo(tree, name, of, start, c, p, k, p)
  <2>1. p # <<>> /\ tree[Head(p)].kind \in {"while", "if"} /\ e = genIRExpr[Kids(Head(p))[1]][k]
    BY <1>0, <1>e, Zenon
  <2> QED BY <1>0, <1>e, <1>2, <1>6, <2>1, PieceCond, Zenon
<1>8. GoodCode(c, k)
  BY <1>0, <1>e, <1>2, <1>4, CondThen, Zenon DEF Adds
<1>9. Function(t, nb, less)
  <2>1. CondCode(e, Len(s))
    BY <1>0, <1>4
  <2> QED BY <1>0, <1>e, <1>1, <2>1, ExtendedCond, Zenon DEF Adds
<1>10. Same(tree, p, p)
  BY <1>2, SameSelf
<1>11. Coding(s, nb, open, g, rest, owned, q, b, c, of, p, p, p, less, t)
  BY <1>0, <1>2, <1>5, <1>7, <1>8, <1>9, <1>10 DEF Coding
<1> QED BY <1>11, MidwayCode

LEMMA TracedIf ==
  ASSUME Prepared, PartWay(instrs, nblocks, cur, work), Traced(tree, name, instrs, cur, work),
         LowerIf
  PROVE  Traced(tree, name, instrs, cur, work)'
<1>1. PICK owned, g, p, q, n, k, nb : AtStatement("if", owned, g, p, q, n, k, nb)
  BY AtStmt DEF LowerIf
<1>2. /\ Midway(instrs, nb, owned \cup {cur}, g, Tail(work), owned, q)
      /\ p \in Pos(tree) /\ q \in Pos(tree) /\ p = g.fin[cur] /\ cur \in 1 .. nb /\ k = Len(instrs)
      /\ cur \notin owned /\ owned \subseteq 1 .. nb /\ n = Head(p) /\ q = Tail(p) /\ p # <<>>
      /\ n \in StmtNodes /\ tree[n].kind = "if" /\ n = Task[2] /\ k \in Nat /\ nb = nblocks
  BY <1>1 DEF AtStatement, Midway
<1>3. PICK m \in StmtNodes : m = Kids(n)[2]
  BY <1>2, StmtFacts DEF Prepared
<1>4. PICK y \in Nat, z \in Nat :
        /\ y = nb + 1 /\ z = y + 1 /\ z = nb + 2 /\ y \notin 1 .. nb /\ z \notin 1 .. nb /\ y # z
        /\ y \in 1 .. z /\ z \in 1 .. z /\ 1 .. nb \subseteq 1 .. y /\ 1 .. y \subseteq 1 .. z
        /\ y \in 1 .. y /\ z \notin 1 .. y /\ y > retBB /\ z > retBB
  <2>1. nb \in Nat /\ nb >= 2
    BY <1>1 DEF AtStatement
  <2>2. PICK y \in Nat, z \in Nat : y = nb + 1 /\ z = nb + 2
    BY <2>1
  <2>3. /\ y = nb + 1 /\ z = y + 1 /\ z = nb + 2 /\ y \notin 1 .. nb /\ z \notin 1 .. nb /\ y # z
        /\ y \in 1 .. z /\ z \in 1 .. z /\ 1 .. nb \subseteq 1 .. y /\ 1 .. y \subseteq 1 .. z
        /\ y \in 1 .. y /\ z \notin 1 .. y /\ y > retBB /\ z > retBB
    BY <2>1, <2>2 DEF retBB
  <2> QED BY <2>3
<1>5. PICK r, f, b : r = Put(m, q) /\ f = Taken(tree, p, FALSE) /\ b = Kids(n)[3]
  OBVIOUS
<1>6. /\ r = Taken(tree, p, TRUE) /\ r \in Pos(tree) /\ f \in Pos(tree)
      /\ Len(Kids(n)) = 2 => f = q
      /\ Len(Kids(n)) # 2 => b \in StmtNodes /\ f = Put(b, q)
  <2>1. Len(Kids(n)) \in {2, 3} /\ (Len(Kids(n)) = 3 => b \in StmtNodes)
    BY <1>2, <1>5, StmtFacts DEF Prepared
  <2>2. Taken(tree, p, TRUE) = r /\ f = IF Len(Kids(n)) = 3 THEN Put(b, q) ELSE q
    <3>1. /\ Taken(tree, p, TRUE) = Put(Kids(n)[2], q)
          /\ Len(Kids(n)) = 3 => Taken(tree, p, FALSE) = Put(Kids(n)[3], q)
          /\ Len(Kids(n)) # 3 => Taken(tree, p, FALSE) = q
      <4>1. p \in Pos(tree) /\ p # <<>> /\ n = Head(p) /\ q = Tail(p) /\ tree[n].kind = "if"
        BY <1>2
      <4>2. PICK c : c = Kids(n)
        OBVIOUS
      <4>3. Forks(p, q, c)
        BY ONLY <4>1, <4>2, Prepared, IfForks
      <4> QED BY <4>2, <4>3 DEF Forks
    <3> QED BY <1>3, <1>5, <3>1
  <2>3. r \in Pos(tree) /\ (Len(Kids(n)) = 3 => Put(b, q) \in Pos(tree))
    BY <1>2, <1>3, <1>5, <2>1, PosFacts DEF Prepared, Put
  <2>4. PICK l : l = Len(Kids(n))
    OBVIOUS
  <2>5. CASE l = 2
    <3>1. f = q
      BY <2>2, <2>4, <2>5
    <3> QED BY <1>2, <2>2, <2>3, <2>4, <2>5, <3>1
  <2>6. CASE l = 3
    <3>1. f = Put(b, q) /\ b \in StmtNodes /\ f \in Pos(tree) /\ Len(Kids(n)) # 2
      BY <2>1, <2>2, <2>3, <2>4, <2>6
    <3> QED BY <2>2, <2>3, <3>1
  <2> QED BY <2>1, <2>4, <2>5, <2>6
<1>7. PICK g1 : Midway(instrs, y, owned \cup {cur} \cup {y}, g1, Tail(work), owned, q)
                /\ Grown(g, g1, nb, y, r)
  BY <1>2, <1>4, <1>6, MidwayBlock
<1>8. PICK g2, open : /\ open = owned \cup {cur} \cup {y} \cup {z}
                      /\ Midway(instrs, z, open, g2, Tail(work), owned, q)
                      /\ Grown(g1, g2, y, z, f)
  BY <1>4, <1>6, <1>7, MidwayBlock
<1>9. g2.start[y] = r /\ g2.fin[y] = r /\ g2.start[z] = f /\ g2.fin[z] = f /\ g2.fin[cur] = p
  <2>1. cur \in 1 .. y
    BY <1>2, <1>4
  <2> QED BY <1>2, <1>4, <1>7, <1>8, <2>1 DEF Grown
<1>10. PICK e, c, less, s :
         /\ e = genIRExpr[Kids(n)[1]][k] /\ Adds(c, e.code, CondBr(e.val, y, z))
         /\ less = open \ {cur} /\ s = instrs \o In(cur, c)
  BY Zenon DEF Adds
<1>11. Deciding(instrs, z, open, g2, Tail(work), owned, q, cur, p, n, y, z, k, c, less, s)
  <2>1. /\ cur \in open /\ p = g2.fin[cur] /\ tree[n].kind \in {"while", "if"}
        /\ g2.start[y] = Taken(tree, p, TRUE) /\ g2.start[z] = Taken(tree, p, FALSE)
    BY <1>2, <1>5, <1>6, <1>8, <1>9
  <2>2. p # <<>> /\ n = Head(p) /\ k \in Nat /\ k = Len(instrs) /\ cur \notin owned
    BY <1>2
  <2> QED BY <1>4, <1>8, <1>10, <2>1, <2>2, Zenon DEF Deciding
<1>12. PICK h : Midway(s, z, less, h, Tail(work), owned, q) /\ Onwards(g2, h, z, cur, p)
  BY <1>11, CondCoding
<1>13. less = owned \cup {y, z} /\ cur # y /\ cur # z /\ z \notin owned
  BY <1>2, <1>4, <1>8, <1>10
<1>14. h.start[z] = f /\ h.fin[y] = r /\ h.fin[z] = f
  BY <1>4, <1>9, <1>12, <1>13 DEF Onwards
<1>15. PICK t : t = IF Len(Kids(n)) = 2 THEN <<"endif", z, 0>> ELSE <<"else", z, b>>
  OBVIOUS
<1>16. t \in TasksIn(z) /\ Owned(t) = {z} /\ TaskFits(h, t, q, q)
  <2>1. CASE Len(Kids(n)) = 2
    <3>1. t = <<"endif", z, 0>> /\ t[1] = "endif" /\ t[2] = z
      BY <1>15, <2>1
    <3>2. t \in TasksIn(z) /\ Owned(t) = {z}
      BY <1>4, <3>1 DEF TasksIn, Owned
    <3> QED BY <1>4, <1>6, <1>14, <2>1, <3>1, <3>2 DEF TaskFits
  <2>2. CASE Len(Kids(n)) # 2
    <3>1. b \in StmtNodes /\ f = Put(b, q)
      BY <1>6, <2>2
    <3>2. t = <<"else", z, b>> /\ t[1] = "else" /\ t[2] = z /\ t[3] = b
      BY <1>15, <2>2, <3>1
    <3>3. t \in TasksIn(z)
      BY <1>4, <3>1, <3>2 DEF TasksIn
    <3>4. Owned(t) = {z}
      BY <3>2 DEF Owned
    <3> QED BY <1>14, <3>1, <3>2, <3>3, <3>4 DEF TaskFits, Put
  <2> QED BY <2>1, <2>2
<1>17. PICK tasks, w, all : /\ tasks = <<Stmt(m), t>> /\ w = tasks \o Tail(work)
                            /\ all = owned \cup Owned(t)
  OBVIOUS
<1>18. Midway(s, z, less, h, w, all, r)
  <2>1. Owned(t) \cap owned = {} /\ w = <<Stmt(m), t>> \o Tail(work)
    BY <1>13, <1>16, <1>17
  <2> QED BY <1>2, <1>3, <1>5, <1>12, <1>16, <1>17, <2>1, MidwayTwo
<1>19. less = all \cup {y}
  BY <1>13, <1>16, <1>17
<1>20. PICK code : code = In(cur, c)
  OBVIOUS
<1>21. Lower(code, 2, y, tasks)
  <2>1. Value(1, 0) = e
    <3>1. k + 0 = k
      BY <1>2
    <3> QED BY <1>2, <1>10, <3>1 DEF Value, Part
  <2>2. Lower(code, 2, y, IF Len(Kids(n)) = 2 THEN <<Stmt(m), <<"endif", z, 0>> >>
                          ELSE <<Stmt(m), <<"else", z, b>> >>)
    BY <1>2, <1>3, <1>4, <1>5, <1>10, <1>20, <2>1, Zenon DEF LowerIf, Part, Adds
  <2> QED BY <1>15, <1>17, <2>2
<1>22. Midway(s, z, all \cup {y}, h, w, all, r) /\ s = instrs \o code
  BY <1>10, <1>18, <1>19, <1>20
<1> QED BY <1>14, <1>17, <1>21, <1>22, MidwayEnd

LEMMA TracedWhile ==
  ASSUME Prepared, PartWay(instrs, nblocks, cur, work), Traced(tree, name, instrs, cur, work),
         LowerWhile
  PROVE  Traced(tree, name, instrs, cur, work)'
<1>1. PICK owned, g, p, q, n, k, nb : AtStatement("while", owned, g, p, q, n, k, nb)
  BY AtStmt DEF LowerWhile
<1>2. /\ Midway(instrs, nb, owned \cup {cur}, g, Tail(work), owned, q)
      /\ p \in Pos(tree) /\ q \in Pos(tree) /\ p = g.fin[cur] /\ cur \in 1 .. nb /\ k = Len(instrs)
      /\ cur \notin owned /\ owned \subseteq 1 .. nb /\ n = Head(p) /\ q = Tail(p) /\ p # <<>>
      /\ n \in StmtNodes /\ tree[n].kind = "while" /\ n = Task[2] /\ k \in Nat /\ nb = nblocks
      /\ instrs \in Seq(Built) /\ cur \in Nat
  BY <1>1 DEF AtStatement, Midway
<1>3. PICK m \in StmtNodes : m = Kids(n)[2]
  BY <1>2, StmtFacts DEF Prepared
<1>4. PICK x \in Nat, y \in Nat, z \in Nat :
        /\ x = nb + 1 /\ y = x + 1 /\ z = y + 1 /\ y = nb + 2 /\ z = nb + 3
        /\ x \notin 1 .. nb /\ y \notin 1 .. x /\ z \notin 1 .. y
        /\ y \notin 1 .. nb /\ z \notin 1 .. nb /\ x # y /\ y # z /\ x # z
        /\ x \in 1 .. x /\ x \in 1 .. y /\ x \in 1 .. z /\ y \in 1 .. y /\ y \in 1 .. z
             /\ z \in 1 .. z
        /\ 1 .. nb \subseteq 1 .. x /\ 1 .. x \subseteq 1 .. y /\ 1 .. y \subseteq 1 .. z
        /\ x > retBB /\ y > retBB /\ z > retBB
  BY <1>1 DEF AtStatement, retBB
<1>5. PICK r : r = Put(m, p)
  OBVIOUS
<1>6. r = Taken(tree, p, TRUE) /\ q = Taken(tree, p, FALSE) /\ r \in Pos(tree)
  <2>1. r \in Pos(tree)
    BY <1>2, <1>3, <1>5, PosFacts DEF Prepared, Put
  <2>2. Taken(tree, p, TRUE) = r /\ Taken(tree, p, FALSE) = q
    <3>1. p \in Pos(tree) /\ p # <<>> /\ n = Head(p) /\ q = Tail(p) /\ tree[n].kind = "while"
      BY <1>2
    <3>2. Taken(tree, p, TRUE) = Put(Kids(n)[2], p) /\ Taken(tree, p, FALSE) = q
      BY ONLY <3>1, Prepared, TakenFacts
    <3> QED BY <1>3, <1>5, <3>2
  <2> QED BY <2>1, <2>2
<1>7. PICK g1 : Midway(instrs, x, owned \cup {cur} \cup {x}, g1, Tail(work), owned, q)
                /\ Grown(g, g1, nb, x, p)
  BY <1>2, <1>4, MidwayBlock
<1>8. PICK g2 : Midway(instrs, y, owned \cup {cur} \cup {x} \cup {y}, g2, Tail(work), owned, q)
                /\ Grown(g1, g2, x, y, r)
  BY <1>4, <1>6, <1>7, MidwayBlock
<1>9. PICK g3, open : /\ open = owned \cup {cur} \cup {x} \cup {y} \cup {z}
                      /\ Midway(instrs, z, open, g3, Tail(work), owned, q)
                      /\ Grown(g2, g3, y, z, q)
  BY <1>2, <1>4, <1>8, MidwayBlock
<1>10. /\ g3.start[x] = p /\ g3.start[y] = r /\ g3.start[z] = q
       /\ g3.fin[x] = p /\ g3.fin[y] = r /\ g3.fin[z] = q /\ g3.fin[cur] = p
  <2>1. cur \in 1 .. x /\ cur \in 1 .. y
    BY <1>2, <1>4
  <2> QED BY <1>2, <1>4, <1>7, <1>8, <1>9, <2>1 DEF Grown
<1>11. PICK a, s1, less : /\ a = In(cur, <<Br(x)>>) /\ s1 = instrs \o a /\ less = open \ {cur}
  OBVIOUS
<1>12. cur # x /\ cur # y /\ cur # z /\ x \notin owned /\ y \notin owned /\ z \notin owned
       /\ cur \in 1 .. z
  BY <1>2, <1>4
<1>13. Branching(instrs, z, open, g3, Tail(work), owned, q, cur, x, p, less, s1)
  BY <1>2, <1>4, <1>9, <1>10, <1>11 DEF Branching
<1>14. PICK g4 : Midway(s1, z, less, g4, Tail(work), owned, q) /\ Onwards(g3, g4, z, cur, p)
  BY <1>13, MidwayBranch
<1>15. /\ g4.start[x] = p /\ g4.start[y] = r /\ g4.start[z] = q
       /\ g4.fin[x] = p /\ g4.fin[y] = r /\ g4.fin[z] = q
  BY <1>4, <1>10, <1>12, <1>14 DEF Onwards
<1>16. a \in Seq(Built) /\ Len(a) = 1 /\ Len(s1) = k + 1 /\ k + 1 \in Nat
  <2>1. a \in Seq(Built) /\ Len(a) = 1
    BY <1>2, <1>4, <1>11, BrIn
  <2>2. Len(instrs \o a) = Len(instrs) + Len(a)
    BY <1>2, <2>1, ConcatProperties
  <2>3. Len(s1) = k + 1
    BY <1>2, <1>11, <2>1, <2>2
  <2> QED BY <1>2, <2>1, <2>3
<1>17. PICK e, c, last, s2 :
         /\ e = genIRExpr[Kids(n)[1]][k + 1] /\ Adds(c, e.code, CondBr(e.val, y, z))
         /\ last = less \ {x} /\ s2 = s1 \o In(x, c)
  BY DEF Adds
<1>18. PICK l : l = k + 1
  OBVIOUS
<1>19. PICK h : Midway(s2, z, last, h, Tail(work), owned, q) /\ Onwards(g4, h, z, x, p)
  <2>1. x \in less /\ tree[n].kind \in {"while", "if"} /\ p = g4.fin[x]
        /\ g4.start[y] = Taken(tree, p, TRUE) /\ g4.start[z] = Taken(tree, p, FALSE)
    BY <1>2, <1>6, <1>9, <1>11, <1>12, <1>15
  <2>2. l \in Nat /\ l = Len(s1) /\ e = genIRExpr[Kids(n)[1]][l] /\ p # <<>> /\ n = Head(p)
    BY <1>2, <1>16, <1>17, <1>18, Zenon
  <2>3. Deciding(s1, z, less, g4, Tail(work), owned, q, x, p, n, y, z, l, c, last, s2)
    BY <1>4, <1>12, <1>14, <1>17, <2>1, <2>2, Zenon DEF Deciding
  <2> QED BY <2>3, CondCoding
<1>20. h.start[x] = p /\ h.fin[y] = r /\ h.fin[z] = q
  BY <1>4, <1>15, <1>19 DEF Onwards
<1>21. PICK t : t = <<"loop", x, z>>
  OBVIOUS
<1>22. t \in TasksIn(z) /\ Owned(t) = {z} /\ TaskFits(h, t, p, q)
  <2>1. t[1] = "loop" /\ t[2] = x /\ t[3] = z
    BY <1>21
  <2>2. t \in TasksIn(z)
    BY <1>4, <1>21 DEF TasksIn
  <2>3. Owned(t) = {z}
    BY <2>1 DEF Owned
  <2> QED BY <1>4, <1>20, <2>1, <2>2, <2>3 DEF TaskFits
<1>23. PICK tasks, w, all : /\ tasks = <<Stmt(m), t>> /\ w = tasks \o Tail(work)
                            /\ all = owned \cup Owned(t)
  OBVIOUS
<1>24. Midway(s2, z, last, h, w, all, r)
  <2>1. Owned(t) \cap owned = {} /\ w = <<Stmt(m), t>> \o Tail(work)
    BY <1>12, <1>22, <1>23
  <2> QED BY <1>2, <1>3, <1>5, <1>19, <1>22, <1>23, <2>1, MidwayTwo
<1>25. last = all \cup {y}
  BY <1>2, <1>4, <1>9, <1>11, <1>12, <1>17, <1>22, <1>23, Zenon
<1>26. PICK b, code : b = In(x, c) /\ code = a \o b
  BY Zenon
<1>27. Lower(code, 3, y, tasks)
  <2>1. Value(1, 1) = e
    BY <1>2, <1>17 DEF Value, Part
  <2> QED BY <1>2, <1>3, <1>4, <1>11, <1>17, <1>21, <1>23, <1>26, <2>1, Zenon
             DEF LowerWhile, Part, Adds
<1>28. s2 = instrs \o code
  <2>1. b \in Seq(Built)
    <3>1. Kids(n)[1] \in Conds
      BY <1>2, StmtFacts DEF Prepared
    <3>2. CondCode(e, k + 1)
      BY <1>16, <1>17, <3>1, CondsCode, Zenon
    <3>3. GoodCode(c, k + 1)
      BY <1>4, <1>16, <1>17, <3>2, CondThen, Zenon DEF Adds
    <3>4. c \in Seq(Built)
      BY <3>3 DEF GoodCode
    <3> QED BY <1>26, <3>4, InFacts
  <2>2. instrs \o (a \o b) = (instrs \o a) \o b
    BY <1>2, <1>16, <2>1, JoinTwo
  <2> QED BY <1>11, <1>17, <1>26, <2>2
<1>29. Midway(s2, z, all \cup {y}, h, w, all, r)
  BY <1>24, <1>25
<1> QED BY <1>20, <1>23, <1>27, <1>28, <1>29, MidwayEnd

\* The suffixes of c, with v after them.
Chopped(c, l, v) ==
  /\ SubSeq(c, 1, l) = c /\ SubSeq(c, l + 1, l) \o v = v
  /\ \A j \in 1 .. l : SubSeq(c, j, l) \o v = <<c[j]>> \o (SubSeq(c, j + 1, l) \o v)

\* Of three sequences put together, either two may come first.
Regroups(u, v, w) == (u \o v) \o w = u \o (v \o w)

LEMMA Regrouped ==
  ASSUME NEW S, NEW u \in Seq(S), NEW v \in Seq(S), NEW w \in Seq(S)
  PROVE  Regroups(u, v, w)
BY DEF Regroups

LEMMA Suffixes ==
  ASSUME NEW S, NEW c \in Seq(S), NEW l \in Nat, l = Len(c), NEW v \in Seq(S)
  PROVE  Chopped(c, l, v)
<1>1. SubSeq(c, 1, l) = c
  BY SubSeqFull
<1>2. SubSeq(c, l + 1, l) = <<>>
  <2>1. l + 1 \in Int /\ l \in Int /\ l < l + 1
    OBVIOUS
  <2> QED BY <2>1, SubSeqEmpty
<1>3. ASSUME NEW j \in 1 .. l
      PROVE  SubSeq(c, j, l) \o v = <<c[j]>> \o (SubSeq(c, j + 1, l) \o v)
  <2>1. SubSeq(c, j, l) = <<c[j]>> \o SubSeq(c, j + 1, l)
    <3>1. j \in 1 .. Len(c) /\ l \in j .. Len(c)
      OBVIOUS
    <3> QED BY <3>1, SubSeqRecursiveFirst
  <2>2. SubSeq(c, j + 1, l) \in Seq(S)
    <3>1. j + 1 \in Int /\ l \in Int /\ \A i \in j + 1 .. l : c[i] \in S
      OBVIOUS
    <3> QED BY <3>1, SubSeqProperties
  <2>3. PICK one \in Seq(S), d \in Seq(S) : one = <<c[j]>> /\ d = SubSeq(c, j + 1, l)
    <3>1. <<c[j]>> \in Seq(S)
      OBVIOUS
    <3> QED BY <2>2, <3>1
  <2>4. (one \o d) \o v = one \o (d \o v)
    <3>1. Regroups(one, d, v)
      BY Regrouped
    <3> QED BY <3>1 DEF Regroups
  <2> QED BY <2>1, <2>3, <2>4
<1>4. <<>> \o v = v
  OBVIOUS
<1> QED BY <1>1, <1>2, <1>3, <1>4 DEF Chopped

\* Statements to do, one after the other.
LEMMA MidwayStmts ==
  ASSUME Prepared, NEW s, NEW nb, NEW open, NEW g, NEW rest, NEW owned, NEW q,
         Midway(s, nb, open, g, rest, owned, q), NEW c \in Seq(StmtNodes),
         NEW ts, ts = [i \in DOMAIN c |-> Stmt(c[i])]
  PROVE  Midway(s, nb, open, g, ts \o rest, owned, c \o q)
<1>1. PICK l \in Nat : l = Len(c) /\ DOMAIN c = 1 .. l
  OBVIOUS
<1>2. nb \in Nat /\ rest \in Seq(TasksIn(nb)) /\ q \in Seq(StmtNodes)
  BY MidwayFacts, PosFacts DEF Midway, LeftToDo, Prepared
<1>3. ts \in Seq(TasksIn(nb)) /\ l = Len(ts) /\ \A j \in 1 .. l : ts[j] = Stmt(c[j])
  <2>1. \A i \in 1 .. l : Stmt(c[i]) \in TasksIn(nb)
    BY <1>1 DEF Stmt, TasksIn
  <2>2. [i \in 1 .. l |-> Stmt(c[i])] \in Seq(TasksIn(nb))
    BY <2>1
  <2>3. ts = [i \in 1 .. l |-> Stmt(c[i])]
    BY <1>1
  <2>4. DOMAIN ts = 1 .. l /\ \A i \in 1 .. l : ts[i] = Stmt(c[i])
    BY <2>3
  <2>5. ts \in Seq(TasksIn(nb))
    BY <2>2, <2>3
  <2> QED BY <2>4, <2>5
<1> DEFINE W(j) == SubSeq(ts, j, l) \o rest
           R(j) == SubSeq(c, j, l) \o q
           T == {m \in Nat : m <= l => Midway(s, nb, open, g, W(l - m + 1), owned, R(l - m + 1))}
<1>4. /\ W(l + 1) = rest /\ SubSeq(ts, 1, l) = ts
      /\ \A j \in 1 .. l : W(j) = <<Stmt(c[j])>> \o W(j + 1)
  <2>1. /\ SubSeq(ts, 1, l) = ts /\ SubSeq(ts, l + 1, l) \o rest = rest
        /\ \A j \in 1 .. l : SubSeq(ts, j, l) \o rest = <<ts[j]>> \o (SubSeq(ts, j + 1, l) \o rest)
    <3>1. Chopped(ts, l, rest)
      BY <1>2, <1>3, Suffixes
    <3> QED BY <3>1 DEF Chopped
  <2> QED BY <1>3, <2>1
<1>5. /\ R(l + 1) = q /\ SubSeq(c, 1, l) = c
      /\ \A j \in 1 .. l : R(j) = <<c[j]>> \o R(j + 1)
  <2>1. /\ SubSeq(c, 1, l) = c /\ SubSeq(c, l + 1, l) \o q = q
        /\ \A j \in 1 .. l : SubSeq(c, j, l) \o q = <<c[j]>> \o (SubSeq(c, j + 1, l) \o q)
    <3>1. Chopped(c, l, q)
      BY <1>1, <1>2, Suffixes
    <3> QED BY <3>1 DEF Chopped
  <2> QED BY <2>1
<1> HIDE DEF W, R
<1>6. 0 \in T
  <2>1. l - 0 + 1 = l + 1
    OBVIOUS
  <2> QED BY <1>4, <1>5, <2>1
<1>7. ASSUME NEW m \in Nat, m \in T PROVE m + 1 \in T
  <2>1. CASE m + 1 <= l
    <3>1. PICK j \in 1 .. l : j = l - (m + 1) + 1 /\ j + 1 = l - m + 1
      BY <2>1
    <3>2. Midway(s, nb, open, g, W(j + 1), owned, R(j + 1))
      BY <1>7, <2>1, <3>1
    <3>3. c[j] \in StmtNodes
      BY <1>1
    <3>4. Midway(s, nb, open, g, <<Stmt(c[j])>> \o W(j + 1), owned, <<c[j]>> \o R(j + 1))
      BY <3>2, <3>3, MidwayStmt
    <3>5. Midway(s, nb, open, g, W(j), owned, R(j))
      BY <1>4, <1>5, <3>4
    <3> QED BY <3>1, <3>5
  <2>2. CASE ~(m + 1 <= l)
    BY <2>2
  <2> QED BY <2>1, <2>2
<1>8. l \in T
  <2> HIDE DEF T
  <2> QED BY <1>6, <1>7, NatSetInduction
<1>9. Midway(s, nb, open, g, W(1), owned, R(1))
  <2>1. l - l + 1 = 1
    OBVIOUS
  <2> QED BY <1>8, <2>1
<1> QED BY <1>4, <1>5, <1>9 DEF W, R

LEMMA TracedBlock ==
  ASSUME Prepared, PartWay(instrs, nblocks, cur, work), Traced(tree, name, instrs, cur, work),
         LowerBlock
  PROVE  Traced(tree, name, instrs, cur, work)'
<1>1. PICK owned, g, p, q, n, k, nb : AtStatement("block", owned, g, p, q, n, k, nb)
  BY AtStmt DEF LowerBlock
<1>2. /\ Midway(instrs, nb, owned \cup {cur}, g, Tail(work), owned, q)
      /\ n = Task[2] /\ n \in StmtNodes /\ tree[n].kind = "block"
      /\ cur \notin owned /\ cur \in 1 .. nb /\ p = g.fin[cur] /\ p \in Pos(tree) /\ p # <<>>
      /\ Head(p) = n /\ q = Tail(p)
  BY <1>1 DEF AtStatement
<1>3. PICK c \in Seq(StmtNodes) : c = Kids(n)
  <2>1. Kids(n) \in Seq(Nat) /\ \A i \in DOMAIN Kids(n) : Kids(n)[i] \in StmtNodes
    BY <1>2, StmtFacts DEF Prepared
  <2>2. PICK c : c = Kids(n)
    OBVIOUS
  <2>3. c \in Seq(StmtNodes)
    BY <2>1, <2>2
  <2> QED BY <2>2, <2>3
<1>4. PICK ts, r : ts = [i \in DOMAIN c |-> Stmt(c[i])] /\ r = c \o q
  OBVIOUS
<1>5. Same(tree, p, r)
  <2>1. Silent(tree, p) /\ Onto(tree, p) = r
    BY <1>2, <1>3, <1>4, Zenon DEF Silent, Onto, Kids
  <2> QED BY <1>2, <2>1, SameFacts DEF Prepared
<1>6. PICK w : w = ts \o Tail(work)
  OBVIOUS
<1>7. Midway(instrs, nb, owned \cup {cur}, g, w, owned, r)
  BY <1>2, <1>3, <1>4, <1>6, MidwayStmts
<1>8. PICK h : Midway(instrs, nb, owned \cup {cur}, h, w, owned, r) /\ h.fin[cur] = r
  <2>1. r \in Pos(tree) /\ Same(tree, g.fin[cur], r) /\ cur \in owned \cup {cur}
    BY <1>2, <1>5, <1>7 DEF Midway
  <2> QED BY <1>2, <1>7, <2>1, MidwayFin
<1>9. PICK code, z : code = <<>> /\ z = instrs \o code
  OBVIOUS
<1>10. Midway(z, nb, owned \cup {cur}, h, w, owned, r)
  BY <1>8, <1>9, NoCodeMidway
<1>11. Lower(code, 0, cur, ts)
  BY <1>2, <1>3, <1>4, <1>9 DEF LowerBlock, Part
<1> QED BY <1>6, <1>8, <1>9, <1>10, <1>11, MidwayEnd

\* Every lowering step continues the guide.
LEMMA TracedLower ==
  ASSUME Prepared, PartWay(instrs, nblocks, cur, work), Traced(tree, name, instrs, cur, work),
         LowerStmt
  PROVE  Traced(tree, name, instrs, cur, work)'
BY TracedAsgn, TracedPrint, TracedWhile, TracedEndWhile, TracedIf, TracedEndIf, TracedElse,
   TracedEndElse, TracedRet, TracedBlock, TracedDecl DEF LowerStmt

\* The store of the parameter, where there is one, and the block that returns.
Opening(s, k) ==
  /\ k \in {0, 1} /\ s \in Seq(Built) /\ Len(s) = k + 2 /\ DOMAIN s = 1 .. k + 2
  /\ s[k + 1].op = "load" /\ s[k + 1].sym = ret_ref /\ s[k + 1].bb = retBB
  /\ s[k + 2].op = "ret" /\ s[k + 2].args = <<k + 1>> /\ s[k + 2].bb = retBB
  /\ k = 0 => Params = {}
  /\ k = 1 => /\ s[1].op = "store" /\ s[1].args[1] = 0 /\ s[1].bb = entryBB
              /\ s[1].sym \in Vars /\ \A d \in Params : s[1].sym = name[d]

\* d is the code c, of l instructions, in block b.
Moved(d, c, l, b) ==
  /\ d \in Seq(Built) /\ Len(d) = l
  /\ \A j \in 1 .. l : /\ d[j].op = c[j].op /\ d[j].args = c[j].args
                      /\ d[j].sym = c[j].sym /\ d[j].bb = b

LEMMA InCode ==
  ASSUME NEW b \in Nat, NEW c \in Seq(Built), NEW d, d = In(b, c), NEW l \in Nat, l = Len(c)
  PROVE  Moved(d, c, l, b)
<1>1. DOMAIN c = 1 .. l
  OBVIOUS
<1>2. /\ In(b, c) \in Seq(Built) /\ Len(In(b, c)) = Len(c)
      /\ \A j \in DOMAIN c : /\ In(b, c)[j].op = c[j].op /\ In(b, c)[j].args = c[j].args
                             /\ In(b, c)[j].sym = c[j].sym /\ In(b, c)[j].bb = b
  BY InFacts
<1> QED BY <1>1, <1>2 DEF Moved

LEMMA BeginCode ==
  ASSUME Prepared, BeginIR
  PROVE  \E k : Opening(instrs', k)
<1>0. PICK stores : /\ stores = IF Params = {} THEN <<>>
                                ELSE In(entryBB, <<Store(0, name[CHOOSE p \in Params : TRUE])>>)
                    /\ instrs' = stores \o In(retBB,
                                             <<Instr("load", <<>>, ret_ref, <<>>),
                                               Instr("ret", <<Len(stores) + 1>>, <<"">>, <<>>)>>)
  BY Zenon DEF BeginIR
<1>1. PICK k : k = IF Params = {} THEN 0 ELSE 1
  OBVIOUS
<1>2. /\ stores \in Seq(Built) /\ Len(stores) = k /\ k \in {0, 1}
      /\ k = 0 => Params = {}
      /\ k = 1 => /\ stores[1].op = "store" /\ stores[1].args[1] = 0 /\ stores[1].bb = entryBB
                  /\ stores[1].sym \in Vars /\ \A d \in Params : stores[1].sym = name[d]
  <2>1. CASE Params = {}
    <3>1. stores = <<>> /\ k = 0
      BY <1>0, <1>1, <2>1, Zenon
    <3>2. <<>> \in Seq(Built) /\ Len(<<>>) = 0
      OBVIOUS
    <3> QED BY <2>1, <3>1, <3>2
  <2>2. CASE Params # {}
    <3>1. PICK p \in Params : p = CHOOSE q \in Params : TRUE
      BY <2>2
    <3>2. p \in Decls /\ \A d \in Params : d = p
      BY <3>1, RootFacts DEF Decls, Prepared
    <3>3. PICK x \in Allocas : x = name[p] /\ x \in Vars
      BY <3>2, NameFacts DEF Vars
    <3>4. PICK i \in Built : i = Store(0, x) /\ i.op = "store" /\ i.args[1] = 0 /\ i.sym = x
      <4>1. 0 \in Int /\ 0 \in Nat
        OBVIOUS
      <4>2. Store(0, x) \in Built /\ Store(0, x).op = "store" /\ Store(0, x).args = << 0 >>
        BY <4>1, BuiltStmt
      <4>3. Store(0, x).sym = x
        BY DEF Store, Instr
      <4>4. << 0 >>[1] = 0
        OBVIOUS
      <4>5. PICK i : i = Store(0, x)
        OBVIOUS
      <4>6. i \in Built /\ i.op = "store" /\ i.args[1] = 0 /\ i.sym = x
        BY ONLY <4>2, <4>3, <4>4, <4>5
      <4> QED BY <4>5, <4>6
    <3>5. PICK c \in Seq(Built) : c = <<i>> /\ Len(c) = 1 /\ c[1] = i
      <4>1. <<i>> \in Seq(Built) /\ Len(<<i>>) = 1 /\ <<i>>[1] = i
        OBVIOUS
      <4> QED BY <4>1
    <3>6. stores = In(1, c) /\ 1 \in Nat
      BY <1>0, <2>2, <3>1, <3>3, <3>4, <3>5, Zenon DEF entryBB
    <3>7. /\ stores \in Seq(Built) /\ Len(stores) = 1 /\ stores[1].op = "store"
          /\ stores[1].args[1] = 0 /\ stores[1].sym = x /\ stores[1].bb = 1
      <4>1. /\ stores \in Seq(Built) /\ Len(stores) = 1
            /\ \A j \in 1 .. 1 : /\ stores[j].op = c[j].op /\ stores[j].args = c[j].args
                               /\ stores[j].sym = c[j].sym /\ stores[j].bb = 1
        <5>1. 1 \in Nat /\ 1 = Len(c)
          BY <3>5
        <5>2. Moved(stores, c, 1, 1)
          BY ONLY <3>6, <5>1, c \in Seq(Built), InCode
        <5> QED BY <5>2 DEF Moved
      <4> QED BY <3>4, <3>5, <4>1
    <3>8. k = 1
      BY <1>1, <2>2
    <3> QED BY <2>2, <3>2, <3>3, <3>6, <3>7, <3>8 DEF entryBB
  <2> QED BY <2>1, <2>2
<1>3. PICK l \in Built, r \in Built :
        /\ l = Instr("load", <<>>, ret_ref, <<>>) /\ l.op = "load" /\ l.sym = ret_ref
        /\ r = Instr("ret", <<k + 1>>, <<"">>, <<>>) /\ r.op = "ret" /\ r.args = <<k + 1>>
  <2>1. <<>> \in Seq(Int)
    OBVIOUS
  <2>2. <<>> \in Seq(Nat)
    OBVIOUS
  <2>3. "load" \in AllOps
    BY DEF AllOps
  <2>4. PICK l \in Built : l = Instr("load", <<>>, ret_ref, <<>>)
    BY <2>1, <2>2, <2>3, BuiltFacts
  <2>5. PICK r : r = Instr("ret", <<k + 1>>, <<"">>, <<>>)
    BY Zenon
  <2>6. r \in Built
    BY <1>2, <2>5, RetGood, Zenon
  <2>7. l.op = "load" /\ l.sym = ret_ref /\ r.op = "ret" /\ r.args = <<k + 1>>
    BY <2>4, <2>5, Zenon DEF Instr
  <2> QED BY <2>4, <2>5, <2>6, <2>7, Zenon
<1>4. PICK c \in Seq(Built) : c = <<l, r>> /\ Len(c) = 2 /\ c[1] = l /\ c[2] = r
  <2>1. <<l, r>> \in Seq(Built) /\ Len(<<l, r>>) = 2 /\ <<l, r>>[1] = l /\ <<l, r>>[2] = r
    OBVIOUS
  <2> QED BY <2>1
<1>5. PICK d \in Seq(Built) : /\ d = In(2, c) /\ Len(d) = 2
                              /\ d[1].op = "load" /\ d[1].sym = ret_ref /\ d[1].bb = 2
                              /\ d[2].op = "ret" /\ d[2].args = <<k + 1>> /\ d[2].bb = 2
  <2>1. PICK d : d = In(2, c)
    OBVIOUS
  <2>2. /\ d \in Seq(Built) /\ Len(d) = 2
        /\ \A j \in 1 .. 2 : /\ d[j].op = c[j].op /\ d[j].args = c[j].args
                           /\ d[j].sym = c[j].sym /\ d[j].bb = 2
    <3>1. 2 \in Nat /\ 2 = Len(c)
      BY <1>4
    <3>2. Moved(d, c, 2, 2)
      BY ONLY <2>1, <3>1, c \in Seq(Built), InCode
    <3> QED BY <3>2 DEF Moved
  <2>3. /\ d[1].op = "load" /\ d[1].sym = ret_ref /\ d[1].bb = 2
        /\ d[2].op = "ret" /\ d[2].args = <<k + 1>> /\ d[2].bb = 2
    <3>1. 1 \in 1 .. 2 /\ 2 \in 1 .. 2
      OBVIOUS
    <3>2. /\ d[1].op = c[1].op /\ d[1].sym = c[1].sym /\ d[1].bb = 2
          /\ d[2].op = c[2].op /\ d[2].args = c[2].args /\ d[2].bb = 2
      BY <2>2, <3>1
    <3> QED BY <1>3, <1>4, <3>2, Zenon
  <2> QED BY <2>1, <2>2, <2>3
<1>6. instrs' = stores \o d
  BY <1>0, <1>2, <1>3, <1>4, <1>5, Zenon DEF retBB
<1>7. PICK s : s = stores \o d
  OBVIOUS
<1>8. /\ s \in Seq(Built) /\ Len(s) = k + 2 /\ DOMAIN s = 1 .. k + 2 /\ s[k + 1] = d[1]
      /\ s[k + 2] = d[2] /\ (k = 1 => s[1] = stores[1])
  <2>1. s \in Seq(Built) /\ Len(s) = Len(stores) + Len(d)
    BY <1>2, <1>5, <1>7
  <2>2. \A j \in 1 .. Len(d) : s[Len(stores) + j] = d[j]
    BY <1>2, <1>5, <1>7
  <2>3. \A j \in 1 .. Len(stores) : s[j] = stores[j]
    BY <1>2, <1>5, <1>7
  <2>4. s \in Seq(Built) /\ Len(s) = k + 2 /\ k \in Nat
    BY <1>2, <1>5, <2>1
  <2>5. DOMAIN s = 1 .. k + 2
    BY <2>4
  <2>6. \A j \in 1 .. 2 : s[k + j] = d[j]
    BY <1>2, <1>5, <2>2
  <2>7. k = 1 => s[1] = stores[1]
    BY <1>2, <2>3
  <2> QED BY <2>4, <2>5, <2>6, <2>7
<1>9. Opening(s, k)
  BY <1>2, <1>5, <1>8 DEF Opening, retBB
<1> QED BY <1>6, <1>7, <1>9

LEMMA OpeningGuided ==
  ASSUME Prepared, NEW s, NEW k, Opening(s, k), NEW p, p = Put(Body, <<>>)
  PROVE  \E g : /\ Guided(tree, name, s, {1}, g) /\ g.fin[1] = p /\ Entered(tree, name, s, g)
<1>1. p \in Pos(tree) /\ Body \in StmtNodes
  <2>1. Body \in StmtNodes /\ <<>> \in Pos(tree)
    BY BodyStmt, PosFacts DEF Prepared
  <2> QED BY <2>1, PosFacts DEF Prepared, Put
<1>2. PICK f \in [Nat -> Pos(tree)], first \in [Nat -> Nat], of \in [Nat -> Nat] :
        (\A i \in Nat : f[i] = p /\ first[i] = i)
  <2>1. [i \in Nat |-> p] \in [Nat -> Pos(tree)]
    BY <1>1
  <2>2. [i \in Nat |-> i] \in [Nat -> Nat]
    OBVIOUS
  <2> QED BY <2>1, <2>2
<1>3. PICK g : g = [pre |-> f, first |-> first, of |-> of, start |-> f, fin |-> f]
  OBVIOUS
<1>4. /\ g \in Guides(tree)
      /\ \A i \in Nat : g.pre[i] = p /\ g.start[i] = p /\ g.fin[i] = p /\ g.first[i] = i
  BY <1>2, <1>3 DEF Guides
<1>5. Same(tree, p, p)
  BY <1>1, SameSelf
<1>6. k \in {0, 1} /\ DOMAIN s = 1 .. k + 2
  BY DEF Opening
<1>7. Returns(s, k + 1) /\ Returns(s, k + 2) /\ s[k + 1].bb = retBB /\ s[k + 2].bb = retBB
  <2>1. (k + 2) - 1 = k + 1 /\ k + 2 > 1
    BY <1>6
  <2>2. s[k + 1].op = "load" /\ s[k + 1].sym = ret_ref /\ s[k + 1].bb = retBB
    BY DEF Opening
  <2>3. s[k + 2].op = "ret" /\ s[k + 2].args = <<(k + 2) - 1>> /\ s[k + 2].bb = retBB
    BY <2>1 DEF Opening
  <2> QED BY <2>1, <2>2, <2>3 DEF Returns
<1>8. ASSUME k = 1
      PROVE  Stands(tree, name, s, g, 1) /\ AtEnd(tree, s, g, 0, 1, p) /\ s[1].bb = 1
  <2>1. s[1].op = "store" /\ s[1].args[1] = 0 /\ s[1].bb = 1 /\ s[1].sym \in Vars
    BY <1>8 DEF Opening, entryBB
  <2>2. IsCall(s[1]) /\ ~IsResult(s[1])
    <3>1. ret_ref \notin Vars
      BY NameFacts
    <3> QED BY <2>1, <3>1 DEF IsCall, IsResult
  <2>3. Acts(tree, name, g.of, g.start, s[1], g.pre[1], g.first[1], 1)
    BY <2>1, <2>2 DEF Acts, PureOps
  <2>4. Joined(tree, s, g, 1)
    <3>1. g.first[1] = 1 /\ 1 \in 1 .. 1 /\ ~(1 < 1) /\ s[1].op # "br"
      BY <1>4, <2>1
    <3> QED BY ONLY <3>1 DEF Joined
  <2>5. \A i \in 1 .. 0 : s[i].bb # 1
    OBVIOUS
  <2> QED BY <1>4, <1>5, <2>1, <2>3, <2>4, <2>5 DEF Stands, AtEnd
<1>9. ASSUME NEW i \in DOMAIN s
      PROVE  IF s[i].bb = retBB THEN Returns(s, i)
             ELSE Stands(tree, name, s, g, i) /\ AtEnd(tree, s, g, i - 1, s[i].bb, g.pre[i])
  <2>1. i = k + 1 \/ i = k + 2 \/ (i = 1 /\ k = 1)
    <3>1. CASE k = 0
      <4>1. i \in 1 .. 2
        BY <1>6, <3>1
      <4> QED BY <3>1, <4>1
    <3>2. CASE k = 1
      <4>1. i \in 1 .. 3
        BY <1>6, <3>2
      <4> QED BY <3>2, <4>1
    <3> QED BY <1>6, <3>1, <3>2
  <2>2. 1 - 1 = 0 /\ 1 \in Nat
    OBVIOUS
  <2>3. CASE i = 1 /\ k = 1
    <3>1. i - 1 = 0 /\ g.pre[i] = p /\ s[i].bb = 1 /\ s[i].bb # retBB
      <4>1. i = 1 /\ i - 1 = 0 /\ s[1].bb = 1
        BY <1>8, <2>2, <2>3
      <4>2. g.pre[1] = p
        BY <1>4, <2>2
      <4> QED BY <4>1, <4>2 DEF retBB
    <3>2. Stands(tree, name, s, g, i) /\ AtEnd(tree, s, g, 0, 1, p)
      BY <1>8, <2>3
    <3> QED BY ONLY <3>1, <3>2
  <2> QED BY <1>7, <2>1, <2>3
<1>10. AtEnd(tree, s, g, Len(s), 1, g.fin[1])
  <2>1. g.fin[1] = p /\ g.start[1] = p /\ g.pre[1] = p /\ Len(s) = k + 2
    BY <1>4 DEF Opening
  <2>2. CASE k = 0
    <3>1. \A i \in 1 .. Len(s) : s[i].bb # 1
      <4>1. \A i \in 1 .. Len(s) : i = k + 1 \/ i = k + 2
        BY <2>1, <2>2
      <4>2. s[k + 1].bb # 1 /\ s[k + 2].bb # 1
        BY <1>7 DEF retBB
      <4> QED BY ONLY <4>1, <4>2
    <3> QED BY <1>5, <2>1, <3>1 DEF AtEnd
  <2>3. CASE k = 1
    <3>1. \A j \in 1 + 1 .. Len(s) : s[j].bb # 1
      <4>1. \A i \in 1 + 1 .. Len(s) : i = k + 1 \/ i = k + 2
        BY <2>1, <2>3
      <4>2. s[k + 1].bb # 1 /\ s[k + 2].bb # 1
        BY <1>7 DEF retBB
      <4> QED BY ONLY <4>1, <4>2
    <3>2. Post(s[1], g.pre[1]) = p
      <4>1. s[1].op = "store" /\ s[1].args[1] = 0
        BY <2>3 DEF Opening
      <4> QED BY <2>1, <4>1 DEF Post
    <3>3. 1 \in 1 .. Len(s)
      BY <2>1, <2>3
    <3> QED BY <1>5, <1>8, <2>1, <2>3, <3>1, <3>2, <3>3 DEF AtEnd
  <2> QED BY <1>6, <2>2, <2>3
<1>11. Guided(tree, name, s, {1}, g)
  <2>1. retBB \notin {1} /\ \A b \in {1} : b = 1
    BY DEF retBB
  <2> QED BY <1>4, <1>9, <1>10, <2>1 DEF Guided
<1>12. Entered(tree, name, s, g)
  <2>1. g.start[entryBB] = <<tree[1].kids[Len(tree[1].kids)]>>
    <3>1. Put(Body, <<>>) = <<Body>>
      BY <1>1 DEF Put
    <3> QED BY <1>4, <3>1 DEF entryBB, Body, Kids
  <2>2. ASSUME NEW d \in DOMAIN tree, tree[d].kind = "param"
        PROVE  1 \in DOMAIN s /\ s[1].bb = entryBB /\ IsCall(s[1]) /\ s[1].sym = name[d]
    <3>1. d \in Params
      BY <2>2, RootFacts DEF Prepared
    <3>2. k = 1
      BY <1>6, <3>1 DEF Opening
    <3>3. s[1].op = "store" /\ s[1].args[1] = 0
      BY <3>2 DEF Opening
    <3> QED BY <1>6, <3>1, <3>2, <3>3 DEF Opening, IsCall
  <2>3. 1 \in DOMAIN s /\ s[1].bb \in {entryBB, retBB}
    <3>1. CASE k = 0
      <4>1. k + 1 = 1 /\ 1 \in 1 .. k + 2
        BY <3>1
      <4> QED BY <1>6, <1>7, <4>1
    <3>2. CASE k = 1
      <4>1. 1 \in 1 .. k + 2
        BY <3>2
      <4> QED BY <1>6, <1>8, <3>2, <4>1 DEF entryBB
    <3> QED BY <1>6, <3>1, <3>2
  <2> QED BY <2>1, <2>2, <2>3 DEF Entered
<1> QED BY <1>4, <1>11, <1>12

LEMMA TracedBegin ==
  ASSUME Prepared, BeginIR
  PROVE  Traced(tree, name, instrs, cur, work)'
<1>1. PICK s, k : s = instrs' /\ Opening(s, k)
  BY BeginCode
<1>2. PICK p : p = Put(Body, <<>>)
  OBVIOUS
<1>3. PICK g : Guided(tree, name, s, {1}, g) /\ g.fin[1] = p /\ Entered(tree, name, s, g)
  BY <1>1, <1>2, OpeningGuided
<1>4. PICK w : w = <<Stmt(Body)>>
  OBVIOUS
<1>5. PICK task : task = Stmt(Body)
  OBVIOUS
<1>6. task \in TasksIn(2) /\ Owned(task) = {} /\ task[1] = "stmt" /\ task[2] = Body
        /\ Body \in StmtNodes
  <2>1. Body \in StmtNodes
    BY BodyStmt DEF Prepared
  <2> QED BY <1>5, <2>1 DEF Stmt, TasksIn, Owned
<1>7. AheadFrom(tree, g, <<task>> \o <<>>, p)
  <2>1. AheadFrom(tree, g, <<>>, <<>>)
    <3>1. <<>> \in Pos(tree)
      BY PosFacts DEF Prepared
    <3>2. PICK f \in [Nat -> Pos(tree)] : \A i \in Nat : f[i] = <<>>
      <4>1. [i \in Nat |-> <<>>] \in [Nat -> Pos(tree)]
        BY <3>1
      <4> QED BY <4>1
    <3>3. Len(<<>>) = 0 /\ 0 + 1 = 1 /\ 1 \in Nat /\ \A j \in 1 .. 0 : FALSE
      OBVIOUS
    <3> QED BY <3>2, <3>3 DEF AheadFrom, Ahead
  <2>2. TaskFits(g, task, p, <<>>)
    BY <1>2, <1>6 DEF TaskFits, Put
  <2>3. <<>> \in Seq(TasksIn(2))
    OBVIOUS
  <2>4. p \in Pos(tree)
    <3>1. <<>> \in Pos(tree)
      BY PosFacts DEF Prepared
    <3> QED BY <1>2, <1>6, <3>1, PosFacts DEF Prepared, Put
  <2> QED BY <1>6, <2>1, <2>2, <2>3, <2>4, AheadCons
<1>8. <<task>> \o <<>> = w
  BY <1>4, <1>5, <1>6
<1>9. OpenAt(w, 1) = {1}
  <2>1. DOMAIN w = {1} /\ w[1] = task
    BY <1>4, <1>5
  <2> QED BY <1>6, <2>1 DEF OpenAt
<1>10. Traced(tree, name, s, 1, w)
  BY <1>3, <1>7, <1>8, <1>9 DEF Traced
<1> QED BY <1>1, <1>4, <1>10, Zenon DEF BeginIR, entryBB

\* There is a guide for the whole function.
Led(t, nm, s) == \E g : Guided(t, nm, s, {}, g) /\ Entered(t, nm, s, g)

LEMMA MidwayAtEnd ==
  ASSUME Prepared, PartWay(instrs, nblocks, cur, work), Traced(tree, name, instrs, cur, work),
         work = <<>>
  PROVE  \E g : Midway(instrs, nblocks, {cur}, g, <<>>, {}, <<>>) /\ g.fin[cur] = <<>>
<1>1. PICK owned : LeftToDo(work, nblocks, owned) /\ Function(instrs, nblocks, owned \cup {cur})
  BY DEF PartWay
<1>2. owned = {}
  BY <1>1 DEF LeftToDo
<1>3. LeftToDo(<<>>, nblocks, {}) /\ Function(instrs, nblocks, {cur})
  BY <1>1, <1>2
<1>4. OpenAt(<<>>, cur) = {cur}
  BY DEF OpenAt
<1>5. PICK g : /\ Guided(tree, name, instrs, {cur}, g) /\ AheadFrom(tree, g, <<>>, g.fin[cur])
               /\ Entered(tree, name, instrs, g)
  BY <1>4 DEF Traced
<1>6. g.fin[cur] = <<>>
  <2>1. Len(<<>>) + 1 = 1
    OBVIOUS
  <2> QED BY <1>5, <2>1 DEF AheadFrom, Ahead
<1>7. <<>> \in Pos(tree)
  BY PosFacts DEF Prepared
<1> QED BY <1>3, <1>5, <1>6, <1>7 DEF Midway

LEMMA LedFinish ==
  ASSUME Prepared, PartWay(instrs, nblocks, cur, work), Traced(tree, name, instrs, cur, work),
         Finish
  PROVE  Led(tree, name, instrs)'
<1>1. PICK g, w, nb : /\ w = <<>> /\ nb = nblocks
                      /\ Midway(instrs, nb, {cur}, g, w, {}, w) /\ g.fin[cur] = w
  BY MidwayAtEnd DEF Finish
<1>2. nb \in Nat /\ nb >= 2 /\ cur \in 1 .. nb /\ instrs \in Seq(Built)
        /\ Function(instrs, nb, {cur})
  BY <1>1, MidwayFacts DEF Midway
<1>3. PICK k \in Nat : k = Len(instrs)
  BY <1>2
<1>4. PICK e : e = [code |-> w, val |-> Constant(0)]
  OBVIOUS
<1>5. IsTerm(e, k) /\ e.code = w /\ e.val = Constant(0)
  <2>1. TermCode(w, k)
    BY <1>1 DEF TermCode
  <2>2. IsWord(Constant(0))
    BY WordFacts
  <2>3. e.code = w /\ e.val = Constant(0)
    BY <1>4
  <2>4. IsWord(e.val)
    BY <2>2, <2>3
  <2> QED BY <1>1, <2>1, <2>3, <2>4 DEF IsTerm, ValueOf
<1>6. PICK c : c = e.code \o <<Store(e.val, ret_ref), Br(retBB)>>
  OBVIOUS
<1>7. PICK z : z = instrs \o In(cur, c)
  OBVIOUS
<1>8. Function(z, nb, {})
  <2>1. retBB \in 1 .. nb /\ {cur} \ {cur} = {} /\ cur \in {cur}
    BY <1>2 DEF retBB
  <2>2. IsTerm(e, Len(instrs))
    BY <1>3, <1>5
  <2>3. Function(instrs \o In(cur, c), nb, {cur} \ {cur})
    BY <1>2, <1>6, <2>1, <2>2, ExtendedRet
  <2> QED BY <1>7, <2>1, <2>3
<1>9. PICK of, start : /\ start = g.start /\ Map(of)
                       /\ PieceTo(tree, name, of, start, c, w, k, w) /\ GoodCode(c, k)
  <2>1. PICK of \in [Nat -> Nat] : TRUE
    <3>1. [i \in Nat |-> 0] \in [Nat -> Nat]
      OBVIOUS
    <3> QED BY <3>1
  <2>2. Map(of)
    BY <2>1 DEF Map
  <2>3. Coded(tree, name, e.code, k, of)
    BY <1>1, <1>5 DEF Coded
  <2>4. ~Silent(tree, w)
    BY <1>1 DEF Silent
  <2>5. PICK start : start = g.start
    OBVIOUS
  <2>6. PieceTo(tree, name, of, start, c, w, k, w) /\ GoodCode(c, k)
    BY <1>1, <1>5, <1>6, <2>2, <2>3, <2>4, PieceReturn
  <2> QED BY <2>2, <2>5, <2>6
<1>10. w \in Pos(tree) /\ Same(tree, w, w)
  <2>1. w \in Pos(tree)
    BY <1>1, PosFacts DEF Prepared
  <2> QED BY <2>1, SameSelf
<1>11. Coding(instrs, nb, {cur}, g, w, {}, w, cur, c, of, w, w, w, {}, z)
  <2>1. cur \in {cur} /\ cur \notin {} /\ {} \subseteq {cur}
    OBVIOUS
  <2> QED BY <1>1, <1>3, <1>7, <1>8, <1>9, <1>10, <2>1 DEF Coding
<1>12. PICK h : Midway(z, nb, {}, h, w, {}, w)
  BY <1>11, MidwayCode
<1>13. Led(tree, name, z)
  BY <1>12 DEF Led, Midway
<1>14. instrs' = z /\ tree' = tree /\ name' = name
  <2>1. Ends(cur) = {}
    BY <1>2 DEF Function, Unended, Ends
  <2>2. instrs' = instrs \o In(cur, <<Store(Constant(0), ret_ref), Br(retBB)>>)
    BY <2>1 DEF Finish
  <2>3. c = <<Store(Constant(0), ret_ref), Br(retBB)>>
    <3>1. Store(Constant(0), ret_ref) \in Built /\ Br(retBB) \in Built
      <4>1. Constant(0) \in Int /\ ret_ref \in Allocas /\ retBB \in Nat
        BY DEF Constant, Allocas, retBB
      <4> QED BY <4>1, BuiltStmt
    <3>2. PICK d \in Seq(Built) : d = <<Store(Constant(0), ret_ref), Br(retBB)>>
      <4>1. <<Store(Constant(0), ret_ref), Br(retBB)>> \in Seq(Built)
        BY <3>1
      <4> QED BY <4>1
    <3>3. <<>> \o d = d
      OBVIOUS
    <3> QED BY <1>1, <1>5, <1>6, <3>2, <3>3
  <2> QED BY <1>7, <2>2, <2>3 DEF Finish, unchangedByDeleting
<1> QED BY <1>13, <1>14

(***************************************************************************)
(* While the function is built, it is guided by the source.                *)
(***************************************************************************)
GuideIInv ==
  /\ phase = "lower" => Traced(tree, name, instrs, cur, work)
  /\ phase \in {"mark"} \cup DeletePhases => Led(tree, name, instrs)

(***************************************************************************)
(* Theorem: genIRStmt keeps to the source.  Whatever it lowers next, and   *)
(* whichever unreachable block is deleted, each instruction still stands   *)
(* at its position of the source and each branch still leads where the     *)
(* source goes on (src/src/ir_builder.cpp:161-419).                        *)
(***************************************************************************)
THEOREM GuideInductive == BRSpec => []GuideIInv
<1>1. BRInit => GuideIInv
  BY DEF BRInit, IRInit, ScopesInit, GuideIInv, DeletePhases
<1>2. ASSUME BuiltIInv, GuideIInv, [BRNext]_allvars PROVE GuideIInv'
  <2>1. CASE Walk
    <3>1. phase' \in ScopesPhases
      <4>1. phase \in {"analysis", "rename"} /\ (Analyze \/ Rename)
        BY <2>1 DEF Walk, Analyze, AnalyzeFunc, AnalyzeBlock, LeaveTable, AnalyzeDecl, AnalyzeVar,
               AnalyzeParts,
               Accept, Analyzing, Rename, RenameFunc, RenameBlock, LeaveScope, RenameDecl,
               RenameVar,
               RenameParts, EndRenaming, Renaming
      <4>2. ScopesIInv
        BY <1>2, <4>1 DEF BuiltIInv, ScopesPhases
      <4>3. ScopesIInv'
        BY <4>1, <4>2, AnalyzeStep, RenameStep
      <4> QED BY <4>3 DEF ScopesIInv, ScopesPhases
    <3> QED BY <3>1 DEF GuideIInv, ScopesPhases, DeletePhases
  <2>2. CASE BeginIR
    <3>1. Prepared /\ phase' = "lower"
      <4>1. phase = "renamed" /\ phase' = "lower"
        BY <2>2, Zenon DEF BeginIR
      <4>2. ScopesIInv
        BY <1>2, <4>1 DEF BuiltIInv, ScopesPhases
      <4> QED BY <4>1, <4>2 DEF ScopesIInv, Prepared
    <3> QED BY <2>2, <3>1, TracedBegin DEF GuideIInv, DeletePhases
  <2>3. CASE LowerStmt
    <3>1. phase = "lower"
      BY <2>3, Zenon
         DEF LowerStmt, LowerAsgn, LowerPrint, LowerWhile, EndWhile, LowerIf, EndIf, Else,
                  EndElse, LowerRet, LowerBlock, LowerDecl, Lowering, Closing
    <3>2. phase' = "lower"
      BY <2>3, <3>1, Zenon
         DEF LowerStmt, LowerAsgn, LowerPrint, LowerWhile, EndWhile, LowerIf, EndIf,
         Else,
                  EndElse, LowerRet, LowerBlock, LowerDecl, Lower, unchangedByLowering, scopevars,
                  walkvars
    <3>3. Prepared /\ PartWay(instrs, nblocks, cur, work) /\ Traced(tree, name, instrs, cur, work)
      BY <1>2, <3>1 DEF BuiltIInv, ScopesPhases, GuideIInv
    <3> QED BY <2>3, <3>2, <3>3, TracedLower DEF GuideIInv, DeletePhases
  <2>4. CASE Finish
    <3>1. phase = "lower" /\ phase' = "mark"
      BY <2>4 DEF Finish
    <3>2. Prepared /\ PartWay(instrs, nblocks, cur, work) /\ Traced(tree, name, instrs, cur, work)
      BY <1>2, <3>1 DEF BuiltIInv, ScopesPhases, GuideIInv
    <3> QED BY <2>4, <3>1, <3>2, LedFinish DEF GuideIInv
  <2>5. CASE MarkReachable \/ Remove \/ StartRun
    <3>1. phase \in {"mark"} \cup DeletePhases /\ phase' # "lower"
            /\ UNCHANGED <<tree, name, instrs>>
      BY <2>5 DEF MarkReachable, Remove, KeepBlock, DeleteBlock, AbortDelete, Onward,
                  unchangedByDeleting, StartRun, irvars, DeletePhases
    <3>2. Led(tree, name, instrs)'
      BY <1>2, <3>1 DEF GuideIInv
    <3> QED BY <3>1, <3>2 DEF GuideIInv
  <2>6. CASE UNCHANGED buildvars
    <3>1. UNCHANGED <<phase, tree, name, instrs, cur, work>>
      BY <2>6 DEF buildvars, scopevars, walkvars, irvars
    <3> QED BY <1>2, <3>1 DEF GuideIInv
  <2>7. CASE Run /\ ~StartRun
    <3>1. UNCHANGED buildvars
      BY <2>7 DEF Run, RunSilent, RunPure, RunRead, RunCallStore, RunStore, RunPrint, RunBr,
                  RunCondBr, Stopped, allvars
    <3> QED BY <2>6, <3>1
  <2>8. CASE NotBuilt \/ UNCHANGED allvars
    BY <2>6, <2>8 DEF NotBuilt, allvars
  <2> QED BY <1>2, <2>1, <2>2, <2>3, <2>4, <2>5, <2>7, <2>8 DEF BRNext, BuildStep
<1> QED BY <1>1, <1>2, BuiltInductive, PTL DEF BRSpec
=============================================================================
