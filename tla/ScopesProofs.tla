---------------------------- MODULE ScopesProofs ----------------------------
(***************************************************************************)
(* The semantic analysis and the renaming are right for every tree.  Both  *)
(* walk the tree with the same stack of scopes, so what is known of their  *)
(* todo is proved once: the nodes are taken in the order of the text, and  *)
(* the scopes that are open when a node is taken are those it is inside    *)
(* of.  With that, a symbol table holds the names declared so far in its   *)
(* scope, and a renaming the names they have been given.                   *)
(***************************************************************************)
EXTENDS Scopes, SequenceTheorems, TLAPS

(***************************************************************************)
(* The tree                                                                *)
(***************************************************************************)

LEMMA TreeFacts ==
  ASSUME WellFormedTree(tree)
  PROVE  /\ tree \in Seq(Node) /\ Len(tree) \in Nat \ {0} /\ DOMAIN tree = 1 .. Len(tree)
         /\ 1 \in DOMAIN tree
         /\ \A n \in DOMAIN tree : /\ tree[n].kind \in Kinds /\ tree[n].ident \in Idents
                                   /\ Kids(n) \in Seq(Nat) /\ Len(Kids(n)) \in Nat
                                   /\ DOMAIN Kids(n) = 1 .. Len(Kids(n))
<1>1. tree \in Seq(Node) /\ tree # <<>>
  BY DEF WellFormedTree
<1>2. Len(tree) \in Nat \ {0} /\ DOMAIN tree = 1 .. Len(tree)
  BY <1>1
<1>3. ASSUME NEW n \in DOMAIN tree
      PROVE  /\ tree[n].kind \in Kinds /\ tree[n].ident \in Idents
             /\ Kids(n) \in Seq(Nat) /\ Len(Kids(n)) \in Nat
             /\ DOMAIN Kids(n) = 1 .. Len(Kids(n))
  <2>1. tree[n] \in Node
    BY <1>1
  <2>2. Kids(n) \in Seq(Nat)
    BY <2>1 DEF Node, Kids
  <2> QED BY <2>1, <2>2 DEF Node
<1> QED BY <1>1, <1>2, <1>3

\* A part comes after what it is a part of, and is a part of nothing else.
LEMMA PartFacts ==
  ASSUME WellFormedTree(tree), NEW n \in DOMAIN tree, NEW k \in DOMAIN Kids(n)
  PROVE  /\ Kids(n)[k] \in DOMAIN tree \ {1} /\ n < Kids(n)[k] /\ Parent(Kids(n)[k]) = n
         /\ \A j \in DOMAIN Kids(n) : j < k => Kids(n)[j] < Kids(n)[k]
<1> DEFINE m == Kids(n)[k]
<1>1. m \in DOMAIN tree /\ n < m /\ \A j \in DOMAIN Kids(n) : j < k => Kids(n)[j] < Kids(n)[k]
  BY DEF WellFormedTree, Kids
<1>2. m # 1
  BY <1>1, TreeFacts
<1>3. PICK p \in DOMAIN tree : Parents(tree, m) = {p}
  BY <1>1, <1>2 DEF WellFormedTree
<1>4. n \in Parents(tree, m)
  BY DEF Parents, Kids
<1>5. Parents(tree, m) = {n}
  BY <1>3, <1>4
<1>6. Parent(m) = n
  BY <1>5 DEF Parent
<1> QED BY <1>1, <1>2, <1>6

LEMMA ParentFacts ==
  ASSUME WellFormedTree(tree), NEW n \in DOMAIN tree, n # 1
  PROVE  /\ Parent(n) \in DOMAIN tree /\ Parent(n) < n
         /\ \E k \in DOMAIN Kids(Parent(n)) : Kids(Parent(n))[k] = n
         /\ \A m \in DOMAIN tree : Parent(n) < m /\ m <= n => Parent(m) >= Parent(n)
<1>1. PICK p \in DOMAIN tree :
        /\ Parents(tree, n) = {p}
        /\ \A m \in p + 1 .. n - 1 : \A q \in Parents(tree, m) : q >= p
  BY DEF WellFormedTree
<1>2. Parent(n) = p
  BY <1>1 DEF Parent
<1>3. PICK k \in DOMAIN Kids(p) : Kids(p)[k] = n
  BY <1>1 DEF Parents, Kids
<1>4. p < n
  BY <1>3, PartFacts
<1>5. ASSUME NEW m \in DOMAIN tree, p < m, m <= n PROVE Parent(m) >= p
  <2>1. CASE m = n
    BY <2>1, <1>2, TreeFacts
  <2>2. CASE m # n
    <3>1. m \in p + 1 .. n - 1
      BY <2>2, <1>5, TreeFacts
    <3>2. m # 1
      BY <1>5, TreeFacts
    <3>3. PICK q \in DOMAIN tree : Parents(tree, m) = {q}
      BY <3>2 DEF WellFormedTree
    <3>4. Parent(m) = q
      BY <3>3 DEF Parent
    <3> QED BY <3>1, <3>3, <3>4, <1>1
  <2> QED BY <2>1, <2>2
<1> QED BY <1>2, <1>3, <1>4, <1>5

\* The func node has the parameter, if any, and the body.
LEMMA RootFacts ==
  ASSUME WellFormedTree(tree)
  PROVE  /\ Body \in DOMAIN tree \ {1} /\ Parent(Body) = 1 /\ tree[Body].kind = "block"
         /\ Params = 2 .. Body - 1 /\ Body \in {2, 3} /\ tree[1].kind = "func"
         /\ \A n \in Params : n \in DOMAIN tree /\ Parent(n) = 1
         /\ \A n \in DOMAIN tree : tree[n].kind = "param" <=> n \in Params
<1> DEFINE l == Len(Kids(1))
<1>1. /\ 1 \in DOMAIN tree /\ l \in {1, 2} /\ DOMAIN Kids(1) = 1 .. l /\ tree[1].kind = "func"
  <2>1. 1 \in DOMAIN tree /\ tree[1].kind = "func"
    BY TreeFacts DEF WellFormedTree
  <2>2. l \in Arity("func")
    BY <2>1 DEF WellFormedTree, Kids
  <2> QED BY <2>1, <2>2, TreeFacts DEF Arity
<1> HIDE DEF l
<1>2. /\ Body = Kids(1)[l] /\ l \in DOMAIN Kids(1) /\ tree[Body].kind = "block"
  <2>1. Body = Kids(1)[l]
    BY DEF Body, l
  <2>2. tree[Body].kind = "block"
    BY DEF Body, WellFormedTree, Kids
  <2> QED BY <2>1, <2>2, <1>1
<1>3. Body \in DOMAIN tree \ {1} /\ Parent(Body) = 1 /\ Body \in Nat
  <2>1. Body \in DOMAIN tree \ {1} /\ Parent(Body) = 1
    BY <1>1, <1>2, PartFacts
  <2> QED BY <2>1, TreeFacts
<1>10. Params \subseteq {Kids(1)[1]}
  <2>1. 1 .. l - 1 \subseteq {1}
    BY <1>1
  <2> QED BY <2>1 DEF Params, l
<1>4. ASSUME NEW n \in DOMAIN tree, n # 1, Parent(n) = 1 PROVE n = Body \/ n \in Params
  <2>1. PICK k \in DOMAIN Kids(1) : Kids(1)[k] = n
    BY <1>4, ParentFacts
  <2>2. k = l \/ k \in 1 .. l - 1
    BY <2>1, <1>1
  <2> QED BY <2>1, <2>2, <1>2 DEF Params, l
<1>5. ASSUME NEW n \in Params PROVE n \in DOMAIN tree /\ n # 1 /\ Parent(n) = 1 /\ n < Body /\ n # Body
  <2>1. PICK k \in 1 .. l - 1 : n = Kids(1)[k]
    BY DEF Params, l
  <2>2. k \in DOMAIN Kids(1) /\ k < l
    BY <2>1, <1>1
  <2>3. n \in DOMAIN tree /\ n # 1 /\ Parent(n) = 1 /\ n < Body
    BY <2>1, <2>2, <1>1, <1>2, PartFacts
  <2> QED BY <2>3, <1>3, TreeFacts
<1>6. ASSUME NEW n \in DOMAIN tree PROVE tree[n].kind = "param" <=> n \in Params
  <2>1. CASE n = 1
    BY <2>1, <1>1, <1>5
  <2>2. CASE n # 1
    <3>1. PICK p \in DOMAIN tree : Parents(tree, n) = {p}
      BY <2>2 DEF WellFormedTree
    <3>2. Parent(n) = p
      BY <3>1 DEF Parent
    <3>3. tree[n].kind = "param" <=> p = 1 /\ n # Body
      BY <3>1 DEF WellFormedTree, Body, Kids
    <3> QED BY <2>2, <3>2, <3>3, <1>4, <1>5
  <2> QED BY <2>1, <2>2
<1>7. ASSUME NEW n \in DOMAIN tree, n < Body, n # 1 PROVE n \in Params
  <2>1. DOMAIN tree = 1 .. Len(tree) /\ Len(tree) \in Nat
    BY TreeFacts
  <2>2. 2 \in DOMAIN tree /\ Parent(2) = 1
    <3>1. 2 \in DOMAIN tree
      BY <2>1, <1>7
    <3>2. Parent(2) < 2 /\ Parent(2) \in DOMAIN tree
      BY <3>1, ParentFacts
    <3> QED BY <3>1, <3>2, <2>1
  <2>3. 2 \in Params
    BY <2>1, <2>2, <1>4, <1>7
  <2>4. CASE n = 2
    BY <2>3, <2>4
  <2>5. CASE n # 2
    <3>1. 3 \in DOMAIN tree /\ 3 <= n
      BY <2>1, <2>5, <1>7
    <3>2. Parent(3) < 3 /\ Parent(3) \in DOMAIN tree
         /\ \E k \in DOMAIN Kids(Parent(3)) : Kids(Parent(3))[k] = 3
      BY <3>1, ParentFacts
    <3>3. DOMAIN Kids(2) = {}
      <4>1. tree[2].kind = "param"
        BY <2>2, <2>3, <1>6
      <4>2. Len(Kids(2)) = 0
        BY <2>2, <4>1 DEF WellFormedTree, Arity, Kids
      <4> QED BY <4>2, <2>2, TreeFacts
    <3>4. Parent(3) = 1
      BY <3>2, <3>3, <2>1
    <3>5. 3 \in Params
      BY <3>1, <3>4, <1>4, <1>7, <2>1
    <3> QED BY <2>3, <3>5, <1>10
  <2> QED BY <2>4, <2>5
<1>8. Params = 2 .. Body - 1
  <2>1. DOMAIN tree = 1 .. Len(tree) /\ Len(tree) \in Nat /\ Body \in DOMAIN tree
    BY <1>3, TreeFacts
  <2>2. \A n \in Params : n \in 2 .. Body - 1
    BY <2>1, <1>5
  <2>3. \A n \in 2 .. Body - 1 : n \in DOMAIN tree /\ n < Body /\ n # 1
    BY <2>1
  <2> QED BY <2>2, <2>3, <1>7
<1>9. Body \in {2, 3}
  <2>2. Body \in Nat /\ Body >= 2
    BY <1>3, TreeFacts
  <2>3. Body > 3 => 2 \in Params /\ 3 \in Params
    BY <2>2, <1>8
  <2> QED BY <1>10, <2>2, <2>3
<1> QED BY <1>1, <1>2, <1>3, <1>5, <1>6, <1>8, <1>9

-----------------------------------------------------------------------------
(***************************************************************************)
(* What is inside of what                                                  *)
(***************************************************************************)

\* What opens a scope: the function, whose body does not, and every other block.
Scope(a) == a = 1 \/ (tree[a].kind = "block" /\ a # Body)

Encloses(a, n) == Scope(a) /\ a # n /\ a \in Around(n)

LEMMA AroundFacts ==
  ASSUME WellFormedTree(tree), NEW n \in DOMAIN tree
  PROVE  /\ n \in Around(n) /\ 1 \in Around(n)
         /\ Around(n) \subseteq DOMAIN tree /\ \A a \in Around(n) : a <= n
         /\ n # 1 => \A a : a \in Around(n) /\ a # n <=> a \in Around(Parent(n))
<1>1. DOMAIN tree = 1 .. Len(tree) /\ Len(tree) \in Nat
  BY TreeFacts
<1>2. n \in Around(n)
  BY <1>1 DEF Around
<1>3. 1 \in Around(n)
  <2>1. ASSUME NEW m \in 2 .. n PROVE Parent(m) >= 1
    <3>1. m \in DOMAIN tree /\ m # 1
      BY <1>1
    <3>2. Parent(m) \in DOMAIN tree
      BY <3>1, ParentFacts
    <3> QED BY <3>2, <1>1
  <2> QED BY <2>1, <1>1 DEF Around
<1>4. Around(n) \subseteq DOMAIN tree /\ \A a \in Around(n) : a <= n
  BY <1>1 DEF Around
<1>5. ASSUME n # 1, NEW a PROVE a \in Around(n) /\ a # n <=> a \in Around(Parent(n))
  <2> DEFINE p == Parent(n)
  <2>1. /\ p \in DOMAIN tree /\ p < n
        /\ \A m \in DOMAIN tree : p < m /\ m <= n => Parent(m) >= p
    BY <1>5, ParentFacts
  <2>2. ASSUME NEW m \in DOMAIN tree, m # 1 PROVE Parent(m) \in Int
    BY <2>2, <1>1, ParentFacts
  <2> HIDE DEF p
  <2>3. ASSUME a \in Around(n), a # n PROVE a \in Around(p)
    <3>1. a \in 1 .. n /\ \A m \in a + 1 .. n : Parent(m) >= a
      BY <2>3 DEF Around
    <3>2. a <= p
      <4>1. n \in a + 1 .. n
        BY <3>1, <2>3, <1>1
      <4> QED BY <3>1, <4>1 DEF p
    <3>3. a \in 1 .. p /\ \A m \in a + 1 .. p : m \in a + 1 .. n
      BY <3>1, <3>2, <2>1, <1>1
    <3> QED BY <3>1, <3>3 DEF Around
  <2>4. ASSUME a \in Around(p) PROVE a \in Around(n) /\ a # n
    <3>1. a \in 1 .. p /\ \A m \in a + 1 .. p : Parent(m) >= a
      BY <2>4 DEF Around
    <3>2. a \in 1 .. n /\ a # n
      BY <3>1, <2>1, <1>1
    <3>3. ASSUME NEW m \in a + 1 .. n PROVE Parent(m) >= a
      <4>1. CASE m <= p
        <5>1. m \in a + 1 .. p
          BY <4>1, <3>1, <1>1, <2>1
        <5> QED BY <5>1, <3>1
      <4>2. CASE m > p
        <5>1. m \in DOMAIN tree /\ m # 1
          BY <3>1, <1>1
        <5>2. Parent(m) >= p /\ Parent(m) \in Int
          BY <5>1, <4>2, <2>1, <2>2
        <5> QED BY <5>2, <3>1, <2>1, <1>1
      <4> QED BY <4>1, <4>2, <1>1, <2>1
    <3> QED BY <3>2, <3>3 DEF Around
  <2> QED BY <2>3, <2>4 DEF p
<1> QED BY <1>2, <1>3, <1>4, <1>5

\* The scopes around a part are those around the whole, and the whole, if it is one.
LEMMA EnclosesPart ==
  ASSUME WellFormedTree(tree), NEW n \in DOMAIN tree, n # 1, NEW a
  PROVE  Encloses(a, n) <=> Encloses(a, Parent(n)) \/ (a = Parent(n) /\ Scope(a))
<1>1. Parent(n) \in DOMAIN tree /\ a \in Around(n) /\ a # n <=> a \in Around(Parent(n))
  BY ParentFacts, AroundFacts
<1>2. Parent(n) \in Around(Parent(n))
  BY ParentFacts, AroundFacts
<1> QED BY <1>1, <1>2, ParentFacts, AroundFacts DEF Encloses

LEMMA EnclosesBody ==
  ASSUME WellFormedTree(tree), NEW a
  PROVE  /\ ~Encloses(a, 1)
         /\ Encloses(a, Body) <=> a = 1
<1>1. ~Encloses(a, 1)
  <2>1. Around(1) \subseteq {1}
    BY TreeFacts DEF Around
  <2> QED BY <2>1 DEF Encloses
<1>2. Encloses(a, Body) <=> a = 1
  <2>1. Body \in DOMAIN tree /\ Body # 1 /\ Parent(Body) = 1
    BY RootFacts
  <2>2. Encloses(a, Body) <=> Encloses(a, 1) \/ (a = 1 /\ Scope(a))
    BY <2>1, EnclosesPart
  <2> QED BY <2>2, <1>1 DEF Scope
<1> QED BY <1>1, <1>2

\* The scope of a declaration is the innermost one around it.
LEMMA DeclScope ==
  ASSUME WellFormedTree(tree), NEW d \in Decls
  PROVE  /\ d \in DOMAIN tree /\ ScopeOf(d) \in DOMAIN tree /\ ScopeOf(d) < d
         /\ Encloses(ScopeOf(d), d) /\ ~Scope(d)
         /\ ScopeOf(d) = Parent(d) \/ (ScopeOf(d) = 1 /\ Parent(d) = Body)
         /\ \A a : Encloses(a, d) => a <= ScopeOf(d)
<1>1. d \in DOMAIN tree /\ tree[d].kind \in {"param", "decl"} /\ d # 1 /\ ~Scope(d)
  BY RootFacts DEF Decls, Scope
<1>2. Parent(d) \in DOMAIN tree /\ Parent(d) < d
  BY <1>1, ParentFacts
<1>3. DOMAIN tree = 1 .. Len(tree) /\ Len(tree) \in Nat
  BY TreeFacts
<1>4. CASE Parent(d) = Body
  <2>1. ScopeOf(d) = 1
    BY <1>4 DEF ScopeOf
  <2>2. \A a : Encloses(a, d) <=> a = 1
    <3> SUFFICES ASSUME NEW a PROVE Encloses(a, d) <=> a = 1
      OBVIOUS
    <3>1. ~Scope(Body)
      BY RootFacts DEF Scope
    <3> QED BY <3>1, <1>1, <1>4, EnclosesPart, EnclosesBody
  <2> QED BY <2>1, <2>2, <1>1, <1>2, <1>3, <1>4
<1>5. CASE Parent(d) # Body
  <2>1. ScopeOf(d) = Parent(d)
    BY <1>5 DEF ScopeOf
  <2>2. Scope(Parent(d))
    <3>1. CASE tree[d].kind = "param"
      BY <3>1, <1>1, RootFacts DEF Scope
    <3>2. CASE tree[d].kind = "decl"
      <4>1. PICK k \in DOMAIN Kids(Parent(d)) : Kids(Parent(d))[k] = d
        BY <1>1, ParentFacts
      <4>2. Parent(d) \in Parents(tree, d)
        BY <4>1, <1>2 DEF Parents, Kids
      <4>3. tree[Parent(d)].kind = "block"
        BY <4>2, <3>2, <1>1 DEF WellFormedTree
      <4> QED BY <4>3, <1>5 DEF Scope
    <3> QED BY <3>1, <3>2, <1>1
  <2>3. Encloses(Parent(d), d)
    BY <2>2, <1>1, EnclosesPart
  <2>4. ASSUME NEW a, Encloses(a, d) PROVE a <= Parent(d)
    <3>1. a \in Around(Parent(d))
      BY <2>4, <1>1, AroundFacts DEF Encloses
    <3> QED BY <3>1, <1>2, AroundFacts
  <2> QED BY <2>1, <2>3, <2>4, <1>1, <1>2
<1> QED BY <1>4, <1>5

\* A declaration before n, in a scope around a scope that n is in, comes before that one.
LEMMA OuterFirst ==
  ASSUME WellFormedTree(tree), NEW d \in Decls, NEW n \in DOMAIN tree, d < n,
         NEW a, Encloses(a, n), ScopeOf(d) < a
  PROVE  d < a
<1>1. DOMAIN tree = 1 .. Len(tree) /\ Len(tree) \in Nat
  BY TreeFacts
<1>2. /\ d \in DOMAIN tree /\ ScopeOf(d) \in DOMAIN tree
      /\ ScopeOf(d) = Parent(d) \/ (ScopeOf(d) = 1 /\ Parent(d) = Body)
      /\ ~Scope(d)
  BY DeclScope
<1>3. a \in 1 .. n /\ \A m \in a + 1 .. n : Parent(m) >= a
  BY DEF Encloses, Around
<1>4. Scope(a) /\ a # 1 /\ a # d
  BY <1>1, <1>2, <1>3 DEF Encloses
<1>5. a > Body
  <2>1. a \in DOMAIN tree /\ tree[a].kind = "block" /\ a # Body
    BY <1>1, <1>3, <1>4 DEF Scope
  <2>2. a \notin Params
    <3>1. tree[a].kind # "param"
      BY <2>1
    <3> QED BY <3>1, <2>1, RootFacts
  <2>3. Params = 2 .. Body - 1 /\ Body \in {2, 3}
    BY RootFacts
  <2> QED BY <2>1, <2>2, <2>3, <1>1, <1>4
<1>6. ASSUME d > a PROVE FALSE
  <2>1. d \in a + 1 .. n
    BY <1>6, <1>1, <1>2, <1>3
  <2>2. Parent(d) >= a
    BY <2>1, <1>3
  <2>3. ScopeOf(d) = Parent(d)
    <3>1. Body \in {2, 3}
      BY RootFacts
    <3> QED BY <3>1, <2>2, <1>2, <1>3, <1>5
  <2> QED BY <2>2, <2>3, <1>1, <1>2, <1>3
<1> QED BY <1>1, <1>2, <1>3, <1>4, <1>6

\* What opens no scope is inside of a scope around it, and of no other.
LEMMA InScope ==
  ASSUME WellFormedTree(tree), NEW d \in Decls, NEW n \in DOMAIN tree, ~Scope(n)
  PROVE  ScopeOf(d) \in Around(n) <=> Encloses(ScopeOf(d), n)
<1>1. Scope(ScopeOf(d))
  BY DeclScope DEF Encloses
<1> QED BY <1>1 DEF Encloses

-----------------------------------------------------------------------------
(***************************************************************************)
(* The walk                                                                *)
(***************************************************************************)

\* The tasks counted from the last one: those that stay keep their places.
TaskAt(p) == todo[Len(todo) + 1 - p]

Places == 1 .. Len(todo)

\* The nodes before node next have been taken; of the others, those that are parts of one
\* that has been taken are to be visited.
Pending(m, next) == m \in DOMAIN tree /\ m >= next /\ (m = 1 \/ Parent(m) < next)

AllPending(next) == \A m : m # leave => (Pending(m, next) <=> \E p \in Places : TaskAt(p) = m)

InOrder ==
  \A p, q \in Places : q < p /\ TaskAt(p) # leave /\ TaskAt(q) # leave => TaskAt(p) < TaskAt(q)

\* depth[p] scopes are open when TaskAt(p) is next.
Depths(depth) ==
  /\ \A p \in Places : depth[p] = IF TaskAt(p) = leave THEN depth[p - 1] + 1 ELSE depth[p - 1]
  /\ \A p, q \in 0 .. Len(todo) : q <= p => depth[q] <= depth[p]

\* Of the scopes that are open now, those are the ones around it.
Enclosed(scopes, depth) ==
  \A p \in Places : TaskAt(p) # leave =>
    \A a : Encloses(a, TaskAt(p)) <=> \E k \in 1 .. depth[p] : scopes[k] = a

NestedScopes(scopes) == \A j, k \in DOMAIN scopes : j < k => scopes[j] < scopes[k]

Tasks == {leave} \cup DOMAIN tree

WalkOK(next, scopes, depth) ==
  /\ todo \in Seq(Tasks)
  /\ next \in Nat \ {0} /\ next <= Len(tree) + 1
  /\ scopes \in Seq(DOMAIN tree) /\ NestedScopes(scopes)
  /\ depth \in [Nat -> Nat] /\ depth[Len(todo)] = Len(scopes) /\ Depths(depth)
  /\ AllPending(next) /\ InOrder /\ Enclosed(scopes, depth)

LEMMA TaskFacts ==
  ASSUME todo \in Seq(Tasks)
  PROVE  /\ Len(todo) \in Nat /\ \A p \in Places : TaskAt(p) \in Tasks
         /\ todo # <<>> => Len(todo) \in Places /\ TaskAt(Len(todo)) = Head(todo)
<1>1. Len(todo) \in Nat /\ DOMAIN todo = 1 .. Len(todo)
  OBVIOUS
<1>2. ASSUME NEW p \in Places PROVE TaskAt(p) \in Tasks
  <2>1. Len(todo) + 1 - p \in DOMAIN todo
    BY <1>1 DEF Places
  <2> QED BY <2>1 DEF TaskAt
<1>3. ASSUME todo # <<>> PROVE Len(todo) \in Places /\ TaskAt(Len(todo)) = Head(todo)
  <2>1. Len(todo) >= 1 /\ Len(todo) + 1 - Len(todo) = 1 /\ Head(todo) = todo[1]
    BY <1>1, <1>3
  <2> QED BY <2>1 DEF Places, TaskAt
<1> QED BY <1>1, <1>2, <1>3

LEMMA TasksGoOn ==
  ASSUME todo \in Seq(Tasks), todo # <<>>, NEW tasks \in Seq(Tasks), GoOn(tasks)
  PROVE  /\ todo' \in Seq(Tasks)
         /\ Len(todo') = Len(todo) - 1 + Len(tasks)
         /\ \A p \in 1 .. Len(todo) - 1 : TaskAt(p)' = TaskAt(p)
         /\ \A p \in Len(todo) .. Len(todo') :
              /\ Len(todo') + 1 - p \in DOMAIN tasks
              /\ TaskAt(p)' = tasks[Len(todo') + 1 - p]
<1> DEFINE rest == Tail(todo)
<1>1. /\ Len(todo) \in Nat \ {0} /\ Len(tasks) \in Nat
      /\ rest \in Seq(Tasks) /\ Len(rest) = Len(todo) - 1
      /\ \A i \in 1 .. Len(rest) : rest[i] = todo[i + 1]
  OBVIOUS
<1>2. todo' = tasks \o rest
  BY DEF GoOn
<1> HIDE DEF rest
<1>3. /\ todo' \in Seq(Tasks) /\ Len(todo') = Len(todo) - 1 + Len(tasks)
      /\ \A i \in 1 .. Len(tasks) : todo'[i] = tasks[i]
      /\ \A i \in 1 .. Len(rest) : todo'[Len(tasks) + i] = rest[i]
  <2>1. /\ todo' \in Seq(Tasks) /\ Len(todo') = Len(tasks) + Len(rest)
        /\ \A i \in 1 .. Len(tasks) + Len(rest) :
             todo'[i] = IF i <= Len(tasks) THEN tasks[i] ELSE rest[i - Len(tasks)]
    BY <1>1, <1>2, ConcatProperties
  <2>2. \A i \in 1 .. Len(rest) : /\ Len(tasks) + i \in 1 .. Len(tasks) + Len(rest)
                                  /\ ~(Len(tasks) + i <= Len(tasks))
                                  /\ Len(tasks) + i - Len(tasks) = i
    BY <1>1
  <2>3. \A i \in 1 .. Len(tasks) : i \in 1 .. Len(tasks) + Len(rest) /\ i <= Len(tasks)
    BY <1>1
  <2> QED BY <2>1, <2>2, <2>3, <1>1
<1>4. ASSUME NEW p \in 1 .. Len(todo) - 1 PROVE TaskAt(p)' = TaskAt(p)
  <2> DEFINE i == Len(todo) - p
  <2>1. i \in 1 .. Len(rest) /\ Len(todo') + 1 - p = Len(tasks) + i /\ i + 1 = Len(todo) + 1 - p
    BY <1>1, <1>3
  <2>2. todo'[Len(tasks) + i] = todo[i + 1]
    BY <2>1, <1>1, <1>3
  <2> QED BY <2>1, <2>2 DEF TaskAt
<1>5. ASSUME NEW p \in Len(todo) .. Len(todo')
      PROVE  /\ Len(todo') + 1 - p \in DOMAIN tasks
             /\ TaskAt(p)' = tasks[Len(todo') + 1 - p]
  <2>1. Len(todo') + 1 - p \in 1 .. Len(tasks)
    BY <1>1, <1>3
  <2> QED BY <2>1, <1>3 DEF TaskAt
<1> QED BY <1>3, <1>4, <1>5

\* The node taken is always the next one in the text.
LEMMA TakesNext ==
  ASSUME WellFormedTree(tree), NEW next, NEW scopes, NEW depth, WalkOK(next, scopes, depth)
  PROVE  /\ todo # <<>> /\ Head(todo) # leave => Head(todo) = next /\ next \in DOMAIN tree
         /\ todo = <<>> => next = Len(tree) + 1
<1>1. /\ DOMAIN tree = 1 .. Len(tree) /\ Len(tree) \in Nat
      /\ todo \in Seq(Tasks) /\ next \in Nat \ {0} /\ next <= Len(tree) + 1
      /\ AllPending(next) /\ InOrder
  BY TreeFacts DEF WalkOK
<1>2. ASSUME next \in DOMAIN tree PROVE \E p \in Places : TaskAt(p) = next
  <2>1. next # 1 => Parent(next) < next
    BY <1>2, ParentFacts
  <2>2. Pending(next, next) /\ next # leave
    BY <1>1, <1>2, <2>1 DEF Pending, leave
  <2> QED BY <2>2, <1>1 DEF AllPending
<1>3. ASSUME todo # <<>>, Head(todo) # leave PROVE Head(todo) = next /\ next \in DOMAIN tree
  <2>1. Len(todo) \in Places /\ TaskAt(Len(todo)) = Head(todo) /\ Head(todo) \in DOMAIN tree
    BY <1>1, <1>3, TaskFacts DEF Tasks
  <2>2. Head(todo) >= next
    BY <2>1, <1>1, <1>3 DEF AllPending, Pending
  <2>3. next \in DOMAIN tree
    BY <2>1, <2>2, <1>1
  <2>4. PICK p \in Places : TaskAt(p) = next
    BY <2>3, <1>2
  <2>5. p < Len(todo) => Head(todo) < next
    <3>1. next # leave
      BY <1>1 DEF leave
    <3> QED BY <3>1, <2>1, <2>4, <1>1, <1>3 DEF InOrder
  <2>6. p < Len(todo) \/ p = Len(todo)
    BY <1>1, TaskFacts DEF Places
  <2> QED BY <2>1, <2>2, <2>3, <2>4, <2>5, <2>6, <1>1
<1>4. ASSUME todo = <<>> PROVE next = Len(tree) + 1
  <2>1. Places = {}
    BY <1>4 DEF Places
  <2>2. next \notin DOMAIN tree
    BY <2>1, <1>2
  <2> QED BY <2>2, <1>1
<1> QED BY <1>3, <1>4

\* The node whose parts are visited when node n is: the function leaves out its parameter.
Visits(n, b) == b = n \/ (n = 1 /\ b = Body)

LEMMA PartsNext ==
  ASSUME WellFormedTree(tree), NEW n \in DOMAIN tree, NEW b \in DOMAIN tree, Visits(n, b), NEW m
  PROVE  /\ Pending(m, b + 1) <=> \/ m \in DOMAIN tree /\ m # 1 /\ Parent(m) = b
                                  \/ Pending(m, n) /\ m # n
         /\ Pending(m, n) /\ m # n =>
              \A k \in DOMAIN tree : k # 1 /\ Parent(k) = b => k < m
<1>1. DOMAIN tree = 1 .. Len(tree) /\ Len(tree) \in Nat
  BY TreeFacts
<1>2. ASSUME NEW k \in DOMAIN tree, k # 1
      PROVE  Parent(k) \in DOMAIN tree /\ Parent(k) < k
  BY <1>2, ParentFacts
<1>3. ASSUME b = n
      PROVE  /\ Pending(m, b + 1) <=> \/ m \in DOMAIN tree /\ m # 1 /\ Parent(m) = b
                                      \/ Pending(m, n) /\ m # n
             /\ Pending(m, n) /\ m # n =>
                  \A k \in DOMAIN tree : k # 1 /\ Parent(k) = b => k < m
  <2>1. m \in DOMAIN tree /\ m # 1 =>
          (m >= n + 1 /\ Parent(m) < n + 1 <=> Parent(m) = n \/ (m >= n /\ Parent(m) < n /\ m # n))
    BY <1>1, <1>2
  <2>2. Pending(m, b + 1) <=> \/ m \in DOMAIN tree /\ m # 1 /\ Parent(m) = b
                              \/ Pending(m, n) /\ m # n
    BY <2>1, <1>1, <1>2, <1>3 DEF Pending
  <2>3. ASSUME Pending(m, n), m # n, NEW k \in DOMAIN tree, k # 1, Parent(k) = n PROVE k < m
    <3>1. m \in DOMAIN tree /\ m > n /\ m # 1 /\ Parent(m) < n
      BY <2>3, <1>1 DEF Pending
    <3>2. m <= k => Parent(m) >= n
      BY <2>3, <3>1, ParentFacts
    <3>3. Parent(m) \in DOMAIN tree
      BY <3>1, <1>2
    <3> QED BY <3>1, <3>2, <3>3, <1>1
  <2> QED BY <2>2, <2>3, <1>3
<1>4. ASSUME n = 1, b = Body
      PROVE  /\ Pending(m, b + 1) <=> m \in DOMAIN tree /\ m # 1 /\ Parent(m) = b
             /\ ~(Pending(m, n) /\ m # n)
  <2>1. Body \in DOMAIN tree /\ Body \in {2, 3} /\ Parent(Body) = 1 /\ Params = 2 .. Body - 1
    BY RootFacts
  <2>2. ~(Pending(m, n) /\ m # n)
    BY <1>1, <1>2, <1>4 DEF Pending
  <2>3. ASSUME m \in DOMAIN tree, m # 1, Parent(m) = b PROVE Pending(m, b + 1)
    BY <2>3, <1>1, <1>2 DEF Pending
  <2>4. ASSUME Pending(m, b + 1) PROVE m \in DOMAIN tree /\ m # 1 /\ Parent(m) = b
    <3>1. m \in DOMAIN tree /\ m # 1 /\ m > Body /\ Parent(m) <= Body /\ Parent(m) \in 1 .. m - 1
      BY <2>1, <2>4, <1>1, <1>2, <1>4 DEF Pending
    <3>2. CASE Parent(m) = 1
      <4>1. PICK k \in DOMAIN Kids(1) : Kids(1)[k] = m
        BY <3>1, <3>2, ParentFacts
      <4>2. 1 \in DOMAIN tree /\ Len(Kids(1)) \in Nat /\ DOMAIN Kids(1) = 1 .. Len(Kids(1))
        BY TreeFacts
      <4>3. Len(Kids(1)) \in DOMAIN Kids(1) /\ (k = Len(Kids(1)) \/ k < Len(Kids(1)))
        BY <4>1, <4>2
      <4>4. k < Len(Kids(1)) => m < Body
        BY <4>1, <4>2, <4>3, PartFacts DEF Body
      <4> QED BY <4>1, <4>3, <4>4, <3>1, <2>1, <1>1 DEF Body
    <3>3. CASE Parent(m) # 1
      <4>1. Parent(m) < Body => Parent(Body) >= Parent(m)
        BY <2>1, <3>1, <1>1, ParentFacts
      <4> QED BY <4>1, <3>1, <3>3, <2>1, <1>1, <1>4
    <3> QED BY <3>1, <3>2, <3>3
  <2> QED BY <2>2, <2>3, <2>4
<1> QED BY <1>3, <1>4 DEF Visits

LEMMA PartsEnclosed ==
  ASSUME WellFormedTree(tree), NEW n \in DOMAIN tree, NEW b \in DOMAIN tree, Visits(n, b),
         NEW m \in DOMAIN tree, m # 1, Parent(m) = b, NEW a
  PROVE  Encloses(a, m) <=> Encloses(a, n) \/ (a = n /\ Scope(n))
<1>1. Encloses(a, m) <=> Encloses(a, b) \/ (a = b /\ Scope(b))
  BY EnclosesPart
<1>2. CASE b = n
  BY <1>1, <1>2
<1>3. CASE n = 1 /\ b = Body
  <2>1. ~Scope(Body)
    BY RootFacts DEF Scope
  <2> QED BY <1>1, <1>3, <2>1, EnclosesBody DEF Scope
<1> QED BY <1>2, <1>3 DEF Visits

\* What is put in the place of node n for the parts of node b, and a leave if n is a scope.
Replaces(tasks, n, b) ==
  /\ tasks \in Seq(Tasks)
  /\ \A m : m # leave =>
       ((\E k \in DOMAIN tasks : tasks[k] = m) <=> m \in DOMAIN tree /\ m # 1 /\ Parent(m) = b)
  /\ \A j, k \in DOMAIN tasks :
       j < k /\ tasks[j] # leave /\ tasks[k] # leave => tasks[j] < tasks[k]
  /\ \A k \in DOMAIN tasks : tasks[k] = leave <=> Scope(n) /\ k = Len(tasks)
  /\ Scope(n) => tasks # <<>>

LEMMA KidsReplace ==
  ASSUME WellFormedTree(tree), NEW n \in DOMAIN tree, NEW b \in DOMAIN tree
  PROVE  /\ ~Scope(n) => Replaces(Kids(b), n, b)
         /\ Scope(n) => Replaces(Kids(b) \o <<leave>>, n, b)
<1> DEFINE l == Len(Kids(b))
<1>1. l \in Nat /\ DOMAIN Kids(b) = 1 .. l
  BY TreeFacts
<1>2. DOMAIN tree = 1 .. Len(tree) /\ Len(tree) \in Nat
  BY TreeFacts
<1>3. \A k \in 1 .. l : Kids(b)[k] \in DOMAIN tree /\ Kids(b)[k] # leave
  <2>1. \A k \in 1 .. l : Kids(b)[k] \in DOMAIN tree
    BY <1>1, PartFacts
  <2> QED BY <2>1, <1>2 DEF leave
<1>4. \A m : (\E k \in 1 .. l : Kids(b)[k] = m) <=> m \in DOMAIN tree /\ m # 1 /\ Parent(m) = b
  <2>1. ASSUME NEW k \in 1 .. l
        PROVE  Kids(b)[k] \in DOMAIN tree /\ Kids(b)[k] # 1 /\ Parent(Kids(b)[k]) = b
    BY <1>1, PartFacts
  <2>2. ASSUME NEW m \in DOMAIN tree, m # 1, Parent(m) = b PROVE \E k \in 1 .. l : Kids(b)[k] = m
    BY <2>2, <1>1, ParentFacts
  <2> QED BY <2>1, <2>2
<1>5. \A j, k \in 1 .. l : j < k => Kids(b)[j] < Kids(b)[k]
  BY <1>1, PartFacts
<1>6. Kids(b) \in Seq(Tasks)
  <2>1. Kids(b) \in Seq(Nat)
    BY TreeFacts
  <2>2. \A k \in 1 .. Len(Kids(b)) : Kids(b)[k] \in Tasks
    BY <1>3 DEF Tasks
  <2> QED BY <2>1, <2>2
<1>7. ASSUME ~Scope(n) PROVE Replaces(Kids(b), n, b)
  BY <1>1, <1>3, <1>4, <1>5, <1>6, <1>7 DEF Replaces
<1>8. ASSUME Scope(n) PROVE Replaces(Kids(b) \o <<leave>>, n, b)
  <2> DEFINE tasks == Kids(b) \o <<leave>>
  <2>1. /\ tasks \in Seq(Tasks) /\ Len(tasks) = l + 1
        /\ \A k \in 1 .. l + 1 : tasks[k] = IF k <= l THEN Kids(b)[k] ELSE <<leave>>[k - l]
    <3>1. <<leave>> \in Seq(Tasks) /\ Len(<<leave>>) = 1
      BY DEF Tasks
    <3> QED BY <3>1, <1>6, ConcatProperties
  <2> HIDE DEF tasks
  <2>2. DOMAIN tasks = 1 .. l + 1 /\ tasks[l + 1] = leave /\ \A k \in 1 .. l : tasks[k] = Kids(b)[k]
    BY <2>1, <1>1
  <2> HIDE DEF l
  <2>3. \A m : m # leave => ((\E k \in DOMAIN tasks : tasks[k] = m) <=>
                              \E k \in 1 .. l : Kids(b)[k] = m)
    <3>1. \A k \in DOMAIN tasks : k \in 1 .. l \/ k = l + 1
      BY <2>2, <1>1
    <3>2. 1 .. l \subseteq DOMAIN tasks
      BY <2>2, <1>1
    <3> QED BY <3>1, <3>2, <2>2
  <2>4. \A j, k \in DOMAIN tasks :
          j < k /\ tasks[j] # leave /\ tasks[k] # leave => tasks[j] < tasks[k]
    <3>1. \A k \in DOMAIN tasks : tasks[k] # leave => k \in 1 .. l
      BY <2>2, <1>1
    <3> QED BY <3>1, <2>2, <1>5
  <2>5. \A k \in DOMAIN tasks : tasks[k] = leave <=> k = Len(tasks)
    <3>1. \A k \in DOMAIN tasks : k \in 1 .. l \/ k = l + 1
      BY <2>2, <1>1
    <3>2. \A k \in 1 .. l : tasks[k] # leave /\ k # l + 1
      BY <2>2, <1>1, <1>3
    <3> QED BY <3>1, <3>2, <2>1, <2>2
  <2>6. tasks # <<>>
    BY <2>1, <1>1
  <2>7. Replaces(tasks, n, b)
    BY <2>1, <2>3, <2>4, <2>5, <2>6, <1>4, <1>8 DEF Replaces
  <2> QED BY <2>7 DEF tasks
<1> QED BY <1>7, <1>8

LEMMA SameTree ==
  ASSUME tree' = tree
  PROVE  /\ Body' = Body /\ Params' = Params /\ Uses' = Uses /\ Decls' = Decls /\ Tasks' = Tasks
         /\ \A n : /\ Kids(n)' = Kids(n) /\ Parent(n)' = Parent(n) /\ ScopeOf(n)' = ScopeOf(n)
                   /\ Around(n)' = Around(n) /\ Scope(n)' = Scope(n)
         /\ \A m, n : Encloses(m, n)' = Encloses(m, n) /\ Pending(m, n)' = Pending(m, n)
<1>1. \A n : Kids(n)' = Kids(n)
  BY DEF Kids
<1>2. Body' = Body /\ Params' = Params
  BY <1>1 DEF Body, Params, Kids
<1>3. Uses' = Uses /\ Decls' = Decls /\ Tasks' = Tasks
  BY DEF Uses, Decls, Tasks
<1>4. \A n : Parent(n)' = Parent(n)
  BY DEF Parent
<1>5. \A n : ScopeOf(n)' = ScopeOf(n) /\ Around(n)' = Around(n) /\ Scope(n)' = Scope(n)
  BY <1>2, <1>4 DEF ScopeOf, Around, Scope
<1>6. \A m, n : Encloses(m, n)' = Encloses(m, n) /\ Pending(m, n)' = Pending(m, n)
  BY <1>4, <1>5 DEF Encloses, Pending
<1> QED BY <1>1, <1>2, <1>3, <1>4, <1>5, <1>6

\* The scopes open after node n has been visited.
Opened(scopes, n) == IF Scope(n) THEN Append(scopes, n) ELSE scopes

LEMMA OpenedFacts ==
  ASSUME WellFormedTree(tree), NEW scopes \in Seq(DOMAIN tree), NEW n \in DOMAIN tree
  PROVE  /\ Opened(scopes, n) \in Seq(DOMAIN tree)
         /\ \A k \in 1 .. Len(scopes) : Opened(scopes, n)[k] = scopes[k]
         /\ Scope(n) => /\ Len(Opened(scopes, n)) = Len(scopes) + 1
                        /\ Opened(scopes, n)[Len(scopes) + 1] = n
         /\ ~Scope(n) => Len(Opened(scopes, n)) = Len(scopes)
<1>1. CASE Scope(n)
  <2>1. Opened(scopes, n) = Append(scopes, n)
    BY <1>1 DEF Opened
  <2>2. /\ Append(scopes, n) \in Seq(DOMAIN tree) /\ Len(Append(scopes, n)) = Len(scopes) + 1
        /\ \A k \in 1 .. Len(scopes) : Append(scopes, n)[k] = scopes[k]
        /\ Append(scopes, n)[Len(scopes) + 1] = n
    OBVIOUS
  <2> QED BY <1>1, <2>1, <2>2
<1>2. CASE ~Scope(n)
  BY <1>2 DEF Opened
<1> QED BY <1>1, <1>2

LEMMA Intervals ==
  /\ \A x, y \in Nat : x <= y => \A k \in 1 .. x : k \in 1 .. y
  /\ \A x, y, z \in Nat : x <= y /\ y <= z => x <= z
  /\ \A x \in Nat : \A k \in 1 .. x : k + 1 \in Nat \ {0} /\ k + 1 <= x + 1
  OBVIOUS

LEMMA VisitWalk ==
  ASSUME WellFormedTree(tree), tree' = tree,
         NEW next, NEW scopes, NEW depth, WalkOK(next, scopes, depth),
         todo # <<>>, Head(todo) # leave, NEW b \in DOMAIN tree, Visits(next, b),
         NEW tasks, Replaces(tasks, next, b), GoOn(tasks)
  PROVE  \E d : WalkOK(b + 1, Opened(scopes, next), d)'
<1>1. /\ DOMAIN tree = 1 .. Len(tree) /\ Len(tree) \in Nat
      /\ next \in DOMAIN tree /\ Head(todo) = next
  BY TreeFacts, TakesNext
<1>2. /\ todo \in Seq(Tasks) /\ next \in Nat \ {0}
      /\ scopes \in Seq(DOMAIN tree) /\ NestedScopes(scopes)
      /\ depth \in [Nat -> Nat] /\ depth[Len(todo)] = Len(scopes) /\ Depths(depth)
      /\ AllPending(next) /\ InOrder /\ Enclosed(scopes, depth)
  BY DEF WalkOK
<1>3. PICK N \in Nat \ {0} : N = Len(todo)
  BY <1>2
<1>4. PICK L \in Nat : L = Len(scopes)
  BY <1>2
<1>5. PICK more \in Seq(DOMAIN tree) : more = Opened(scopes, next)
  BY <1>1, <1>2, OpenedFacts
<1>6. PICK K \in Nat : K = Len(more)
  OBVIOUS
<1>7. /\ \A k \in 1 .. L : more[k] = scopes[k]
      /\ Scope(next) => K = L + 1 /\ more[L + 1] = next
      /\ ~Scope(next) => K = L
  BY <1>1, <1>2, <1>4, <1>5, <1>6, OpenedFacts
<1>35. L <= K
  <2>1. K = L + 1 \/ K = L
    BY <1>7
  <2> QED BY <2>1
<1>8. DOMAIN scopes = 1 .. L /\ DOMAIN more = 1 .. K
  BY <1>2, <1>4, <1>6
<1>9. tasks \in Seq(Tasks)
  BY DEF Replaces
<1>10. PICK T \in Nat : T = Len(tasks) /\ DOMAIN tasks = 1 .. T
  BY <1>9
<1>31. todo' \in Seq(Tasks) /\ Len(todo') \in Nat
  <2>1. todo' \in Seq(Tasks)
    BY <1>2, <1>3, <1>9, TasksGoOn
  <2> QED BY <2>1
<1>11. PICK M \in Nat : M = Len(todo')
  BY <1>31
<1>12. /\ todo' \in Seq(Tasks) /\ M = N - 1 + T
       /\ \A p \in 1 .. N - 1 : TaskAt(p)' = TaskAt(p)
       /\ \A p \in N .. M : M + 1 - p \in DOMAIN tasks /\ TaskAt(p)' = tasks[M + 1 - p]
  BY <1>2, <1>3, <1>9, <1>10, <1>11, TasksGoOn
<1>13. M = N - 1 + T /\ M \in Nat
  BY <1>12
<1>14. Places' = 1 .. M /\ Places = 1 .. N
  BY <1>3, <1>11 DEF Places
<1>15. TaskAt(N) = next /\ next # leave /\ N \in Places
  <2>1. TaskAt(N) = next
    BY <1>1, <1>2, <1>3, TaskFacts
  <2> QED BY <2>1, <1>2, <1>3, <1>14 DEF leave
<1>16. \A p \in Nat : depth[p] \in Nat
  BY <1>2
<1>17. depth[N] = L /\ depth[N - 1] = L /\ \A q \in 0 .. N : depth[q] <= L
  <2>1. depth[N] = depth[N - 1]
    BY <1>2, <1>15 DEF Depths
  <2>2. depth[N] = L
    BY <1>2, <1>3, <1>4
  <2>3. \A q \in 0 .. N : depth[q] <= depth[N]
    <3>1. N \in 0 .. Len(todo) /\ Len(todo) = N
      BY <1>3
    <3> QED BY <3>1, <1>2 DEF Depths
  <2> QED BY <2>1, <2>2, <2>3
<1>18. PICK d \in [Nat -> Nat] : \A p \in Nat : d[p] = IF p <= N - 1 THEN depth[p] ELSE K
  <2>1. [p \in Nat |-> IF p <= N - 1 THEN depth[p] ELSE K] \in [Nat -> Nat]
    BY <1>16
  <2> QED BY <2>1
<1>19. /\ \A p \in Nat : p <= N - 1 => d[p] = depth[p]
       /\ \A p \in Nat : ~(p <= N - 1) => d[p] = K
  BY <1>18
\* Nothing has changed below the place of the node.
<1>20. ASSUME NEW p \in 1 .. M, p <= N - 1
       PROVE  p \in Places /\ TaskAt(p)' = TaskAt(p) /\ d[p] = depth[p] /\ d[p - 1] = depth[p - 1]
  <2>1. p \in Nat /\ p - 1 \in Nat /\ p - 1 <= N - 1 /\ p \in 1 .. N - 1 /\ p \in 1 .. N
    BY <1>20, <1>13
  <2>2. d[p] = depth[p] /\ d[p - 1] = depth[p - 1]
    BY <2>1, <1>19, <1>20
  <2> QED BY <2>1, <2>2, <1>12, <1>14
<1>21. ASSUME NEW p \in 1 .. M, ~(p <= N - 1)
       PROVE  /\ d[p] = K /\ M + 1 - p \in DOMAIN tasks /\ TaskAt(p)' = tasks[M + 1 - p]
  <2>1. p \in Nat /\ p \in N .. M
    BY <1>21, <1>13
  <2> QED BY <2>1, <1>12, <1>19, <1>21
<1>22. NestedScopes(more)
  <2> SUFFICES ASSUME NEW j \in 1 .. K, NEW k \in 1 .. K, j < k
               PROVE  more[j] < more[k]
    BY <1>8 DEF NestedScopes
  <2>1. CASE k <= L
    <3>1. j \in 1 .. L /\ k \in 1 .. L
      BY <2>1
    <3>2. scopes[j] < scopes[k]
      BY <3>1, <1>2, <1>8 DEF NestedScopes
    <3> QED BY <3>1, <3>2, <1>7
  <2>2. CASE ~(k <= L)
    <3>1. Scope(next)
      BY <2>2, <1>7
    <3>2. k = L + 1 /\ j \in 1 .. L
      BY <2>2, <3>1, <1>7
    <3>3. Encloses(scopes[j], next)
      BY <3>2, <1>2, <1>15, <1>17 DEF Enclosed
    <3>4. scopes[j] <= next /\ scopes[j] # next /\ scopes[j] \in DOMAIN tree
      BY <3>3, <1>1, AroundFacts DEF Encloses
    <3>5. scopes[j] < next
      <4>1. \A x, y \in DOMAIN tree : x <= y /\ x # y => x < y
        BY <1>1
      <4> QED BY <4>1, <3>4, <1>1
    <3>6. more[j] = scopes[j] /\ more[k] = next
      BY <3>1, <3>2, <1>7
    <3> QED BY <3>5, <3>6
  <2> QED BY <2>1, <2>2
<1>23. d[M] = K
  <2>1. CASE M >= N
    BY <2>1, <1>13, <1>19
  <2>2. CASE ~(M >= N)
    <3>1. M = N - 1 /\ T = 0
      BY <2>2, <1>13
    <3>2. tasks = <<>>
      BY <3>1, <1>9, <1>10
    <3>3. ~Scope(next)
      BY <3>2 DEF Replaces
    <3>4. K = L
      BY <3>3, <1>7
    <3> QED BY <3>1, <3>4, <1>13, <1>17, <1>19
  <2> QED BY <2>1, <2>2
<1>24. Depths(d)'
  <2>1. ASSUME NEW p \in 1 .. M
        PROVE  d[p] = IF TaskAt(p)' = leave THEN d[p - 1] + 1 ELSE d[p - 1]
    <3>1. CASE p <= N - 1
      <4>1. p \in Places /\ TaskAt(p)' = TaskAt(p) /\ d[p] = depth[p] /\ d[p - 1] = depth[p - 1]
        BY <3>1, <1>20
      <4> QED BY <4>1, <1>2 DEF Depths
    <3>2. CASE ~(p <= N - 1)
      <4>1. d[p] = K /\ (TaskAt(p)' = leave <=> Scope(next) /\ M + 1 - p = T)
        BY <3>2, <1>10, <1>21 DEF Replaces
      <4>2. M + 1 - p = T <=> p = N
        BY <1>13
      <4>3. CASE p = N
        <5>1. d[p - 1] = L
          <6>1. N - 1 \in Nat /\ N - 1 <= N - 1
            OBVIOUS
          <6> QED BY <6>1, <4>3, <1>17, <1>19
        <5>2. Scope(next) => K = L + 1
          BY <1>7
        <5>3. ~Scope(next) => K = L
          BY <1>7
        <5> QED BY <5>1, <5>2, <5>3, <4>1, <4>2, <4>3
      <4>4. CASE p # N
        <5>1. p - 1 \in Nat /\ ~(p - 1 <= N - 1)
          BY <4>4, <3>2, <1>13
        <5>2. d[p - 1] = K
          BY <5>1, <1>19
        <5> QED BY <5>2, <4>1, <4>2, <4>4
      <4> QED BY <4>3, <4>4
    <3> QED BY <3>1, <3>2
  <2>2. ASSUME NEW p \in 0 .. M, NEW q \in 0 .. M, q <= p PROVE d[q] <= d[p]
    <3>1. p \in Nat /\ q \in Nat
      BY <1>13
    <3>2. CASE p <= N - 1
      <4>1. p \in 0 .. N /\ q \in 0 .. N /\ q <= N - 1
        BY <3>1, <3>2, <2>2
      <4>2. depth[q] <= depth[p]
        BY <4>1, <2>2, <1>2, <1>3 DEF Depths
      <4>3. d[p] = depth[p] /\ d[q] = depth[q]
        BY <4>1, <3>1, <3>2, <1>19
      <4> QED BY <4>2, <4>3
    <3>3. CASE ~(p <= N - 1) /\ q <= N - 1
      <4>1. q \in 0 .. N
        BY <3>1, <3>3
      <4>2. depth[q] <= L /\ depth[q] \in Nat
        BY <4>1, <3>1, <1>16, <1>17
      <4>4. d[p] = K /\ d[q] = depth[q]
        BY <3>1, <3>3, <1>19
      <4>5. PICK x \in Nat : x = depth[q] /\ x <= L
        BY <4>2
      <4>6. x <= K
        BY <4>5, <1>35, Intervals
      <4> QED BY <4>4, <4>5, <4>6
    <3>4. CASE ~(p <= N - 1) /\ ~(q <= N - 1)
      <4>1. d[p] = K /\ d[q] = K
        BY <3>1, <3>4, <1>19
      <4> QED BY <4>1
    <3> QED BY <3>2, <3>3, <3>4
  <2> QED BY <2>1, <2>2, <1>11, <1>14 DEF Depths
<1>25. AllPending(b + 1)'
  <2> SUFFICES ASSUME NEW m, m # leave
               PROVE  Pending(m, b + 1) <=> \E p \in 1 .. M : TaskAt(p)' = m
    BY <1>14, SameTree DEF AllPending
  <2>1. Pending(m, b + 1) <=> \/ m \in DOMAIN tree /\ m # 1 /\ Parent(m) = b
                              \/ Pending(m, next) /\ m # next
    BY <1>1, PartsNext
  <2>2. ASSUME m \in DOMAIN tree, m # 1, Parent(m) = b PROVE \E p \in 1 .. M : TaskAt(p)' = m
    <3>1. PICK k \in 1 .. T : tasks[k] = m
      BY <2>2, <1>10 DEF Replaces
    <3>2. PICK p : p = M + 1 - k
      OBVIOUS
    <3>3. p \in 1 .. M /\ ~(p <= N - 1) /\ M + 1 - p = k
      BY <3>2, <1>13
    <3> QED BY <3>1, <3>3, <1>21
  <2>3. ASSUME Pending(m, next), m # next PROVE \E p \in 1 .. M : TaskAt(p)' = m
    <3>1. PICK p \in 1 .. N : TaskAt(p) = m
      BY <2>3, <1>2, <1>14 DEF AllPending
    <3>2. p # N
      BY <3>1, <2>3, <1>15
    <3>3. p \in 1 .. M /\ p <= N - 1
      BY <3>2, <1>13
    <3> QED BY <3>1, <3>3, <1>20
  <2>4. ASSUME NEW p \in 1 .. M, TaskAt(p)' = m PROVE Pending(m, b + 1)
    <3>1. CASE p <= N - 1
      <4>1. p \in Places /\ TaskAt(p) = m
        BY <3>1, <2>4, <1>20
      <4>2. Pending(m, next)
        BY <4>1, <1>2 DEF AllPending
      <4>3. next < m
        <5>1. p < N
          BY <3>1, <1>13
        <5> QED BY <5>1, <4>1, <1>2, <1>15 DEF InOrder
      <4>4. m # next
        BY <4>3, <1>2
      <4> QED BY <4>2, <4>4, <2>1
    <3>2. CASE ~(p <= N - 1)
      <4>1. \E k \in DOMAIN tasks : tasks[k] = m
        BY <3>2, <2>4, <1>21
      <4> QED BY <4>1, <2>1 DEF Replaces
    <3> QED BY <3>1, <3>2
  <2> QED BY <2>1, <2>2, <2>3, <2>4
<1>26. InOrder'
  <2> SUFFICES ASSUME NEW p \in 1 .. M, NEW q \in 1 .. M, q < p,
                      TaskAt(p)' # leave, TaskAt(q)' # leave
               PROVE  TaskAt(p)' < TaskAt(q)'
    BY <1>14 DEF InOrder
  <2>1. CASE p <= N - 1
    <3>1. q <= N - 1
      BY <2>1, <1>13
    <3> QED BY <2>1, <3>1, <1>2, <1>20 DEF InOrder
  <2>2. CASE ~(p <= N - 1) /\ q <= N - 1
    <3>1. q \in Places /\ TaskAt(q)' = TaskAt(q)
      BY <2>2, <1>20
    <3>2. Pending(TaskAt(q), next)
      BY <3>1, <1>2 DEF AllPending
    <3>3. q < N
      BY <2>2, <1>13
    <3>4. next < TaskAt(q)
      BY <3>1, <3>3, <1>2, <1>15 DEF InOrder
    <3>5. TaskAt(q) # next
      BY <3>4, <1>2
    <3>6. M + 1 - p \in DOMAIN tasks /\ TaskAt(p)' = tasks[M + 1 - p]
      BY <2>2, <1>21
    <3>7. TaskAt(p)' \in DOMAIN tree /\ TaskAt(p)' # 1 /\ Parent(TaskAt(p)') = b
      BY <3>6 DEF Replaces
    <3> QED BY <3>1, <3>2, <3>5, <3>7, <1>1, PartsNext
  <2>3. CASE ~(p <= N - 1) /\ ~(q <= N - 1)
    <3>1. PICK j : j = M + 1 - p
      OBVIOUS
    <3>2. PICK k : k = M + 1 - q
      OBVIOUS
    <3>3. j \in DOMAIN tasks /\ TaskAt(p)' = tasks[j]
      BY <2>3, <3>1, <1>21
    <3>4. k \in DOMAIN tasks /\ TaskAt(q)' = tasks[k]
      BY <2>3, <3>2, <1>21
    <3>5. j < k
      BY <3>1, <3>2, <1>13
    <3> QED BY <3>3, <3>4, <3>5 DEF Replaces
  <2>4. p <= N - 1 \/ (~(p <= N - 1) /\ q <= N - 1) \/ (~(p <= N - 1) /\ ~(q <= N - 1))
    OBVIOUS
  <2> QED BY <2>1, <2>2, <2>3, <2>4
<1>27. Enclosed(more, d)'
  <2> SUFFICES ASSUME NEW p \in 1 .. M, TaskAt(p)' # leave, NEW a
               PROVE  Encloses(a, TaskAt(p)') <=> \E k \in 1 .. d[p] : more[k] = a
    <3>1. \A m, n : Encloses(m, n)' <=> Encloses(m, n)
      BY SameTree
    <3> QED BY <3>1, <1>14 DEF Enclosed
  <2>1. CASE p <= N - 1
    <3>1. p \in Places /\ TaskAt(p)' = TaskAt(p) /\ d[p] = depth[p]
      BY <2>1, <1>20
    <3>2. Encloses(a, TaskAt(p)) <=> \E k \in 1 .. depth[p] : scopes[k] = a
      BY <3>1, <1>2 DEF Enclosed
    <3>3. p \in 0 .. N /\ p \in Nat
      BY <2>1, <1>13
    <3>4. PICK x \in Nat : x = depth[p] /\ x <= L
      BY <3>3, <1>16, <1>17
    <3>5. \A k \in 1 .. x : k \in 1 .. L
      BY <3>4, Intervals
    <3> QED BY <3>1, <3>2, <3>4, <3>5, <1>7
  <2>2. CASE ~(p <= N - 1)
    <3>1. d[p] = K /\ M + 1 - p \in DOMAIN tasks /\ TaskAt(p)' = tasks[M + 1 - p]
      BY <2>2, <1>21
    <3>2. TaskAt(p)' \in DOMAIN tree /\ TaskAt(p)' # 1 /\ Parent(TaskAt(p)') = b
      BY <3>1 DEF Replaces
    <3>3. Encloses(a, TaskAt(p)') <=> Encloses(a, next) \/ (a = next /\ Scope(next))
      BY <3>2, <1>1, PartsEnclosed
    <3>4. Encloses(a, next) <=> \E k \in 1 .. L : scopes[k] = a
      BY <1>2, <1>15, <1>17 DEF Enclosed
    <3>5. (\E k \in 1 .. K : more[k] = a) <=>
            (\E k \in 1 .. L : scopes[k] = a) \/ (a = next /\ Scope(next))
      <4>1. CASE Scope(next)
        <5>1. K = L + 1
          BY <4>1, <1>7
        <5>2. /\ \A k \in 1 .. K : k \in 1 .. L \/ k = L + 1
              /\ 1 .. L \subseteq 1 .. K /\ L + 1 \in 1 .. K
          BY <5>1
        <5> QED BY <5>2, <4>1, <1>7
      <4>2. CASE ~Scope(next)
        BY <4>2, <1>7
      <4> QED BY <4>1, <4>2
    <3> QED BY <3>1, <3>3, <3>4, <3>5
  <2> QED BY <2>1, <2>2
<1>28. NestedScopes(more)'
  BY <1>22 DEF NestedScopes
<1>29. Opened(scopes, next)' = more
  BY <1>5, SameTree DEF Opened
<1>30. Tasks' = Tasks /\ DOMAIN tree' = DOMAIN tree
  BY SameTree
<1>32. b + 1 \in Nat \ {0} /\ b + 1 <= Len(tree') + 1
  <2>1. PICK l \in Nat : l = Len(tree) /\ b \in 1 .. l
    BY <1>1
  <2>2. b + 1 \in Nat \ {0} /\ b + 1 <= l + 1
    BY <2>1, Intervals
  <2>3. Len(tree') = l
    BY <2>1
  <2> QED BY <2>2, <2>3
<1>33. d[Len(todo')] = Len(more)
  BY <1>6, <1>11, <1>23
<1>34. WalkOK(b + 1, more, d)'
  BY <1>5, <1>12, <1>18, <1>24, <1>25, <1>26, <1>27, <1>28, <1>30, <1>32, <1>33 DEF WalkOK
<1> QED BY <1>29, <1>34

LEMMA PoppedFacts ==
  ASSUME NEW S, NEW stack \in Seq(S), Len(stack) # 0
  PROVE  /\ Popped(stack) \in Seq(S) /\ Len(Popped(stack)) = Len(stack) - 1
         /\ \A k \in 1 .. Len(stack) - 1 : Popped(stack)[k] = stack[k]
<1>1. PICK L \in Nat \ {0} : L = Len(stack)
  OBVIOUS
<1>2. 1 \in Int /\ L - 1 \in Int /\ \A k \in 1 .. L - 1 : stack[k] \in S
  <2>1. \A k \in 1 .. L - 1 : k \in 1 .. Len(stack)
    BY <1>1
  <2> QED BY <2>1, <1>1
<1>3. Popped(stack) = SubSeq(stack, 1, L - 1)
  BY <1>1 DEF Popped
<1>4. /\ SubSeq(stack, 1, L - 1) \in Seq(S)
      /\ Len(SubSeq(stack, 1, L - 1)) = IF 1 <= L - 1 THEN L - 1 - 1 + 1 ELSE 0
      /\ \A k \in 1 .. L - 1 - 1 + 1 : SubSeq(stack, 1, L - 1)[k] = stack[1 + k - 1]
  BY <1>2, SubSeqProperties
<1>5. (IF 1 <= L - 1 THEN L - 1 - 1 + 1 ELSE 0) = L - 1
  BY <1>1
<1>6. ASSUME NEW k \in 1 .. L - 1 PROVE Popped(stack)[k] = stack[k]
  <2>1. k \in 1 .. L - 1 - 1 + 1 /\ 1 + k - 1 = k
    BY <1>1
  <2> QED BY <2>1, <1>3, <1>4
<1> QED BY <1>1, <1>3, <1>4, <1>5, <1>6

LEMMA LeaveWalk ==
  ASSUME WellFormedTree(tree), tree' = tree,
         NEW next, NEW scopes, NEW depth, WalkOK(next, scopes, depth),
         todo # <<>>, Head(todo) = leave, GoOn(<<>>)
  PROVE  Len(scopes) # 0 /\ WalkOK(next, Popped(scopes), depth)'
<1>1. /\ todo \in Seq(Tasks) /\ next \in Nat \ {0} /\ next <= Len(tree) + 1
      /\ scopes \in Seq(DOMAIN tree) /\ NestedScopes(scopes)
      /\ depth \in [Nat -> Nat] /\ depth[Len(todo)] = Len(scopes) /\ Depths(depth)
      /\ AllPending(next) /\ InOrder /\ Enclosed(scopes, depth)
  BY DEF WalkOK
<1>2. PICK N \in Nat \ {0} : N = Len(todo)
  BY <1>1
<1>3. PICK M \in Nat : M = N - 1
  OBVIOUS
<1>4. todo' \in Seq(Tasks) /\ Len(todo') = M /\ \A p \in 1 .. M : TaskAt(p)' = TaskAt(p)
  <2>1. PICK none \in Seq(Tasks) : none = <<>> /\ Len(none) = 0
    <3>1. <<>> \in Seq(Tasks) /\ Len(<<>>) = 0
      OBVIOUS
    <3> QED BY <3>1
  <2>2. GoOn(none)
    BY <2>1
  <2>3. /\ todo' \in Seq(Tasks) /\ Len(todo') = Len(todo) - 1 + Len(none)
        /\ \A p \in 1 .. Len(todo) - 1 : TaskAt(p)' = TaskAt(p)
    BY <2>2, <1>1, TasksGoOn
  <2>4. Len(todo) - 1 = M /\ M + 0 = M
    BY <1>2, <1>3
  <2> QED BY <2>1, <2>3, <2>4
<1>5. Places' = 1 .. M /\ Places = 1 .. N /\ N \in Places /\ \A p \in 1 .. M : p \in Places /\ p # N
  BY <1>2, <1>3, <1>4 DEF Places
<1>6. TaskAt(N) = leave
  BY <1>1, <1>2, TaskFacts
<1>7. PICK L \in Nat : L = Len(scopes)
  BY <1>1
<1>8. L = depth[M] + 1 /\ depth[M] \in Nat
  <2>1. depth[N] = depth[N - 1] + 1
    BY <1>1, <1>5, <1>6 DEF Depths
  <2>2. depth[N] = L
    BY <1>1, <1>2, <1>7
  <2> QED BY <2>1, <2>2, <1>1, <1>3
<1>9. PICK K \in Nat : K = depth[M] /\ L = K + 1
  BY <1>8
<1>10. PICK more : more = Popped(scopes)
  OBVIOUS
<1>11. /\ more \in Seq(DOMAIN tree) /\ Len(more) = K
       /\ \A k \in 1 .. K : more[k] = scopes[k]
  <2>1. Len(scopes) # 0 /\ Len(scopes) - 1 = K
    BY <1>7, <1>9
  <2> QED BY <2>1, <1>1, <1>10, PoppedFacts
<1>12. DOMAIN scopes = 1 .. L /\ DOMAIN more = 1 .. K /\ \A k \in 1 .. K : k \in 1 .. L
  <2>1. DOMAIN scopes = 1 .. L /\ DOMAIN more = 1 .. K
    BY <1>1, <1>7, <1>11
  <2>2. K <= L
    BY <1>9
  <2> QED BY <2>1, <2>2, Intervals
<1>13. NestedScopes(more)'
  BY <1>1, <1>11, <1>12 DEF NestedScopes
<1>14. Depths(depth)'
  <2>1. ASSUME NEW p \in 1 .. M
        PROVE  depth[p] = IF TaskAt(p)' = leave THEN depth[p - 1] + 1 ELSE depth[p - 1]
    BY <1>1, <1>4, <1>5 DEF Depths
  <2>2. ASSUME NEW p \in 0 .. M, NEW q \in 0 .. M, q <= p PROVE depth[q] <= depth[p]
    <3>1. p \in 0 .. N /\ q \in 0 .. N
      BY <1>3
    <3> QED BY <3>1, <2>2, <1>1, <1>2 DEF Depths
  <2> QED BY <2>1, <2>2, <1>4, <1>5 DEF Depths
<1>15. AllPending(next)'
  <2> SUFFICES ASSUME NEW m, m # leave
               PROVE  Pending(m, next) <=> \E p \in 1 .. M : TaskAt(p)' = m
    BY <1>5, SameTree DEF AllPending
  <2>1. Pending(m, next) <=> \E p \in 1 .. N : TaskAt(p) = m
    BY <1>1, <1>5 DEF AllPending
  <2>2. \A p \in 1 .. N : p \in 1 .. M \/ p = N
    BY <1>3
  <2> QED BY <2>1, <2>2, <1>4, <1>5, <1>6
<1>16. InOrder'
  <2> SUFFICES ASSUME NEW p \in 1 .. M, NEW q \in 1 .. M, q < p,
                      TaskAt(p)' # leave, TaskAt(q)' # leave
               PROVE  TaskAt(p)' < TaskAt(q)'
    BY <1>5 DEF InOrder
  <2>1. p \in Places /\ q \in Places /\ TaskAt(p)' = TaskAt(p) /\ TaskAt(q)' = TaskAt(q)
    BY <1>4, <1>5
  <2> QED BY <2>1, <1>1 DEF InOrder
<1>17. Enclosed(more, depth)'
  <2> SUFFICES ASSUME NEW p \in 1 .. M, TaskAt(p)' # leave, NEW a
               PROVE  Encloses(a, TaskAt(p)') <=> \E k \in 1 .. depth[p] : more[k] = a
    <3>1. \A m, n : Encloses(m, n)' <=> Encloses(m, n)
      BY SameTree
    <3> QED BY <3>1, <1>5 DEF Enclosed
  <2>1. Encloses(a, TaskAt(p)) <=> \E k \in 1 .. depth[p] : scopes[k] = a
    BY <1>1, <1>4, <1>5 DEF Enclosed
  <2>2. depth[p] <= K /\ depth[p] \in Nat
    <3>1. p \in 0 .. N /\ M \in 0 .. N /\ p <= M /\ p \in Nat
      BY <1>3
    <3>2. depth[p] <= depth[M]
      BY <3>1, <1>1, <1>2 DEF Depths
    <3> QED BY <3>1, <3>2, <1>1, <1>9
  <2>3. \A k \in 1 .. depth[p] : k \in 1 .. K
    BY <2>2, Intervals
  <2> QED BY <2>1, <2>3, <1>4, <1>11
<1>18. Tasks' = Tasks /\ Popped(scopes)' = more
  BY <1>10, SameTree DEF Popped
<1>19. WalkOK(next, more, depth)'
  BY <1>1, <1>4, <1>9, <1>11, <1>13, <1>14, <1>15, <1>16, <1>17, <1>18 DEF WalkOK
<1>20. L # 0
  BY <1>9
<1> QED BY <1>7, <1>18, <1>19, <1>20

LEMMA StartWalk ==
  WellFormedTree(tree) /\ todo = <<1>> => \E d : WalkOK(1, <<>>, d)
<1> SUFFICES ASSUME WellFormedTree(tree), todo = << 1 >> PROVE \E d : WalkOK(1, <<>>, d)
  OBVIOUS
<1>1. DOMAIN tree = 1 .. Len(tree) /\ Len(tree) \in Nat /\ 1 \in DOMAIN tree
  BY TreeFacts
<1>2. PICK d \in [Nat -> Nat] : \A p \in Nat : d[p] = 0
  <2>1. [p \in Nat |-> 0] \in [Nat -> Nat]
    OBVIOUS
  <2> QED BY <2>1
<1>3. todo \in Seq(Tasks) /\ Len(todo) = 1 /\ Places = {1} /\ TaskAt(1) = 1 /\ 1 # leave
  BY <1>1 DEF Tasks, Places, TaskAt, leave
<1>4. Depths(d)
  BY <1>2, <1>3 DEF Depths
<1>5. AllPending(1)
  <2>1. ASSUME NEW m PROVE Pending(m, 1) <=> m = 1
    <3>1. m \in DOMAIN tree /\ m # 1 => Parent(m) \in DOMAIN tree
      BY ParentFacts
    <3> QED BY <3>1, <1>1 DEF Pending
  <2> QED BY <2>1, <1>3 DEF AllPending
<1>6. InOrder
  BY <1>3 DEF InOrder
<1>7. Enclosed(<<>>, d)
  <2>1. 1 .. d[1] = {}
    BY <1>2
  <2> QED BY <2>1, <1>3, EnclosesBody DEF Enclosed
<1>8. <<>> \in Seq(DOMAIN tree) /\ NestedScopes(<<>>) /\ d[Len(todo)] = Len(<<>>)
  BY <1>2, <1>3 DEF NestedScopes
<1>9. 1 \in Nat \ {0} /\ 1 <= Len(tree) + 1
  BY <1>1
<1> QED BY <1>2, <1>3, <1>4, <1>5, <1>6, <1>7, <1>8, <1>9 DEF WalkOK

LEMMA RestartWalk ==
  (WellFormedTree(tree) /\ todo = <<1>> => \E d : WalkOK(1, <<>>, d))'
BY StartWalk, PTL

-----------------------------------------------------------------------------
(***************************************************************************)
(* Where a walk is                                                         *)
(***************************************************************************)

\* The next node is next, and scopes are the ones that are open.  The body is never taken
\* itself: the function takes its parts.
WalkAt(next, scopes) == (next = 1 \/ next > Body) /\ \E depth : WalkOK(next, scopes, depth)

LEMMA AtFacts ==
  ASSUME WellFormedTree(tree), NEW next, NEW scopes, WalkAt(next, scopes)
  PROVE  /\ next \in Nat \ {0} /\ next <= Len(tree) + 1
         /\ scopes \in Seq(DOMAIN tree) /\ DOMAIN scopes = 1 .. Len(scopes) /\ Len(scopes) \in Nat
         /\ NestedScopes(scopes)
         /\ todo \in Seq(Tasks)
         /\ todo = <<>> => next = Len(tree) + 1
         /\ todo # <<>> /\ Head(todo) # leave =>
              /\ Head(todo) = next /\ next \in DOMAIN tree
              /\ \A a : Encloses(a, next) <=> \E k \in DOMAIN scopes : scopes[k] = a
<1>1. PICK depth : WalkOK(next, scopes, depth)
  BY DEF WalkAt
<1>2. /\ next \in Nat \ {0} /\ next <= Len(tree) + 1
      /\ scopes \in Seq(DOMAIN tree) /\ NestedScopes(scopes) /\ todo \in Seq(Tasks)
      /\ depth[Len(todo)] = Len(scopes) /\ Enclosed(scopes, depth)
  BY <1>1 DEF WalkOK
<1>3. DOMAIN scopes = 1 .. Len(scopes) /\ Len(scopes) \in Nat
  BY <1>2
<1>4. todo = <<>> => next = Len(tree) + 1
  BY <1>1, TakesNext
<1>5. ASSUME todo # <<>>, Head(todo) # leave
      PROVE  /\ Head(todo) = next /\ next \in DOMAIN tree
             /\ \A a : Encloses(a, next) <=> \E k \in DOMAIN scopes : scopes[k] = a
  <2>1. Head(todo) = next /\ next \in DOMAIN tree
    BY <1>1, <1>5, TakesNext
  <2>2. Len(todo) \in Places /\ TaskAt(Len(todo)) = next
    BY <1>2, <1>5, <2>1, TaskFacts
  <2>3. next # leave
    BY <1>5, <2>1
  <2> QED BY <2>1, <2>2, <2>3, <1>2, <1>3 DEF Enclosed
<1> QED BY <1>2, <1>3, <1>4, <1>5

LEMMA AtStart ==
  ASSUME WellFormedTree(tree), todo = << 1 >>
  PROVE  WalkAt(1, <<>>)
BY StartWalk DEF WalkAt

LEMMA AtRestart ==
  ASSUME WellFormedTree(tree), tree' = tree, todo' = << 1 >>
  PROVE  WalkAt(1, <<>>)'
<1>1. WellFormedTree(tree)'
  OBVIOUS
<1>2. \E d : WalkOK(1, <<>>, d)'
  BY <1>1, RestartWalk
<1> QED BY <1>2 DEF WalkAt

\* Nothing is open before the function, and a block that is taken is a scope.
LEMMA AtNode ==
  ASSUME WellFormedTree(tree), NEW next, NEW scopes, WalkAt(next, scopes),
         todo # <<>>, Head(todo) # leave
  PROVE  /\ tree[next].kind = "func" => next = 1 /\ scopes = <<>>
         /\ tree[next].kind # "func" => /\ next # 1 /\ next > Body
                                        /\ Scope(next) <=> tree[next].kind = "block"
<1>1. /\ Head(todo) = next /\ next \in DOMAIN tree /\ scopes \in Seq(DOMAIN tree)
      /\ DOMAIN scopes = 1 .. Len(scopes) /\ Len(scopes) \in Nat
      /\ \A a : Encloses(a, next) <=> \E k \in DOMAIN scopes : scopes[k] = a
  BY AtFacts
<1>2. tree[next].kind = "func" <=> next = 1
  BY <1>1 DEF WellFormedTree
<1>3. ASSUME next = 1 PROVE scopes = <<>>
  <2>1. \A k \in DOMAIN scopes : Encloses(scopes[k], 1)
    BY <1>1, <1>3
  <2>2. DOMAIN scopes = {}
    BY <2>1, EnclosesBody
  <2>3. Len(scopes) = 0
    BY <2>2, <1>1
  <2> QED BY <2>3, <1>1
<1>4. ASSUME next # 1 PROVE next > Body /\ (Scope(next) <=> tree[next].kind = "block")
  <2>1. next > Body
    BY <1>4 DEF WalkAt
  <2>2. next # Body
    BY <2>1, RootFacts
  <2> QED BY <2>1, <2>2, <1>4 DEF Scope
<1> QED BY <1>2, <1>3, <1>4

LEMMA AtFunc ==
  ASSUME WellFormedTree(tree), tree' = tree, NEW next, NEW scopes, WalkAt(next, scopes),
         Is({"func"}), GoOn(Kids(Body) \o <<leave>>)
  PROVE  next = 1 /\ scopes = <<>> /\ WalkAt(Body + 1, <<1>>)'
<1>1. todo # <<>> /\ Head(todo) # leave /\ Head(todo) = next /\ next = 1 /\ scopes = <<>>
  BY AtFacts, AtNode DEF Is
<1>2. PICK depth : WalkOK(next, scopes, depth)
  BY DEF WalkAt
<1>3. PICK b \in DOMAIN tree : b = Body /\ b \in Nat
  <2>1. Body \in DOMAIN tree /\ Body \in Nat
    BY RootFacts
  <2> QED BY <2>1
<1>8. next \in DOMAIN tree /\ Visits(next, b) /\ Scope(next)
  BY <1>1, <1>3, TreeFacts DEF Visits, Scope
<1>4. PICK tasks : tasks = Kids(Body) \o <<leave>>
  OBVIOUS
<1>9. Replaces(tasks, next, b) /\ GoOn(tasks)
  BY <1>3, <1>4, <1>8, KidsReplace
<1>5. \E d : WalkOK(b + 1, Opened(scopes, next), d)'
  BY <1>1, <1>2, <1>3, <1>8, <1>9, VisitWalk
<1>6. Opened(scopes, next)' = <<1>>
  BY <1>1, <1>8, SameTree DEF Opened
<1>7. Body' = b /\ b + 1 > b
  BY <1>3, SameTree
<1> QED BY <1>1, <1>5, <1>6, <1>7 DEF WalkAt

LEMMA AtBlock ==
  ASSUME WellFormedTree(tree), tree' = tree, NEW next, NEW scopes, WalkAt(next, scopes),
         Is({"block"}), GoOn(Kids(Visiting) \o <<leave>>)
  PROVE  Scope(next) /\ WalkAt(next + 1, Append(scopes, next))'
<1>1. todo # <<>> /\ Head(todo) # leave /\ Head(todo) = next /\ next \in DOMAIN tree
      /\ next \in Nat /\ next > Body /\ Scope(next)
  BY AtFacts, AtNode DEF Is
<1>2. PICK depth : WalkOK(next, scopes, depth)
  BY DEF WalkAt
<1>3. Replaces(Kids(next) \o <<leave>>, next, next) /\ Visits(next, next)
  BY <1>1, KidsReplace DEF Visits
<1>4. \E d : WalkOK(next + 1, Opened(scopes, next), d)'
  BY <1>1, <1>2, <1>3, VisitWalk DEF Visiting
<1>5. Opened(scopes, next)' = Append(scopes, next)
  BY <1>1, SameTree DEF Opened
<1>6. (next + 1 > Body)'
  <2>1. Body \in Nat
    BY RootFacts
  <2> QED BY <2>1, <1>1, SameTree
<1> QED BY <1>1, <1>4, <1>5, <1>6 DEF WalkAt

Leaves == {"decl", "var"}

LEMMA AtParts ==
  ASSUME WellFormedTree(tree), tree' = tree, NEW next, NEW scopes, WalkAt(next, scopes),
         Is(Plain \cup Leaves),
         GoOn(Kids(Visiting)) \/ (Is(Leaves) /\ GoOn(<<>>))
  PROVE  ~Scope(next) /\ WalkAt(next + 1, scopes)'
<1>1. /\ todo # <<>> /\ Head(todo) # leave /\ Head(todo) = next /\ next \in DOMAIN tree
      /\ next \in Nat /\ next > Body /\ ~Scope(next)
  <2>1. todo # <<>> /\ Head(todo) # leave /\ Head(todo) = next /\ next \in DOMAIN tree
        /\ next \in Nat
    BY AtFacts DEF Is
  <2>2. tree[next].kind # "func" /\ tree[next].kind # "block"
    BY <2>1 DEF Is, Plain, Leaves
  <2> QED BY <2>1, <2>2, AtNode
<1>2. PICK depth : WalkOK(next, scopes, depth)
  BY DEF WalkAt
<1>3. Replaces(Kids(next), next, next) /\ Visits(next, next)
  BY <1>1, KidsReplace DEF Visits
<1>4. GoOn(Kids(next))
  <2>1. ASSUME Is(Leaves) PROVE Kids(next) = <<>>
    <3>1. tree[next].kind \in Leaves
      BY <1>1, <2>1 DEF Is
    <3>2. Len(Kids(next)) = 0
      BY <3>1, <1>1 DEF WellFormedTree, Arity, Kids, Leaves
    <3> QED BY <3>2, <1>1, TreeFacts
  <2> QED BY <2>1, <1>1 DEF Visiting
<1>5. \E d : WalkOK(next + 1, Opened(scopes, next), d)'
  BY <1>1, <1>2, <1>3, <1>4, VisitWalk
<1>6. Opened(scopes, next)' = scopes
  BY <1>1, SameTree DEF Opened
<1>7. (next + 1 > Body)'
  <2>1. Body \in Nat
    BY RootFacts
  <2> QED BY <2>1, <1>1, SameTree
<1> QED BY <1>1, <1>5, <1>6, <1>7 DEF WalkAt

LEMMA AtLeave ==
  ASSUME WellFormedTree(tree), tree' = tree, NEW next, NEW scopes, WalkAt(next, scopes),
         Leaving, GoOn(<<>>)
  PROVE  Len(scopes) # 0 /\ WalkAt(next, Popped(scopes))'
<1>1. PICK depth : WalkOK(next, scopes, depth)
  BY DEF WalkAt
<1>2. Len(scopes) # 0 /\ WalkOK(next, Popped(scopes), depth)'
  BY <1>1, LeaveWalk DEF Leaving
<1>3. (next = 1 \/ next > Body)'
  BY SameTree DEF WalkAt
<1> QED BY <1>2, <1>3 DEF WalkAt

-----------------------------------------------------------------------------
(***************************************************************************)
(* Declarations so far                                                     *)
(***************************************************************************)

\* The declarations of scope a before node n, and their names.
Earlier(a, n) == {d \in Decls : d < n /\ ScopeOf(d) = a}

Named(a, n) == {tree[d].ident : d \in Earlier(a, n)}

LEMMA EarlierFacts ==
  ASSUME WellFormedTree(tree), NEW a, NEW n \in DOMAIN tree
  PROVE  /\ n \notin Decls => Earlier(a, n + 1) = Earlier(a, n)
         /\ n \in Decls /\ ScopeOf(n) # a => Earlier(a, n + 1) = Earlier(a, n)
         /\ n \in Decls /\ ScopeOf(n) = a => Earlier(a, n + 1) = Earlier(a, n) \cup {n}
         /\ Earlier(n, n + 1) = {}
<1>1. DOMAIN tree = 1 .. Len(tree) /\ Len(tree) \in Nat
  BY TreeFacts
<1>2. \A d \in Decls : d \in DOMAIN tree /\ (d < n + 1 <=> d < n \/ d = n)
  BY <1>1 DEF Decls
<1>3. Earlier(a, n + 1) = {d \in Decls : (d < n \/ d = n) /\ ScopeOf(d) = a}
  BY <1>2 DEF Earlier
<1>4. ASSUME NEW d \in Earlier(n, n + 1) PROVE FALSE
  <2>1. d \in Decls /\ d < n + 1 /\ ScopeOf(d) = n
    BY <1>4 DEF Earlier
  <2>2. n < d
    BY <2>1, DeclScope
  <2> QED BY <2>1, <2>2, <1>1, <1>2
<1>5. \A d \in Decls : ~(d = n /\ d < n)
  BY <1>1
<1> QED BY <1>3, <1>4, <1>5 DEF Earlier

LEMMA NamedFacts ==
  ASSUME WellFormedTree(tree), NEW a, NEW n \in DOMAIN tree
  PROVE  /\ Named(a, n) \in SUBSET Idents
         /\ n \notin Decls => Named(a, n + 1) = Named(a, n)
         /\ n \in Decls /\ ScopeOf(n) # a => Named(a, n + 1) = Named(a, n)
         /\ n \in Decls /\ ScopeOf(n) = a => Named(a, n + 1) = Named(a, n) \cup {tree[n].ident}
         /\ Named(n, n + 1) = {}
<1>1. \A d \in Earlier(a, n) : tree[d].ident \in Idents
  BY TreeFacts DEF Earlier, Decls
<1> QED BY <1>1, EarlierFacts DEF Named

\* The parameter is the only declaration up to the body.
LEMMA ParamFacts ==
  ASSUME WellFormedTree(tree)
  PROVE  /\ Earlier(1, Body + 1) = Params
         /\ \A m \in 1 .. Body : ~Wrong(m) /\ m \notin Uses /\ (m \in Decls <=> m \in Params)
<1>1. /\ DOMAIN tree = 1 .. Len(tree) /\ Len(tree) \in Nat /\ 1 .. Body \subseteq DOMAIN tree
  BY TreeFacts, RootFacts
<1>2. /\ Body \in DOMAIN tree /\ tree[Body].kind = "block" /\ Parent(Body) = 1
      /\ Params = 2 .. Body - 1 /\ Body \in {2, 3} /\ tree[1].kind = "func"
      /\ \A n \in Params : n \in DOMAIN tree /\ Parent(n) = 1
      /\ \A n \in DOMAIN tree : tree[n].kind = "param" <=> n \in Params
  BY RootFacts
<1>3. ASSUME NEW m \in 1 .. Body
      PROVE  m \notin Uses /\ (m \in Decls <=> m \in Params)
  <2>1. m = 1 \/ m = Body \/ m \in Params
    BY <1>2
  <2>2. 1 \notin Params /\ Body \notin Params
    BY <1>2
  <2> QED BY <2>1, <2>2, <1>1, <1>2 DEF Uses, Decls
<1>4. ASSUME NEW d \in Decls PROVE d < Body + 1 /\ ScopeOf(d) = 1 <=> d \in Params
  <2>1. d \in DOMAIN tree
    BY DEF Decls
  <2>2. d < Body + 1 <=> d \in 1 .. Body
    BY <2>1, <1>1, <1>2
  <2>3. d \in Params => d \in 1 .. Body /\ ScopeOf(d) = 1
    BY <1>2 DEF ScopeOf
  <2> QED BY <2>2, <2>3, <1>3
<1>5. Params \subseteq Decls
  <2>1. Params \subseteq 1 .. Body
    BY <1>2
  <2> QED BY <2>1, <1>3
<1>6. ASSUME NEW m \in 1 .. Body, Wrong(m) PROVE FALSE
  <2>1. m \in Decls /\ \E d \in Visible(m) : ScopeOf(d) = ScopeOf(m)
    BY <1>6, <1>3 DEF Wrong, Undeclared, DeclaredTwice
  <2>2. PICK d \in Decls : d < m
    BY <2>1 DEF Visible
  <2>3. m \in Params
    BY <2>1, <1>3
  <2>4. m = 2 /\ d \in DOMAIN tree
    BY <2>3, <1>2 DEF Decls
  <2>5. d = 1
    BY <2>2, <2>4, <1>1
  <2> QED BY <2>5, <1>2 DEF Decls
<1> QED BY <1>3, <1>4, <1>5, <1>6 DEF Earlier

\* What is wrong at a node, said with the declarations before it in the open scopes.
LEMMA WrongFacts ==
  ASSUME WellFormedTree(tree), NEW next, NEW scopes, WalkAt(next, scopes),
         todo # <<>>, Head(todo) # leave
  PROVE  /\ next \notin Uses /\ next \notin Decls => ~Wrong(next)
         /\ next \in Uses => /\ next \notin Decls
                             /\ Visible(next) =
                                  UNION {{d \in Earlier(scopes[k], next) :
                                            tree[d].ident = tree[next].ident} : k \in DOMAIN scopes}
                             /\ Wrong(next) <=> Undeclared(next)
                             /\ Undeclared(next) <=>
                                  \A k \in DOMAIN scopes : tree[next].ident \notin Named(scopes[k], next)
         /\ next \in Decls =>
              /\ Len(scopes) # 0 /\ scopes[Len(scopes)] = ScopeOf(next)
              /\ \A k \in DOMAIN scopes : k # Len(scopes) => scopes[k] # ScopeOf(next)
              /\ ~Undeclared(next)
              /\ DeclaredTwice(next) <=> tree[next].ident \in Named(ScopeOf(next), next)
<1>1. /\ next \in DOMAIN tree
      /\ scopes \in Seq(DOMAIN tree) /\ DOMAIN scopes = 1 .. Len(scopes) /\ Len(scopes) \in Nat
      /\ NestedScopes(scopes)
      /\ \A a : Encloses(a, next) <=> \E k \in DOMAIN scopes : scopes[k] = a
  BY AtFacts
<1>2. DOMAIN tree = 1 .. Len(tree) /\ Len(tree) \in Nat
  BY TreeFacts
<1>3. next \in Uses => next \notin Decls /\ ~Scope(next)
  BY RootFacts DEF Uses, Decls, Scope
<1>4. ASSUME next \in Uses
      PROVE  Visible(next) = UNION {{d \in Earlier(scopes[k], next) :
                                       tree[d].ident = tree[next].ident} : k \in DOMAIN scopes}
  <2>1. ASSUME NEW d \in Decls
        PROVE  ScopeOf(d) \in Around(next) <=> \E k \in DOMAIN scopes : scopes[k] = ScopeOf(d)
    BY <1>1, <1>3, <1>4, InScope
  <2> QED BY <2>1 DEF Visible, Earlier
<1>5. ASSUME next \in Uses
      PROVE  Undeclared(next) <=>
               \A k \in DOMAIN scopes : tree[next].ident \notin Named(scopes[k], next)
  BY <1>4, <1>5 DEF Undeclared, Named
<1>6. ASSUME next \in Decls
      PROVE  /\ Len(scopes) # 0 /\ scopes[Len(scopes)] = ScopeOf(next)
             /\ \A k \in DOMAIN scopes : k # Len(scopes) => scopes[k] # ScopeOf(next)
  <2>1. Encloses(ScopeOf(next), next) /\ \A a : Encloses(a, next) => a <= ScopeOf(next)
        /\ ScopeOf(next) \in DOMAIN tree
    BY <1>6, DeclScope
  <2>2. PICK k \in DOMAIN scopes : scopes[k] = ScopeOf(next)
    BY <2>1, <1>1
  <2>3. \A j \in DOMAIN scopes : scopes[j] <= ScopeOf(next) /\ scopes[j] \in Nat
    BY <2>1, <1>1, <1>2
  <2>4. Len(scopes) \in DOMAIN scopes /\ (k = Len(scopes) \/ k < Len(scopes))
    BY <1>1
  <2>5. k = Len(scopes)
    BY <2>2, <2>3, <2>4, <1>1, <1>2, <2>1 DEF NestedScopes
  <2>6. \A j \in DOMAIN scopes : j # Len(scopes) => scopes[j] < scopes[Len(scopes)]
    <3>1. \A j \in DOMAIN scopes : j # Len(scopes) => j < Len(scopes)
      BY <1>1
    <3> QED BY <3>1, <2>4, <1>1 DEF NestedScopes
  <2> QED BY <2>2, <2>3, <2>4, <2>5, <2>6, <1>1
<1>7. ASSUME next \in Decls
      PROVE  DeclaredTwice(next) <=> tree[next].ident \in Named(ScopeOf(next), next)
  <2>1. ScopeOf(next) \in Around(next)
    BY <1>7, DeclScope DEF Encloses
  <2>2. \A d : d \in Visible(next) /\ ScopeOf(d) = ScopeOf(next)
                 <=> d \in Earlier(ScopeOf(next), next) /\ tree[d].ident = tree[next].ident
    BY <2>1 DEF Visible, Earlier
  <2> QED BY <2>2, <1>7 DEF DeclaredTwice, Named
<1>8. next \in Decls => next \notin Uses
  BY DEF Uses, Decls
<1> QED BY <1>3, <1>4, <1>5, <1>6, <1>7, <1>8 DEF Wrong, Undeclared, DeclaredTwice

-----------------------------------------------------------------------------
(***************************************************************************)
(* The analysis                                                            *)
(***************************************************************************)

\* A symbol table has the names declared so far in its scope, and nothing wrong has been seen.
Tables(next, scopes) ==
  /\ symbol_tables \in Seq(SUBSET Idents) /\ Len(symbol_tables) = Len(scopes)
  /\ \A k \in DOMAIN scopes : symbol_tables[k] = Named(scopes[k], next)
  /\ \A m \in 1 .. next - 1 : ~Wrong(m)
  /\ error_code = 0

AnalysisAt(next, scopes) == WalkAt(next, scopes) /\ Tables(next, scopes)

\* What a definition that depends on the tree alone says goes on being so.
LEMMA SameTree2 ==
  ASSUME tree' = tree
  PROVE  /\ \A a, n : Earlier(a, n)' = Earlier(a, n) /\ Named(a, n)' = Named(a, n)
         /\ \A n : /\ Visible(n)' = Visible(n) /\ Undeclared(n)' = Undeclared(n)
                   /\ DeclaredTwice(n)' = DeclaredTwice(n) /\ Wrong(n)' = Wrong(n)
         /\ \A d, n : Binds(d, n)' = Binds(d, n)
<1>1. \A a, n : Earlier(a, n)' = Earlier(a, n) /\ Named(a, n)' = Named(a, n)
  BY SameTree DEF Earlier, Named
<1>2. \A n : Visible(n)' = Visible(n)
  BY SameTree DEF Visible
<1>3. \A n : Undeclared(n)' = Undeclared(n) /\ DeclaredTwice(n)' = DeclaredTwice(n)
  BY <1>2, SameTree DEF Undeclared, DeclaredTwice
<1>4. \A n : Wrong(n)' = Wrong(n)
  BY <1>3 DEF Wrong
<1>5. \A d, n : Binds(d, n)' = Binds(d, n)
  BY <1>2 DEF Binds
<1> QED BY <1>1, <1>2, <1>3, <1>4, <1>5

LEMMA AnalyzeFuncStep ==
  ASSUME WellFormedTree(tree), NEW next, NEW scopes, AnalysisAt(next, scopes), AnalyzeFunc
  PROVE  \E n, s : AnalysisAt(n, s)'
<1>1. tree' = tree /\ error_code' = 0
  BY DEF AnalyzeFunc, unchangedByAnalysis, AnalysisAt, Tables
<1>2. next = 1 /\ scopes = <<>> /\ WalkAt(Body + 1, <<1>>)'
  BY <1>1, AtFunc DEF AnalysisAt, AnalyzeFunc
<1>3. PICK b \in DOMAIN tree : b = Body /\ b \in Nat
  <2>1. Body \in DOMAIN tree /\ Body \in Nat
    BY RootFacts
  <2> QED BY <2>1
<1>4. WalkAt(b + 1, <<1>>)'
  BY <1>1, <1>2, <1>3, SameTree
<1>5. symbol_tables \in Seq(SUBSET Idents) /\ Len(symbol_tables) = 0
  BY <1>2 DEF AnalysisAt, Tables
<1>6. Named(1, b + 1) = {tree[p].ident : p \in Params}
  BY <1>3, ParamFacts DEF Named
<1>7. Named(1, b + 1) \in SUBSET Idents
  <2>1. \A p \in Params : tree[p].ident \in Idents
    BY RootFacts, TreeFacts
  <2> QED BY <2>1, <1>6
<1>8. symbol_tables' = Append(symbol_tables, Named(1, b + 1))
  BY <1>6 DEF AnalyzeFunc
<1>9. /\ symbol_tables' \in Seq(SUBSET Idents) /\ Len(symbol_tables') = 1
      /\ symbol_tables'[1] = Named(1, b + 1)
  BY <1>5, <1>7, <1>8
<1>10. \A m \in 1 .. (b + 1) - 1 : ~Wrong(m)
  <2>1. (b + 1) - 1 = b
    BY <1>3
  <2> QED BY <2>1, <1>3, ParamFacts
<1>11. Tables(b + 1, <<1>>)'
  <2>1. \A k \in DOMAIN <<1>> : k = 1 /\ <<1>>[k] = 1
    OBVIOUS
  <2> QED BY <2>1, <1>1, <1>9, <1>10, SameTree2 DEF Tables
<1> QED BY <1>4, <1>11 DEF AnalysisAt

\* After a node with nothing wrong, nothing is wrong up to there.
LEMMA OneMore ==
  ASSUME NEW n \in Nat, \A m \in 1 .. n - 1 : ~Wrong(m), ~Wrong(n)
  PROVE  \A m \in 1 .. (n + 1) - 1 : ~Wrong(m)
<1>1. \A m \in 1 .. (n + 1) - 1 : m \in 1 .. n - 1 \/ m = n
  OBVIOUS
<1> QED BY <1>1

LEMMA AnalyzeBlockStep ==
  ASSUME WellFormedTree(tree), NEW next, NEW scopes, AnalysisAt(next, scopes), AnalyzeBlock
  PROVE  \E n, s : AnalysisAt(n, s)'
<1>1. tree' = tree /\ error_code' = 0
  BY DEF AnalyzeBlock, unchangedByAnalysis, AnalysisAt, Tables
<1>2. Scope(next) /\ WalkAt(next + 1, Append(scopes, next))'
  BY <1>1, AtBlock DEF AnalysisAt, AnalyzeBlock
<1>3. /\ next \in DOMAIN tree /\ next \in Nat /\ Head(todo) = next
      /\ scopes \in Seq(DOMAIN tree) /\ DOMAIN scopes = 1 .. Len(scopes) /\ Len(scopes) \in Nat
  BY AtFacts DEF AnalysisAt, AnalyzeBlock, Is
<1>4. next \notin Decls /\ next \notin Uses
  BY <1>3 DEF AnalyzeBlock, Is, Decls, Uses
<1>5. ~Wrong(next)
  BY <1>4 DEF Wrong, Undeclared, DeclaredTwice
<1>6. /\ symbol_tables \in Seq(SUBSET Idents) /\ Len(symbol_tables) = Len(scopes)
      /\ \A k \in DOMAIN scopes : symbol_tables[k] = Named(scopes[k], next)
      /\ \A m \in 1 .. next - 1 : ~Wrong(m)
      /\ symbol_tables' = Append(symbol_tables, {})
  BY DEF AnalysisAt, Tables, AnalyzeBlock
<1>7. /\ symbol_tables' \in Seq(SUBSET Idents) /\ Len(symbol_tables') = Len(Append(scopes, next))
      /\ \A k \in 1 .. Len(scopes) : symbol_tables'[k] = symbol_tables[k]
      /\ symbol_tables'[Len(scopes) + 1] = {}
  BY <1>3, <1>6
<1>8. /\ DOMAIN Append(scopes, next) = 1 .. Len(scopes) + 1
      /\ \A k \in 1 .. Len(scopes) : Append(scopes, next)[k] = scopes[k]
      /\ Append(scopes, next)[Len(scopes) + 1] = next
  BY <1>3
<1>9. ASSUME NEW k \in DOMAIN Append(scopes, next)
      PROVE  symbol_tables'[k] = Named(Append(scopes, next)[k], next + 1)
  <2>1. CASE k \in 1 .. Len(scopes)
    BY <2>1, <1>3, <1>4, <1>6, <1>7, <1>8, NamedFacts
  <2>2. CASE k = Len(scopes) + 1
    BY <2>2, <1>3, <1>7, <1>8, NamedFacts
  <2> QED BY <2>1, <2>2, <1>3, <1>8
<1>10. \A m \in 1 .. (next + 1) - 1 : ~Wrong(m)
  BY <1>3, <1>5, <1>6, OneMore
<1>11. PICK more : more = Append(scopes, next)
  OBVIOUS
<1>12. Tables(next + 1, more)'
  BY <1>1, <1>7, <1>9, <1>10, <1>11, SameTree2 DEF Tables
<1>13. WalkAt(next + 1, more)'
  BY <1>2, <1>11
<1> QED BY <1>12, <1>13 DEF AnalysisAt

LEMMA LeaveTableStep ==
  ASSUME WellFormedTree(tree), NEW next, NEW scopes, AnalysisAt(next, scopes), LeaveTable
  PROVE  \E n, s : AnalysisAt(n, s)'
<1>1. tree' = tree /\ error_code' = 0
  BY DEF LeaveTable, unchangedByAnalysis, AnalysisAt, Tables
<1>2. Len(scopes) # 0 /\ WalkAt(next, Popped(scopes))'
  BY <1>1, AtLeave DEF AnalysisAt, LeaveTable
<1>3. scopes \in Seq(DOMAIN tree) /\ DOMAIN scopes = 1 .. Len(scopes) /\ Len(scopes) \in Nat
  BY AtFacts DEF AnalysisAt
<1>4. PICK L \in Nat : Len(scopes) = L + 1 /\ Len(scopes) - 1 = L
  <2>1. PICK l \in Nat \ {0} : l = Len(scopes)
    BY <1>2, <1>3
  <2>2. PICK j \in Nat : j = l - 1
    OBVIOUS
  <2> QED BY <2>1, <2>2
<1>5. /\ symbol_tables \in Seq(SUBSET Idents) /\ Len(symbol_tables) = Len(scopes)
      /\ \A k \in DOMAIN scopes : symbol_tables[k] = Named(scopes[k], next)
      /\ \A m \in 1 .. next - 1 : ~Wrong(m)
      /\ symbol_tables' = Popped(symbol_tables)
  BY DEF AnalysisAt, Tables, LeaveTable
<1>6. /\ symbol_tables' \in Seq(SUBSET Idents) /\ Len(symbol_tables') = L
      /\ \A k \in 1 .. L : symbol_tables'[k] = symbol_tables[k]
  BY <1>2, <1>4, <1>5, PoppedFacts
<1>7. PICK more : more = Popped(scopes)
  OBVIOUS
<1>8. /\ more \in Seq(DOMAIN tree) /\ Len(more) = L
      /\ \A k \in 1 .. L : more[k] = scopes[k]
  BY <1>2, <1>3, <1>4, <1>7, PoppedFacts
<1>9. DOMAIN more = 1 .. L /\ \A k \in 1 .. L : k \in DOMAIN scopes
  BY <1>3, <1>4, <1>8
<1>10. Tables(next, more)'
  BY <1>1, <1>5, <1>6, <1>8, <1>9, SameTree2 DEF Tables
<1>11. WalkAt(next, more)'
  <2>1. Popped(scopes)' = more
    BY <1>7 DEF Popped
  <2> QED BY <1>2, <2>1
<1> QED BY <1>10, <1>11 DEF AnalysisAt

LEMMA AnalyzePartsStep ==
  ASSUME WellFormedTree(tree), NEW next, NEW scopes, AnalysisAt(next, scopes), AnalyzeParts
  PROVE  \E n, s : AnalysisAt(n, s)'
<1>1. tree' = tree /\ UNCHANGED <<symbol_tables, error_code>>
  BY DEF AnalyzeParts, unchangedByAnalysis
<1>2. WalkAt(next + 1, scopes)'
  BY <1>1, AtParts DEF AnalysisAt, AnalyzeParts, Is
<1>3. next \in DOMAIN tree /\ next \in Nat /\ Head(todo) = next
  BY AtFacts DEF AnalysisAt, AnalyzeParts, Is
<1>4. next \notin Decls /\ next \notin Uses
  BY <1>3 DEF AnalyzeParts, Is, Plain, Decls, Uses
<1>5. ~Wrong(next)
  BY <1>4 DEF Wrong, Undeclared, DeclaredTwice
<1>6. \A m \in 1 .. (next + 1) - 1 : ~Wrong(m)
  BY <1>3, <1>5, OneMore DEF AnalysisAt, Tables
<1>7. Tables(next + 1, scopes)'
  BY <1>1, <1>3, <1>4, <1>6, NamedFacts, SameTree2 DEF AnalysisAt, Tables
<1> QED BY <1>2, <1>7 DEF AnalysisAt

\* The walk has been given up at the first node that is wrong.
Rejected ==
  /\ todo = <<>> /\ symbol_tables = <<>>
  /\ \E n \in DOMAIN tree :
       /\ Wrong(n) /\ \A m \in 1 .. n - 1 : ~Wrong(m)
       /\ error_code = IF Undeclared(n) THEN 1 ELSE 2

LEMMA AnalyzeDeclStep ==
  ASSUME WellFormedTree(tree), NEW next, NEW scopes, AnalysisAt(next, scopes), AnalyzeDecl
  PROVE  /\ symbol_tables # <<>> /\ tree' = tree
         /\ \/ phase' = "analysis" /\ \E n, s : AnalysisAt(n, s)'
            \/ phase' = "rejected" /\ Rejected'
<1>1. /\ todo # <<>> /\ Head(todo) # leave /\ Head(todo) = next /\ next \in DOMAIN tree
      /\ next \in Nat /\ tree[next].kind = "decl"
      /\ scopes \in Seq(DOMAIN tree) /\ DOMAIN scopes = 1 .. Len(scopes) /\ Len(scopes) \in Nat
  BY AtFacts DEF AnalysisAt, AnalyzeDecl, Is
<1>2. next \in Decls
  BY <1>1 DEF Decls
<1>3. /\ Len(scopes) # 0 /\ scopes[Len(scopes)] = ScopeOf(next)
      /\ \A k \in DOMAIN scopes : k # Len(scopes) => scopes[k] # ScopeOf(next)
      /\ ~Undeclared(next)
      /\ DeclaredTwice(next) <=> tree[next].ident \in Named(ScopeOf(next), next)
  BY <1>1, <1>2, WrongFacts DEF AnalysisAt
<1>4. /\ symbol_tables \in Seq(SUBSET Idents) /\ Len(symbol_tables) = Len(scopes)
      /\ \A k \in DOMAIN scopes : symbol_tables[k] = Named(scopes[k], next)
      /\ \A m \in 1 .. next - 1 : ~Wrong(m)
      /\ error_code = 0
  BY DEF AnalysisAt, Tables
<1>5. PICK L \in Nat \ {0} : L = Len(scopes)
  BY <1>1, <1>3
<1>6. L \in DOMAIN scopes /\ Len(symbol_tables) = L /\ DOMAIN symbol_tables = 1 .. L
  BY <1>1, <1>4, <1>5
<1>7. Ident = tree[next].ident /\ Top(symbol_tables) = Named(ScopeOf(next), next)
  BY <1>1, <1>3, <1>4, <1>5, <1>6 DEF Ident, Visiting, Top
<1>8. DeclaredHere(Ident) <=> Wrong(next)
  BY <1>3, <1>7 DEF DeclaredHere, Wrong
<1>9. CASE DeclaredHere(Ident)
  <2>1. Reject(2)
    BY <1>9 DEF AnalyzeDecl
  <2>2. /\ tree' = tree /\ phase' = "rejected" /\ todo' = <<>> /\ symbol_tables' = <<>>
        /\ error_code' = 2
    BY <2>1 DEF Reject, unchangedByAnalysis
  <2>3. Wrong(next) /\ ~Undeclared(next)
    BY <1>3, <1>8, <1>9
  <2>4. Rejected'
    BY <2>2, <2>3, <1>1, <1>4, SameTree2 DEF Rejected
  <2> QED BY <2>2, <2>4, <1>6
<1>10. CASE ~DeclaredHere(Ident)
  <2>1. /\ symbol_tables' = [symbol_tables EXCEPT ![L] = @ \cup {Ident}]
        /\ GoOn(<<>>) /\ tree' = tree /\ phase' = "analysis" /\ error_code' = 0
    BY <1>4, <1>6, <1>10 DEF AnalyzeDecl, unchangedByAnalysis, Analyzing
  <2>2. WalkAt(next + 1, scopes)'
    BY <1>1, <2>1, AtParts DEF AnalysisAt, AnalyzeDecl, Is, Leaves
  <2>3. /\ symbol_tables' \in Seq(SUBSET Idents) /\ Len(symbol_tables') = L
        /\ symbol_tables'[L] = symbol_tables[L] \cup {Ident}
        /\ \A k \in 1 .. L : k # L => symbol_tables'[k] = symbol_tables[k]
    <3>1. Ident \in Idents
      BY <1>1, <1>7, TreeFacts
    <3> QED BY <3>1, <2>1, <1>4, <1>6
  <2>4. \A m \in 1 .. (next + 1) - 1 : ~Wrong(m)
    BY <1>1, <1>4, <1>8, <1>10, OneMore
  <2>5. ASSUME NEW k \in DOMAIN scopes PROVE symbol_tables'[k] = Named(scopes[k], next + 1)
    <3>1. CASE k = L
      BY <3>1, <2>3, <1>1, <1>2, <1>3, <1>4, <1>5, <1>6, <1>7, NamedFacts
    <3>2. CASE k # L
      <4>1. scopes[k] # ScopeOf(next) /\ k \in 1 .. L
        BY <3>2, <1>1, <1>3, <1>5
      <4> QED BY <3>2, <4>1, <2>3, <1>1, <1>2, <1>4, NamedFacts
    <3> QED BY <3>1, <3>2
  <2>6. Tables(next + 1, scopes)'
    BY <2>1, <2>3, <2>4, <2>5, <1>5, SameTree2 DEF Tables
  <2> QED BY <2>1, <2>2, <2>6, <1>6 DEF AnalysisAt
<1> QED BY <1>9, <1>10

LEMMA AnalyzeVarStep ==
  ASSUME WellFormedTree(tree), NEW next, NEW scopes, AnalysisAt(next, scopes), AnalyzeVar
  PROVE  /\ tree' = tree
         /\ \/ phase' = "analysis" /\ \E n, s : AnalysisAt(n, s)'
            \/ phase' = "rejected" /\ Rejected'
<1>1. /\ todo # <<>> /\ Head(todo) # leave /\ Head(todo) = next /\ next \in DOMAIN tree
      /\ next \in Nat /\ tree[next].kind = "var"
      /\ scopes \in Seq(DOMAIN tree) /\ DOMAIN scopes = 1 .. Len(scopes) /\ Len(scopes) \in Nat
  BY AtFacts DEF AnalysisAt, AnalyzeVar, Is
<1>2. next \in Uses
  BY <1>1 DEF Uses
<1>3. /\ next \notin Decls
      /\ Wrong(next) <=> Undeclared(next)
      /\ Undeclared(next) <=> \A k \in DOMAIN scopes : tree[next].ident \notin Named(scopes[k], next)
  BY <1>1, <1>2, WrongFacts DEF AnalysisAt
<1>4. /\ symbol_tables \in Seq(SUBSET Idents) /\ Len(symbol_tables) = Len(scopes)
      /\ \A k \in DOMAIN scopes : symbol_tables[k] = Named(scopes[k], next)
      /\ \A m \in 1 .. next - 1 : ~Wrong(m)
      /\ error_code = 0
  BY DEF AnalysisAt, Tables
<1>5. DOMAIN symbol_tables = DOMAIN scopes /\ Ident = tree[next].ident
  BY <1>1, <1>4 DEF Ident, Visiting
<1>6. (\E i \in DOMAIN symbol_tables : Ident \in symbol_tables[i]) <=> ~Wrong(next)
  BY <1>3, <1>4, <1>5
<1>7. CASE Wrong(next)
  <2>1. Reject(1)
    BY <1>6, <1>7 DEF AnalyzeVar
  <2>2. /\ tree' = tree /\ phase' = "rejected" /\ todo' = <<>> /\ symbol_tables' = <<>>
        /\ error_code' = 1
    BY <2>1 DEF Reject, unchangedByAnalysis
  <2>3. Rejected'
    BY <2>2, <1>1, <1>3, <1>4, <1>7, SameTree2 DEF Rejected
  <2> QED BY <2>2, <2>3
<1>8. CASE ~Wrong(next)
  <2>1. GoOn(<<>>) /\ tree' = tree /\ phase' = "analysis" /\ UNCHANGED <<symbol_tables, error_code>>
    BY <1>6, <1>8 DEF AnalyzeVar, unchangedByAnalysis, Analyzing
  <2>2. WalkAt(next + 1, scopes)'
    BY <1>1, <2>1, AtParts DEF AnalysisAt, AnalyzeVar, Is, Leaves
  <2>3. \A m \in 1 .. (next + 1) - 1 : ~Wrong(m)
    BY <1>1, <1>4, <1>8, OneMore
  <2>4. Tables(next + 1, scopes)'
    BY <2>1, <2>3, <1>1, <1>3, <1>4, NamedFacts, SameTree2 DEF Tables
  <2> QED BY <2>1, <2>2, <2>4 DEF AnalysisAt
<1> QED BY <1>7, <1>8

-----------------------------------------------------------------------------
(***************************************************************************)
(* The renaming                                                            *)
(***************************************************************************)

NewNames == Idents \X Nat

Scopings == UNION {[names -> NewNames] : names \in SUBSET Idents}

LEMMA ScopingFacts ==
  ASSUME NEW f \in Scopings, NEW x \in Idents, NEW v \in NewNames
  PROVE  /\ DOMAIN f \in SUBSET Idents
         /\ NoNames \in Scopings /\ DOMAIN NoNames = {}
         /\ With(f, x, v) \in Scopings /\ DOMAIN With(f, x, v) = DOMAIN f \cup {x}
         /\ With(f, x, v)[x] = v /\ \A y \in DOMAIN f : y # x => With(f, x, v)[y] = f[y]
<1>1. PICK names \in SUBSET Idents : f \in [names -> NewNames]
  BY DEF Scopings
<1>2. NoNames \in [{} -> NewNames] /\ DOMAIN NoNames = {}
  BY DEF NoNames
<1>3. With(f, x, v) \in [names \cup {x} -> NewNames]
  BY <1>1 DEF With
<1>4. names \cup {x} \in SUBSET Idents /\ {} \in SUBSET Idents
  BY <1>1
<1>5. NoNames \in Scopings /\ With(f, x, v) \in Scopings
  BY <1>2, <1>3, <1>4 DEF Scopings
<1> QED BY <1>1, <1>2, <1>5 DEF With

\* The open scopes have the new names of the declarations so far.
Scoped(next, scopes) ==
  /\ renamings \in Seq(Scopings) /\ Len(renamings) = Len(scopes)
  /\ \A k \in DOMAIN scopes :
       /\ DOMAIN renamings[k] = Named(scopes[k], next)
       /\ \A d \in Earlier(scopes[k], next) : renamings[k][tree[d].ident] = name[d]

\* No two of them are equal, and none will be given again.
Distinct(next) ==
  /\ \A d \in Decls : d < next =>
       \E j \in Nat : name[d] = <<tree[d].ident, j>> /\ j < var_counter[tree[d].ident]
  /\ \A d, e \in Decls : d < next /\ e < next /\ name[d] = name[e] => d = e

\* The uses so far have the name of what they refer to.
Bound(next) ==
  \A u \in Uses : u < next => \E d \in Decls : d < u /\ Binds(d, u) /\ name[u] = name[d]

NamesOK(next) ==
  /\ DOMAIN name = DOMAIN tree
  /\ var_counter \in [Idents -> Nat]
  /\ Distinct(next) /\ Bound(next)

RenamingAt(next, scopes) == WalkAt(next, scopes) /\ Scoped(next, scopes) /\ NamesOK(next)

Accepted == error_code = 0 /\ \A n \in DOMAIN tree : ~Wrong(n)

\* Nothing changes for what comes before a node that neither declares nor uses anything.
LEMMA NamesStay ==
  ASSUME WellFormedTree(tree), NEW n \in DOMAIN tree, n \notin Decls, n \notin Uses, NamesOK(n)
  PROVE  NamesOK(n + 1)
<1>1. DOMAIN tree = 1 .. Len(tree) /\ Len(tree) \in Nat
  BY TreeFacts
<1>2. /\ \A d \in Decls : d < n + 1 => d < n
      /\ \A u \in Uses : u < n + 1 => u < n
  <2>1. \A d \in DOMAIN tree : d < n + 1 => d < n \/ d = n
    BY <1>1
  <2> QED BY <2>1 DEF Decls, Uses
<1>3. Distinct(n + 1)
  BY <1>2 DEF NamesOK, Distinct
<1>4. Bound(n + 1)
  BY <1>2 DEF NamesOK, Bound
<1> QED BY <1>3, <1>4 DEF NamesOK

LEMMA SameNames ==
  ASSUME tree' = tree, name' = name, var_counter' = var_counter, NEW n, NamesOK(n)
  PROVE  NamesOK(n)'
<1>1. Distinct(n)'
  BY SameTree DEF NamesOK, Distinct
<1>2. Bound(n)'
  BY SameTree, SameTree2 DEF NamesOK, Bound
<1> QED BY <1>1, <1>2 DEF NamesOK

LEMMA RenameBlockStep ==
  ASSUME WellFormedTree(tree), NEW next, NEW scopes, RenamingAt(next, scopes), RenameBlock
  PROVE  \E n, s : RenamingAt(n, s)'
<1>1. tree' = tree /\ name' = name /\ var_counter' = var_counter
  BY DEF RenameBlock, unchangedByRenaming
<1>2. Scope(next) /\ WalkAt(next + 1, Append(scopes, next))'
  BY <1>1, AtBlock DEF RenamingAt, RenameBlock
<1>3. /\ next \in DOMAIN tree /\ next \in Nat /\ Head(todo) = next
      /\ scopes \in Seq(DOMAIN tree) /\ DOMAIN scopes = 1 .. Len(scopes) /\ Len(scopes) \in Nat
  BY AtFacts DEF RenamingAt, RenameBlock, Is
<1>4. next \notin Decls /\ next \notin Uses
  BY <1>3 DEF RenameBlock, Is, Decls, Uses
<1>5. NamesOK(next + 1)'
  BY <1>1, <1>3, <1>4, NamesStay, SameNames DEF RenamingAt
<1>6. /\ renamings \in Seq(Scopings) /\ Len(renamings) = Len(scopes)
      /\ \A k \in DOMAIN scopes :
           /\ DOMAIN renamings[k] = Named(scopes[k], next)
           /\ \A d \in Earlier(scopes[k], next) : renamings[k][tree[d].ident] = name[d]
      /\ renamings' = Append(renamings, NoNames)
  BY DEF RenamingAt, Scoped, RenameBlock
<1>7. NoNames \in Scopings /\ DOMAIN NoNames = {}
  <2>1. NoNames \in [{} -> NewNames] /\ DOMAIN NoNames = {}
    BY DEF NoNames
  <2> QED BY <2>1 DEF Scopings
<1>8. /\ renamings' \in Seq(Scopings) /\ Len(renamings') = Len(Append(scopes, next))
      /\ \A k \in 1 .. Len(scopes) : renamings'[k] = renamings[k]
      /\ renamings'[Len(scopes) + 1] = NoNames
  BY <1>3, <1>6, <1>7
<1>9. PICK more \in Seq(DOMAIN tree) : more = Append(scopes, next)
  <2>1. Append(scopes, next) \in Seq(DOMAIN tree)
    BY <1>3
  <2> QED BY <2>1
<1>10. /\ DOMAIN more = 1 .. Len(scopes) + 1
       /\ \A k \in 1 .. Len(scopes) : more[k] = scopes[k]
       /\ more[Len(scopes) + 1] = next
  BY <1>3, <1>9
<1>11. ASSUME NEW k \in DOMAIN more
       PROVE  /\ DOMAIN renamings'[k] = Named(more[k], next + 1)
              /\ \A d \in Earlier(more[k], next + 1) : renamings'[k][tree[d].ident] = name[d]
  <2>1. CASE k \in 1 .. Len(scopes)
    <3>1. more[k] = scopes[k] /\ renamings'[k] = renamings[k]
      BY <2>1, <1>8, <1>10
    <3>2. Named(more[k], next + 1) = Named(scopes[k], next)
      BY <3>1, <1>3, <1>4, NamedFacts
    <3>3. Earlier(more[k], next + 1) = Earlier(scopes[k], next)
      BY <3>1, <1>3, <1>4, EarlierFacts
    <3> QED BY <2>1, <3>1, <3>2, <3>3, <1>3, <1>6
  <2>2. CASE k = Len(scopes) + 1
    <3>1. more[k] = next /\ renamings'[k] = NoNames
      BY <2>2, <1>8, <1>10
    <3>2. Named(next, next + 1) = {} /\ Earlier(next, next + 1) = {}
      BY <1>3, NamedFacts, EarlierFacts
    <3> QED BY <3>1, <3>2, <1>7
  <2> QED BY <2>1, <2>2, <1>3, <1>10
<1>12. Scoped(next + 1, more)'
  BY <1>1, <1>8, <1>9, <1>11, SameTree2 DEF Scoped
<1>13. WalkAt(next + 1, more)'
  BY <1>2, <1>9
<1> QED BY <1>5, <1>12, <1>13 DEF RenamingAt

LEMMA LeaveScopeStep ==
  ASSUME WellFormedTree(tree), NEW next, NEW scopes, RenamingAt(next, scopes), LeaveScope
  PROVE  \E n, s : RenamingAt(n, s)'
<1>1. tree' = tree /\ name' = name /\ var_counter' = var_counter
  BY DEF LeaveScope, unchangedByRenaming
<1>2. Len(scopes) # 0 /\ WalkAt(next, Popped(scopes))'
  BY <1>1, AtLeave DEF RenamingAt, LeaveScope
<1>3. scopes \in Seq(DOMAIN tree) /\ DOMAIN scopes = 1 .. Len(scopes) /\ Len(scopes) \in Nat
  BY AtFacts DEF RenamingAt
<1>4. PICK L \in Nat : Len(scopes) = L + 1 /\ Len(scopes) - 1 = L
  <2>1. PICK l \in Nat \ {0} : l = Len(scopes)
    BY <1>2, <1>3
  <2>2. PICK j \in Nat : j = l - 1
    OBVIOUS
  <2> QED BY <2>1, <2>2
<1>5. /\ renamings \in Seq(Scopings) /\ Len(renamings) = Len(scopes)
      /\ renamings' = Popped(renamings)
  BY DEF RenamingAt, Scoped, LeaveScope
<1>6. /\ renamings' \in Seq(Scopings) /\ Len(renamings') = L
      /\ \A k \in 1 .. L : renamings'[k] = renamings[k]
  BY <1>2, <1>4, <1>5, PoppedFacts
<1>7. PICK more : more = Popped(scopes)
  OBVIOUS
<1>8. /\ more \in Seq(DOMAIN tree) /\ Len(more) = L
      /\ \A k \in 1 .. L : more[k] = scopes[k]
  BY <1>2, <1>3, <1>4, <1>7, PoppedFacts
<1>9. DOMAIN more = 1 .. L /\ \A k \in 1 .. L : k \in DOMAIN scopes
  BY <1>3, <1>4, <1>8
<1>10. Scoped(next, more)'
  BY <1>1, <1>6, <1>8, <1>9, SameTree2 DEF RenamingAt, Scoped
<1>11. WalkAt(next, more)'
  <2>1. Popped(scopes)' = more
    BY <1>7 DEF Popped
  <2> QED BY <1>2, <2>1
<1>12. NamesOK(next)'
  BY <1>1, SameNames DEF RenamingAt
<1> QED BY <1>10, <1>11, <1>12 DEF RenamingAt

LEMMA RenamePartsStep ==
  ASSUME WellFormedTree(tree), NEW next, NEW scopes, RenamingAt(next, scopes), RenameParts
  PROVE  \E n, s : RenamingAt(n, s)'
<1>1. tree' = tree /\ UNCHANGED <<renamings, var_counter, name>>
  BY DEF RenameParts, unchangedByRenaming
<1>2. WalkAt(next + 1, scopes)'
  BY <1>1, AtParts DEF RenamingAt, RenameParts, Is
<1>3. next \in DOMAIN tree /\ next \in Nat /\ Head(todo) = next
  BY AtFacts DEF RenamingAt, RenameParts, Is
<1>4. next \notin Decls /\ next \notin Uses
  BY <1>3 DEF RenameParts, Is, Plain, Decls, Uses
<1>5. NamesOK(next + 1)'
  BY <1>1, <1>3, <1>4, NamesStay, SameNames DEF RenamingAt
<1>6. Scoped(next + 1, scopes)'
  BY <1>1, <1>3, <1>4, NamedFacts, EarlierFacts, SameTree2 DEF RenamingAt, Scoped
<1> QED BY <1>2, <1>5, <1>6 DEF RenamingAt

\* Node m comes next in the text after n, but for nodes that declare and use nothing.
Follows(m, n) == \A x \in Decls \cup Uses : x < m => x < n \/ x = n

LEMMA Declares ==
  ASSUME WellFormedTree(tree), tree' = tree, NEW n \in Decls, NEW m, Follows(m, n),
         NEW stack \in Seq(Scopings), stack # <<>>, Declare(n, stack), NamesOK(n)
  PROVE  /\ NamesOK(m)'
         /\ renamings' \in Seq(Scopings) /\ Len(renamings') = Len(stack)
         /\ \A k \in DOMAIN stack : k # Len(stack) => renamings'[k] = stack[k]
         /\ DOMAIN renamings'[Len(stack)] = DOMAIN stack[Len(stack)] \cup {tree[n].ident}
         /\ renamings'[Len(stack)][tree[n].ident] = name'[n]
         /\ \A y \in DOMAIN stack[Len(stack)] : y # tree[n].ident =>
              renamings'[Len(stack)][y] = stack[Len(stack)][y]
         /\ \A d \in Decls : d < n => name'[d] = name[d]
<1>1. DOMAIN tree = 1 .. Len(tree) /\ Len(tree) \in Nat
  BY TreeFacts
<1>2. n \in DOMAIN tree /\ n \notin Uses /\ tree[n].ident \in Idents
  BY TreeFacts DEF Decls, Uses
<1>3. PICK x \in Idents : x = tree[n].ident
  BY <1>2
<1>4. DOMAIN name = DOMAIN tree /\ var_counter \in [Idents -> Nat] /\ Distinct(n) /\ Bound(n)
  BY DEF NamesOK
<1>5. PICK v : v = Fresh(x)
  OBVIOUS
<1>6. v = <<x, var_counter[x]>> /\ v \in NewNames /\ var_counter[x] \in Nat
  <2>1. var_counter[x] \in Nat
    BY <1>4
  <2> QED BY <2>1, <1>5 DEF Fresh, NewNames
<1>7. /\ name' = [name EXCEPT ![n] = v]
      /\ renamings' = [stack EXCEPT ![Len(stack)] = With(@, x, v)]
      /\ var_counter' = [var_counter EXCEPT ![x] = @ + 1]
  BY <1>3, <1>5 DEF Declare
<1>8. /\ DOMAIN name' = DOMAIN tree /\ name'[n] = v
      /\ \A d \in DOMAIN tree : d # n => name'[d] = name[d]
  BY <1>2, <1>4, <1>7
<1>9. /\ var_counter' \in [Idents -> Nat]
      /\ var_counter'[x] = var_counter[x] + 1
      /\ \A y \in Idents : y # x => var_counter'[y] = var_counter[y]
  BY <1>4, <1>7
<1>10. \A d \in Decls \cup Uses : d < n => d # n /\ d \in DOMAIN tree
  BY <1>1 DEF Decls, Uses
<1>11. \A d \in Decls : d < n => name'[d] = name[d]
  BY <1>8, <1>10
\* What the new name is, and that no earlier declaration has it.
<1>12. ASSUME NEW d \in Decls, d < n
       PROVE  /\ name'[d] # v
              /\ \E j \in Nat : name'[d] = <<tree[d].ident, j>> /\ j < var_counter'[tree[d].ident]
  <2>1. PICK j \in Nat : name[d] = <<tree[d].ident, j>> /\ j < var_counter[tree[d].ident]
    BY <1>4, <1>12 DEF Distinct
  <2>2. PICK y \in Idents : y = tree[d].ident
    BY TreeFacts DEF Decls
  <2>3. name'[d] = <<y, j>> /\ j < var_counter[y] /\ var_counter[y] \in Nat
    BY <2>1, <2>2, <1>4, <1>11, <1>12
  <2>4. j < var_counter'[y]
    <3>1. CASE y = x
      BY <3>1, <2>3, <1>6, <1>9
    <3>2. CASE y # x
      BY <3>2, <2>3, <1>9
    <3> QED BY <3>1, <3>2
  <2>5. ASSUME <<y, j>> = v PROVE FALSE
    <3>1. y = x /\ j = var_counter[x]
      BY <2>5, <1>6
    <3> QED BY <3>1, <2>3
  <2> QED BY <2>2, <2>3, <2>4, <2>5
<1>13. Distinct(m)'
  <2> SUFFICES /\ \A d \in Decls : d < m =>
                    \E j \in Nat : name'[d] = <<tree[d].ident, j>> /\ j < var_counter'[tree[d].ident]
               /\ \A d, e \in Decls : d < m /\ e < m /\ name'[d] = name'[e] => d = e
    BY SameTree DEF Distinct
  <2>1. ASSUME NEW d \in Decls, d < m
        PROVE  \E j \in Nat : name'[d] = <<tree[d].ident, j>> /\ j < var_counter'[tree[d].ident]
    <3>1. CASE d < n
      BY <3>1, <1>12
    <3>2. CASE d = n
      <4>1. var_counter[x] < var_counter'[x]
        BY <1>6, <1>9
      <4> QED BY <4>1, <3>2, <1>3, <1>6, <1>8
    <3> QED BY <3>1, <3>2, <2>1 DEF Follows
  <2>2. ASSUME NEW d \in Decls, NEW e \in Decls, d < m, e < m, name'[d] = name'[e] PROVE d = e
    <3>1. d < n \/ d = n
      BY <2>2 DEF Follows
    <3>2. e < n \/ e = n
      BY <2>2 DEF Follows
    <3>3. CASE d < n /\ e < n
      <4>1. name[d] = name[e]
        BY <3>3, <2>2, <1>11
      <4> QED BY <3>3, <4>1, <1>4 DEF Distinct
    <3>4. CASE d < n /\ e = n
      BY <3>4, <2>2, <1>8, <1>12
    <3>5. CASE d = n /\ e < n
      BY <3>5, <2>2, <1>8, <1>12
    <3> QED BY <3>1, <3>2, <3>3, <3>4, <3>5
  <2> QED BY <2>1, <2>2
<1>14. Bound(m)'
  <2> SUFFICES ASSUME NEW u \in Uses, u < m
               PROVE  \E d \in Decls : d < u /\ Binds(d, u) /\ name'[u] = name'[d]
    BY SameTree, SameTree2 DEF Bound
  <2>1. u < n
    BY <1>2 DEF Follows
  <2>2. PICK d \in Decls : d < u /\ Binds(d, u) /\ name[u] = name[d]
    BY <2>1, <1>4 DEF Bound
  <2>3. d < n
    <3>1. d \in Nat /\ u \in Nat /\ n \in Nat
      BY <1>1, <1>2 DEF Decls, Uses
    <3> QED BY <3>1, <2>1, <2>2
  <2>4. name'[u] = name[u] /\ name'[d] = name[d]
    BY <2>1, <2>3, <1>8, <1>10
  <2> QED BY <2>2, <2>4
<1>15. NamesOK(m)'
  BY <1>8, <1>9, <1>13, <1>14 DEF NamesOK
<1>16. PICK L \in Nat \ {0} : L = Len(stack) /\ DOMAIN stack = 1 .. L
  OBVIOUS
<1>17. stack[L] \in Scopings
  BY <1>16
<1>18. PICK top \in Scopings : top = With(stack[L], x, v)
  BY <1>6, <1>17, ScopingFacts
<1>19. renamings' = [stack EXCEPT ![L] = top]
  BY <1>7, <1>16, <1>18
<1>20. /\ renamings' \in Seq(Scopings) /\ Len(renamings') = L /\ renamings'[L] = top
       /\ \A k \in DOMAIN stack : k # L => renamings'[k] = stack[k]
  BY <1>16, <1>19
<1>21. /\ DOMAIN top = DOMAIN stack[L] \cup {x} /\ top[x] = v
       /\ \A y \in DOMAIN stack[L] : y # x => top[y] = stack[L][y]
  <2>1. PICK f \in Scopings : f = stack[L]
    BY <1>17
  <2>2. /\ DOMAIN With(f, x, v) = DOMAIN f \cup {x} /\ With(f, x, v)[x] = v
        /\ \A y \in DOMAIN f : y # x => With(f, x, v)[y] = f[y]
    BY DEF With
  <2> QED BY <2>1, <2>2, <1>18
<1> QED BY <1>3, <1>8, <1>11, <1>15, <1>16, <1>20, <1>21

LEMMA RenameDeclStep ==
  ASSUME WellFormedTree(tree), NEW next, NEW scopes, RenamingAt(next, scopes), Accepted, RenameDecl
  PROVE  renamings # <<>> /\ \E n, s : RenamingAt(n, s)'
<1>1. tree' = tree /\ Declare(next, renamings) /\ GoOn(<<>>)
  <2>1. Head(todo) = next
    BY AtFacts DEF RenamingAt, RenameDecl, Is
  <2> QED BY <2>1 DEF RenameDecl, unchangedByRenaming, Visiting
<1>2. /\ todo # <<>> /\ Head(todo) # leave /\ Head(todo) = next /\ next \in DOMAIN tree
      /\ next \in Nat /\ tree[next].kind = "decl"
      /\ scopes \in Seq(DOMAIN tree) /\ DOMAIN scopes = 1 .. Len(scopes) /\ Len(scopes) \in Nat
  BY AtFacts DEF RenamingAt, RenameDecl, Is
<1>3. next \in Decls
  BY <1>2 DEF Decls
<1>4. /\ Len(scopes) # 0 /\ scopes[Len(scopes)] = ScopeOf(next)
      /\ \A k \in DOMAIN scopes : k # Len(scopes) => scopes[k] # ScopeOf(next)
      /\ DeclaredTwice(next) <=> tree[next].ident \in Named(ScopeOf(next), next)
  BY <1>2, <1>3, WrongFacts DEF RenamingAt
<1>5. tree[next].ident \notin Named(ScopeOf(next), next)
  BY <1>2, <1>4 DEF Accepted, Wrong
<1>6. /\ renamings \in Seq(Scopings) /\ Len(renamings) = Len(scopes)
      /\ \A k \in DOMAIN scopes :
           /\ DOMAIN renamings[k] = Named(scopes[k], next)
           /\ \A d \in Earlier(scopes[k], next) : renamings[k][tree[d].ident] = name[d]
  BY DEF RenamingAt, Scoped
<1>7. PICK L \in Nat \ {0} : L = Len(scopes)
  BY <1>2, <1>4
<1>8. L = Len(renamings) /\ DOMAIN renamings = 1 .. L /\ DOMAIN scopes = 1 .. L /\ renamings # <<>>
  BY <1>2, <1>6, <1>7
<1>9. Follows(next + 1, next)
  <2>1. \A x \in DOMAIN tree : x < next + 1 => x < next \/ x = next
    BY <1>2, TreeFacts
  <2> QED BY <2>1 DEF Follows, Decls, Uses
<1>10. PICK stack \in Seq(Scopings) : stack = renamings
  BY <1>6
<1>11. Declare(next, stack) /\ stack # <<>> /\ Len(stack) = L
  BY <1>1, <1>8, <1>10
<1>12. /\ NamesOK(next + 1)'
       /\ renamings' \in Seq(Scopings) /\ Len(renamings') = L
       /\ \A k \in 1 .. L : k # L => renamings'[k] = renamings[k]
       /\ DOMAIN renamings'[L] = DOMAIN renamings[L] \cup {tree[next].ident}
       /\ renamings'[L][tree[next].ident] = name'[next]
       /\ \A y \in DOMAIN renamings[L] : y # tree[next].ident =>
            renamings'[L][y] = renamings[L][y]
       /\ \A d \in Decls : d < next => name'[d] = name[d]
  <2>1. NamesOK(next)
    BY DEF RenamingAt
  <2> QED BY <2>1, <1>1, <1>3, <1>8, <1>9, <1>10, <1>11, Declares
<1>13. ASSUME NEW k \in 1 .. L
       PROVE  /\ DOMAIN renamings'[k] = Named(scopes[k], next + 1)
              /\ \A d \in Earlier(scopes[k], next + 1) : renamings'[k][tree[d].ident] = name'[d]
  <2>1. \A d \in Earlier(scopes[k], next) :
          d \in Decls /\ name'[d] = name[d] /\ tree[d].ident \in Named(scopes[k], next)
    BY <1>12 DEF Earlier, Named
  <2>2. CASE k # L
    <3>1. /\ Named(scopes[k], next + 1) = Named(scopes[k], next)
          /\ Earlier(scopes[k], next + 1) = Earlier(scopes[k], next)
      <4>1. scopes[k] # ScopeOf(next)
        BY <2>2, <1>4, <1>7, <1>8
      <4>2. PICK a : a = scopes[k]
        OBVIOUS
      <4>3. Named(a, next + 1) = Named(a, next) /\ Earlier(a, next + 1) = Earlier(a, next)
        BY <4>1, <4>2, <1>2, <1>3, NamedFacts, EarlierFacts
      <4> QED BY <4>2, <4>3
    <3>2. renamings'[k] = renamings[k] /\ k \in DOMAIN scopes
      BY <2>2, <1>8, <1>12
    <3>3. DOMAIN renamings'[k] = Named(scopes[k], next + 1)
      BY <3>1, <3>2, <1>6
    <3>4. ASSUME NEW d \in Earlier(scopes[k], next)
          PROVE  renamings'[k][tree[d].ident] = name'[d]
      <4>1. renamings[k][tree[d].ident] = name[d]
        BY <3>2, <1>6
      <4> QED BY <4>1, <3>2, <2>1
    <3> QED BY <3>1, <3>3, <3>4
  <2>3. CASE k = L
    <3>1. scopes[k] = ScopeOf(next)
      BY <2>3, <1>4, <1>7
    <3>2. /\ Named(scopes[k], next + 1) = Named(scopes[k], next) \cup {tree[next].ident}
          /\ Earlier(scopes[k], next + 1) = Earlier(scopes[k], next) \cup {next}
      BY <3>1, <1>2, <1>3, NamedFacts, EarlierFacts
    <3>3. DOMAIN renamings'[k] = Named(scopes[k], next + 1)
      BY <3>2, <2>3, <1>6, <1>8, <1>12
    <3>4. ASSUME NEW d \in Earlier(scopes[k], next)
          PROVE  renamings'[k][tree[d].ident] = name'[d]
      <4>1. tree[d].ident # tree[next].ident
        BY <3>1, <2>1, <1>5
      <4>2. tree[d].ident \in DOMAIN renamings[k] /\ renamings[k][tree[d].ident] = name[d]
        BY <2>1, <1>6, <1>8
      <4> QED BY <4>1, <4>2, <2>1, <2>3, <1>12
    <3> QED BY <3>2, <3>3, <3>4, <2>3, <1>12
  <2> QED BY <2>2, <2>3
<1>14. Scoped(next + 1, scopes)'
  BY <1>1, <1>7, <1>8, <1>12, <1>13, SameTree2 DEF Scoped
<1>15. WalkAt(next + 1, scopes)'
  BY <1>1, <1>2, AtParts DEF RenamingAt, RenameDecl, Is, Leaves
<1> QED BY <1>8, <1>12, <1>14, <1>15 DEF RenamingAt

LEMMA RenameFuncStep ==
  ASSUME WellFormedTree(tree), NEW next, NEW scopes, RenamingAt(next, scopes), RenameFunc
  PROVE  \E n, s : RenamingAt(n, s)'
<1>1. tree' = tree
  BY DEF RenameFunc, unchangedByRenaming
<1>2. next = 1 /\ scopes = <<>> /\ WalkAt(Body + 1, <<1>>)'
  BY <1>1, AtFunc DEF RenamingAt, RenameFunc
<1>3. PICK b \in DOMAIN tree : b = Body /\ b \in {2, 3} /\ Params = 2 .. b - 1
  <2>1. Body \in DOMAIN tree /\ Body \in {2, 3} /\ Params = 2 .. Body - 1
    BY RootFacts
  <2> QED BY <2>1
<1>4. WalkAt(b + 1, <<1>>)'
  BY <1>1, <1>2, <1>3, SameTree
<1>5. PICK stack \in Seq(Scopings) : stack = <<NoNames>>
  <2>1. NoNames \in [{} -> NewNames]
    BY DEF NoNames
  <2>2. <<NoNames>> \in Seq(Scopings)
    BY <2>1 DEF Scopings
  <2> QED BY <2>2
<1>6. stack # <<>> /\ Len(stack) = 1 /\ stack[1] = NoNames /\ DOMAIN NoNames = {}
  BY <1>5 DEF NoNames
<1>7. Append(renamings, NoNames) = stack
  <2>1. renamings \in Seq(Scopings) /\ Len(renamings) = 0
    BY <1>2 DEF RenamingAt, Scoped
  <2>2. renamings = <<>>
    BY <2>1
  <2> QED BY <2>2, <1>5
<1>8. Earlier(1, b + 1) = Params
  BY <1>3, ParamFacts
<1>9. /\ \A m \in 1 .. b : m \in DOMAIN tree /\ m \notin Uses /\ (m \in Decls <=> m \in Params)
      /\ DOMAIN tree = 1 .. Len(tree) /\ Len(tree) \in Nat
  BY <1>3, ParamFacts, TreeFacts
<1>13. PICK one : one = <<1>> /\ Len(one) = 1 /\ DOMAIN one = {1} /\ one[1] = 1
  <2>1. Len(<<1>>) = 1 /\ DOMAIN <<1>> = {1} /\ <<1>>[1] = 1
    OBVIOUS
  <2> QED BY <2>1
<1>10. NamesOK(2)
  <2>1. 1 \in DOMAIN tree /\ 1 \notin Decls /\ 1 \notin Uses
    BY <1>3, <1>9
  <2>2. NamesOK(1)
    BY <1>2 DEF RenamingAt
  <2> QED BY <2>1, <2>2, NamesStay
<1>11. CASE Params = {}
  <2>1. /\ renamings' = stack /\ UNCHANGED <<var_counter, name>>
    BY <1>7, <1>11 DEF RenameFunc
  <2>2. b = 2 /\ 2 \in DOMAIN tree /\ 2 \notin Decls /\ 2 \notin Uses
    BY <1>3, <1>9, <1>11
  <2>3. NamesOK(b + 1)'
    <3>1. NamesOK(2 + 1)
      BY <2>2, <1>10, NamesStay
    <3> QED BY <3>1, <2>1, <2>2, <1>1, SameNames
  <2>4. Earlier(1, b + 1) = {} /\ Named(1, b + 1) = {}
    BY <1>8, <1>11 DEF Named
  <2>5. Scoped(b + 1, one)'
    BY <2>1, <2>4, <1>1, <1>6, <1>13, SameTree2 DEF Scoped
  <2> QED BY <2>3, <2>5, <1>4, <1>13 DEF RenamingAt
<1>12. CASE Params # {}
  <2>1. b = 3 /\ Params = {2}
    BY <1>3, <1>12
  <2>2. Declare(2, stack)
    BY <2>1, <1>7 DEF RenameFunc
  <2>3. 2 \in Decls
    BY <2>1, <1>9
  <2>4. Follows(b + 1, 2)
    <3>1. 3 \notin Decls /\ 3 \notin Uses
      BY <2>1, <1>9
    <3>2. \A x \in DOMAIN tree : x < 4 => x < 2 \/ x = 2 \/ x = 3
      BY <1>9
    <3> QED BY <3>1, <3>2, <2>1 DEF Follows, Decls, Uses
  <2>5. /\ NamesOK(b + 1)'
        /\ renamings' \in Seq(Scopings) /\ Len(renamings') = 1
        /\ DOMAIN renamings'[1] = {tree[2].ident}
        /\ renamings'[1][tree[2].ident] = name'[2]
    BY <2>2, <2>3, <2>4, <1>1, <1>6, <1>10, Declares
  <2>6. Earlier(1, b + 1) = {2} /\ Named(1, b + 1) = {tree[2].ident}
    BY <2>1, <1>8 DEF Named
  <2>7. Scoped(b + 1, one)'
    <3>1. Earlier(1, b + 1)' = {2} /\ Named(1, b + 1)' = {tree[2].ident}
      BY <2>6, <1>1, SameTree2
    <3>2. \A d \in Earlier(1, b + 1)' : d = 2 /\ renamings'[1][tree'[d].ident] = name'[d]
      BY <2>5, <3>1, <1>1
    <3> QED BY <2>5, <3>1, <3>2, <1>13 DEF Scoped
  <2> QED BY <2>5, <2>7, <1>4, <1>13 DEF RenamingAt
<1> QED BY <1>11, <1>12

\* The innermost scope that knows a name has the last visible declaration of it.
LEMMA FoundBinds ==
  ASSUME WellFormedTree(tree), NEW next, NEW scopes, RenamingAt(next, scopes), Accepted,
         Is({"var"}), NEW i \in DOMAIN renamings, FoundIn(i, Ident)
  PROVE  \E d \in Decls : d < next /\ Binds(d, next) /\ renamings[i][Ident] = name[d]
<1>1. /\ todo # <<>> /\ Head(todo) # leave /\ Head(todo) = next /\ next \in DOMAIN tree
      /\ next \in Nat /\ tree[next].kind = "var"
      /\ scopes \in Seq(DOMAIN tree) /\ DOMAIN scopes = 1 .. Len(scopes) /\ Len(scopes) \in Nat
      /\ NestedScopes(scopes)
      /\ \A a : Encloses(a, next) <=> \E k \in DOMAIN scopes : scopes[k] = a
  BY AtFacts DEF RenamingAt, Is
<1>2. next \in Uses /\ Ident = tree[next].ident
  BY <1>1 DEF Uses, Ident, Visiting
<1>3. PICK x : x = Ident
  OBVIOUS
<1>4. /\ renamings \in Seq(Scopings) /\ Len(renamings) = Len(scopes)
      /\ \A k \in DOMAIN scopes :
           /\ DOMAIN renamings[k] = Named(scopes[k], next)
           /\ \A d \in Earlier(scopes[k], next) : renamings[k][tree[d].ident] = name[d]
  BY DEF RenamingAt, Scoped
<1>5. DOMAIN renamings = 1 .. Len(scopes)
  BY <1>4
<1>6. Visible(next) = UNION {{d \in Earlier(scopes[k], next) : tree[d].ident = x} :
                               k \in DOMAIN scopes}
  BY <1>1, <1>2, <1>3, WrongFacts DEF RenamingAt
<1>7. /\ x \in DOMAIN renamings[i]
      /\ \A j \in i + 1 .. Len(renamings) : x \notin DOMAIN renamings[j]
  BY <1>3 DEF FoundIn
<1>8. i \in DOMAIN scopes /\ scopes[i] \in DOMAIN tree
  BY <1>1, <1>5
<1>9. PICK d \in Earlier(scopes[i], next) : tree[d].ident = x
  BY <1>4, <1>7, <1>8 DEF Named
<1>10. d \in Decls /\ d < next /\ ScopeOf(d) = scopes[i] /\ d \in Visible(next)
       /\ d \in DOMAIN tree /\ scopes[i] < d
  BY <1>6, <1>8, <1>9, DeclScope DEF Earlier
<1>11. DOMAIN tree = 1 .. Len(tree) /\ Len(tree) \in Nat
  BY TreeFacts
<1>12. ASSUME NEW e \in Visible(next) PROVE e <= d
  <2>1. PICK j \in DOMAIN scopes : e \in Earlier(scopes[j], next) /\ tree[e].ident = x
    BY <1>6
  <2>2. e \in Decls /\ e < next /\ ScopeOf(e) = scopes[j] /\ e \in DOMAIN tree
    BY <2>1, DeclScope DEF Earlier
  <2>3. ~(j > i)
    <3>1. j > i => j \in i + 1 .. Len(renamings)
      BY <1>1, <1>4, <1>8
    <3>2. x \in DOMAIN renamings[j]
      BY <2>1, <1>4 DEF Named
    <3> QED BY <3>1, <3>2, <1>7
  <2>4. CASE j = i
    <3>1. SUFFICES ASSUME e > d PROVE FALSE
      BY <2>2, <1>10, <1>11
    <3>2. ScopeOf(d) \in Around(e)
      BY <2>2, <2>4, <1>10, DeclScope DEF Encloses
    <3>3. d \in Visible(e) /\ ScopeOf(d) = ScopeOf(e)
      BY <3>1, <3>2, <2>1, <2>2, <2>4, <1>9, <1>10, <1>11 DEF Visible
    <3>4. Wrong(e)
      BY <3>3, <2>2 DEF Wrong, DeclaredTwice
    <3> QED BY <3>4, <2>2 DEF Accepted
  <2>5. CASE j < i
    <3>1. scopes[j] < scopes[i]
      BY <2>1, <2>5, <1>1, <1>8 DEF NestedScopes
    <3>2. PICK a \in DOMAIN tree : a = scopes[i]
      BY <1>8
    <3>3. Encloses(a, next) /\ ScopeOf(e) < a
      BY <3>1, <3>2, <2>2, <1>1, <1>8
    <3>4. e < a
      BY <3>3, <2>2, <1>1, OuterFirst
    <3> QED BY <3>2, <3>4, <2>2, <1>10, <1>11
  <2> QED BY <2>1, <2>3, <2>4, <2>5, <1>1, <1>8
<1>13. Binds(d, next)
  BY <1>10, <1>12 DEF Binds
<1>14. renamings[i][x] = name[d]
  BY <1>4, <1>8, <1>9
<1> QED BY <1>3, <1>10, <1>13, <1>14

LEMMA RenameVarStep ==
  ASSUME WellFormedTree(tree), NEW next, NEW scopes, RenamingAt(next, scopes), Accepted, RenameVar
  PROVE  \E n, s : RenamingAt(n, s)'
<1>1. /\ tree' = tree /\ UNCHANGED <<renamings, var_counter>> /\ GoOn(<<>>)
  BY DEF RenameVar, unchangedByRenaming
<1>2. /\ todo # <<>> /\ Head(todo) # leave /\ Head(todo) = next /\ next \in DOMAIN tree
      /\ next \in Nat /\ tree[next].kind = "var"
      /\ DOMAIN scopes = 1 .. Len(scopes)
  BY AtFacts DEF RenamingAt, RenameVar, Is
<1>3. next \in Uses /\ next \notin Decls /\ Ident = tree[next].ident
  BY <1>2 DEF Uses, Decls, Ident, Visiting
<1>4. /\ renamings \in Seq(Scopings) /\ Len(renamings) = Len(scopes)
      /\ \A k \in DOMAIN scopes : DOMAIN renamings[k] = Named(scopes[k], next)
      /\ DOMAIN name = DOMAIN tree /\ var_counter \in [Idents -> Nat]
      /\ Distinct(next) /\ Bound(next)
  BY DEF RenamingAt, Scoped, NamesOK
<1>5. DOMAIN renamings = DOMAIN scopes
  BY <1>2, <1>4
<1>6. ~(\A i \in DOMAIN renamings : Ident \notin DOMAIN renamings[i])
  <2>1. ~Undeclared(next)
    BY <1>2 DEF Accepted, Wrong
  <2>2. Undeclared(next) <=>
          \A k \in DOMAIN scopes : tree[next].ident \notin Named(scopes[k], next)
    BY <1>2, <1>3, WrongFacts DEF RenamingAt
  <2> QED BY <2>1, <2>2, <1>3, <1>4, <1>5
<1>7. PICK i \in DOMAIN renamings : /\ FoundIn(i, Ident)
                                    /\ name' = [name EXCEPT ![next] = renamings[i][Ident]]
  BY <1>2, <1>6 DEF RenameVar, Visiting
<1>8. PICK d \in Decls : d < next /\ Binds(d, next) /\ renamings[i][Ident] = name[d]
  BY <1>7, FoundBinds DEF RenameVar
<1>9. /\ DOMAIN name' = DOMAIN tree /\ name'[next] = name[d]
      /\ \A m \in DOMAIN tree : m # next => name'[m] = name[m]
  BY <1>2, <1>4, <1>7, <1>8
<1>10. \A m \in Decls : m \in DOMAIN tree /\ m # next /\ name'[m] = name[m]
  BY <1>3, <1>9 DEF Decls
<1>11. \A m \in DOMAIN tree : m < next + 1 => m < next \/ m = next
  BY <1>2, TreeFacts
<1>12. Distinct(next + 1)'
  <2>1. \A m \in Decls : m < next + 1 => m < next
    BY <1>10, <1>11
  <2> QED BY <2>1, <1>1, <1>4, <1>10, SameTree DEF Distinct
<1>13. Bound(next + 1)'
  <2> SUFFICES ASSUME NEW u \in Uses, u < next + 1
               PROVE  \E e \in Decls : e < u /\ Binds(e, u) /\ name'[u] = name'[e]
    BY <1>1, SameTree, SameTree2 DEF Bound
  <2>1. u \in DOMAIN tree
    BY DEF Uses
  <2>2. CASE u = next
    BY <2>2, <1>8, <1>9, <1>10
  <2>3. CASE u < next
    <3>1. PICK e \in Decls : e < u /\ Binds(e, u) /\ name[u] = name[e]
      BY <2>3, <1>4 DEF Bound
    <3>2. u # next
      BY <2>1, <2>3, <1>2
    <3>3. name'[u] = name[u] /\ name'[e] = name[e]
      BY <2>1, <3>2, <1>9, <1>10
    <3> QED BY <3>1, <3>3
  <2> QED BY <2>1, <2>2, <2>3, <1>11
<1>14. NamesOK(next + 1)'
  BY <1>1, <1>4, <1>9, <1>12, <1>13 DEF NamesOK
<1>15. Scoped(next + 1, scopes)'
  <2>1. \A k \in DOMAIN scopes : /\ Named(scopes[k], next + 1) = Named(scopes[k], next)
                                 /\ Earlier(scopes[k], next + 1) = Earlier(scopes[k], next)
    BY <1>2, <1>3, NamedFacts, EarlierFacts
  <2>2. \A k \in DOMAIN scopes : \A m \in Earlier(scopes[k], next) : name'[m] = name[m]
    BY <1>10 DEF Earlier
  <2> QED BY <2>1, <2>2, <1>1, SameTree2 DEF RenamingAt, Scoped
<1>16. WalkAt(next + 1, scopes)'
  BY <1>1, AtParts DEF RenamingAt, RenameVar, Is, Leaves
<1> QED BY <1>14, <1>15, <1>16 DEF RenamingAt

-----------------------------------------------------------------------------
(***************************************************************************)
(* The invariant                                                           *)
(***************************************************************************)

ScopesIInv ==
  /\ WellFormedTree(tree)
  /\ phase \in {"analysis", "rejected", "rename", "renamed"}
  /\ symbol_tables \in Seq(SUBSET Idents)
  /\ phase \in {"analysis", "rejected"} =>
       /\ renamings = <<>>
       /\ DOMAIN name = DOMAIN tree
       /\ var_counter \in [Idents -> Nat]
  /\ phase = "analysis" => \E next, scopes : AnalysisAt(next, scopes)
  /\ phase = "rejected" => Rejected
  /\ phase = "rename" => Accepted /\ \E next, scopes : RenamingAt(next, scopes)
  /\ phase = "renamed" => /\ Accepted /\ todo = <<>> /\ renamings \in Seq(Scopings)
                          /\ NamesOK(Len(tree) + 1)

LEMMA SameAccepted ==
  ASSUME tree' = tree, error_code' = error_code, Accepted
  PROVE  Accepted'
BY SameTree2 DEF Accepted

\* Nothing has been declared or used before the first node.
LEMMA NoNamesYet ==
  ASSUME WellFormedTree(tree), DOMAIN name = DOMAIN tree, var_counter \in [Idents -> Nat]
  PROVE  NamesOK(1)
<1>1. \A x \in Decls \cup Uses : ~(x < 1)
  BY TreeFacts DEF Decls, Uses
<1>2. Distinct(1) /\ Bound(1)
  BY <1>1 DEF Distinct, Bound
<1> QED BY <1>2 DEF NamesOK

LEMMA ScopesStart == ScopesInit => ScopesIInv
<1> SUFFICES ASSUME ScopesInit PROVE ScopesIInv
  OBVIOUS
<1>1. WellFormedTree(tree)
  BY TreesAssumption DEF ScopesInit
<1>2. WalkAt(1, <<>>)
  BY <1>1, AtStart DEF ScopesInit
<1>3. symbol_tables = <<>> /\ error_code = 0 /\ renamings = <<>> /\ phase = "analysis"
  BY DEF ScopesInit
<1>4. Tables(1, <<>>)
  BY <1>3 DEF Tables
<1>5. DOMAIN name = DOMAIN tree /\ var_counter \in [Idents -> Nat]
  BY DEF ScopesInit
<1> QED BY <1>1, <1>2, <1>3, <1>4, <1>5 DEF ScopesIInv, AnalysisAt

LEMMA AnalyzeStep ==
  ASSUME ScopesIInv, Analyze
  PROVE  ScopesIInv'
<1>1. Analyzing /\ phase = "analysis" /\ WellFormedTree(tree)
  BY DEF Analyze, AnalyzeFunc, AnalyzeBlock, LeaveTable, AnalyzeDecl, AnalyzeVar, AnalyzeParts,
         Accept, Analyzing, ScopesIInv
<1>2. PICK next, scopes : AnalysisAt(next, scopes)
  BY <1>1 DEF ScopesIInv
<1>3. tree' = tree /\ UNCHANGED <<renamings, var_counter, name>>
  BY DEF Analyze, AnalyzeFunc, AnalyzeBlock, LeaveTable, AnalyzeDecl, AnalyzeVar, AnalyzeParts,
         Accept, unchangedByAnalysis, Reject
<1>4. WellFormedTree(tree)'
  BY <1>1, <1>3
<1>5. renamings = <<>> /\ DOMAIN name = DOMAIN tree /\ var_counter \in [Idents -> Nat]
  BY <1>1 DEF ScopesIInv
<1>6. ASSUME phase' = "analysis", \E n, s : AnalysisAt(n, s)' PROVE ScopesIInv'
  <2>1. (symbol_tables \in Seq(SUBSET Idents))'
    BY <1>6 DEF AnalysisAt, Tables
  <2> QED BY <2>1, <1>3, <1>4, <1>5, <1>6 DEF ScopesIInv
<1>7. ASSUME phase' = "rejected", Rejected' PROVE ScopesIInv'
  <2>1. (symbol_tables \in Seq(SUBSET Idents))'
    BY <1>7 DEF Rejected
  <2> QED BY <2>1, <1>3, <1>4, <1>5, <1>7 DEF ScopesIInv
<1>8. CASE AnalyzeFunc
  <2>1. phase' = "analysis"
    BY <1>1, <1>8 DEF AnalyzeFunc
  <2> QED BY <2>1, <1>1, <1>2, <1>6, <1>8, AnalyzeFuncStep
<1>9. CASE AnalyzeBlock
  <2>1. phase' = "analysis"
    BY <1>1, <1>9 DEF AnalyzeBlock
  <2> QED BY <2>1, <1>1, <1>2, <1>6, <1>9, AnalyzeBlockStep
<1>10. CASE LeaveTable
  <2>1. phase' = "analysis"
    BY <1>1, <1>10 DEF LeaveTable
  <2> QED BY <2>1, <1>1, <1>2, <1>6, <1>10, LeaveTableStep
<1>11. CASE AnalyzeDecl
  BY <1>1, <1>2, <1>6, <1>7, <1>11, AnalyzeDeclStep
<1>12. CASE AnalyzeVar
  BY <1>1, <1>2, <1>6, <1>7, <1>12, AnalyzeVarStep
<1>13. CASE AnalyzeParts
  <2>1. phase' = "analysis"
    BY <1>1, <1>13 DEF AnalyzeParts
  <2> QED BY <2>1, <1>1, <1>2, <1>6, <1>13, AnalyzePartsStep
<1>14. CASE Accept
  <2>1. /\ todo = <<>> /\ phase' = "rename" /\ todo' = <<1>>
        /\ UNCHANGED <<symbol_tables, error_code>>
    BY <1>14 DEF Accept
  <2>2. next = Len(tree) + 1
    BY <2>1, <1>1, <1>2, AtFacts DEF AnalysisAt
  <2>3. Accepted
    <3>1. error_code = 0 /\ \A m \in 1 .. next - 1 : ~Wrong(m)
      BY <1>2 DEF AnalysisAt, Tables
    <3>2. DOMAIN tree \subseteq 1 .. next - 1
      BY <2>2, <1>1, TreeFacts
    <3> QED BY <3>1, <3>2 DEF Accepted
  <2>4. Accepted'
    BY <2>1, <2>3, <1>3, SameAccepted
  <2>5. WalkAt(1, <<>>)'
    BY <2>1, <1>1, <1>3, AtRestart
  <2>6. Scoped(1, <<>>)'
    BY <1>3, <1>5 DEF Scoped
  <2>7. NamesOK(1)'
    BY <1>1, <1>3, <1>5, NoNamesYet, SameNames
  <2>8. \E n, s : RenamingAt(n, s)'
    BY <2>5, <2>6, <2>7 DEF RenamingAt
  <2>9. (symbol_tables \in Seq(SUBSET Idents))'
    BY <2>1 DEF ScopesIInv
  <2> QED BY <2>1, <2>4, <2>8, <2>9, <1>4 DEF ScopesIInv
<1> QED BY <1>8, <1>9, <1>10, <1>11, <1>12, <1>13, <1>14 DEF Analyze

LEMMA RenameStep ==
  ASSUME ScopesIInv, Rename
  PROVE  ScopesIInv'
<1>1. Renaming /\ phase = "rename" /\ WellFormedTree(tree)
  BY DEF Rename, RenameFunc, RenameBlock, LeaveScope, RenameDecl, RenameVar, RenameParts,
         EndRenaming, Renaming, ScopesIInv
<1>2. Accepted
  BY <1>1 DEF ScopesIInv
<1>3. PICK next, scopes : RenamingAt(next, scopes)
  BY <1>1 DEF ScopesIInv
<1>4. tree' = tree /\ UNCHANGED <<symbol_tables, error_code>>
  BY DEF Rename, RenameFunc, RenameBlock, LeaveScope, RenameDecl, RenameVar, RenameParts,
         EndRenaming, unchangedByRenaming
<1>5. WellFormedTree(tree)' /\ Accepted' /\ (symbol_tables \in Seq(SUBSET Idents))'
  BY <1>1, <1>2, <1>4, SameAccepted DEF ScopesIInv
<1>6. ASSUME phase' = phase, \E n, s : RenamingAt(n, s)' PROVE ScopesIInv'
  BY <1>1, <1>5, <1>6 DEF ScopesIInv
<1>7. CASE RenameFunc
  <2>1. phase' = phase
    BY <1>7 DEF RenameFunc
  <2> QED BY <2>1, <1>1, <1>3, <1>6, <1>7, RenameFuncStep
<1>8. CASE RenameBlock
  <2>1. phase' = phase
    BY <1>8 DEF RenameBlock
  <2> QED BY <2>1, <1>1, <1>3, <1>6, <1>8, RenameBlockStep
<1>9. CASE LeaveScope
  <2>1. phase' = phase
    BY <1>9 DEF LeaveScope
  <2> QED BY <2>1, <1>1, <1>3, <1>6, <1>9, LeaveScopeStep
<1>10. CASE RenameDecl
  <2>1. phase' = phase
    BY <1>10 DEF RenameDecl
  <2> QED BY <2>1, <1>1, <1>2, <1>3, <1>6, <1>10, RenameDeclStep
<1>11. CASE RenameVar
  <2>1. phase' = phase
    BY <1>11 DEF RenameVar
  <2> QED BY <2>1, <1>1, <1>2, <1>3, <1>6, <1>11, RenameVarStep
<1>12. CASE RenameParts
  <2>1. phase' = phase
    BY <1>12 DEF RenameParts
  <2> QED BY <2>1, <1>1, <1>3, <1>6, <1>12, RenamePartsStep
<1>13. CASE EndRenaming
  <2>1. todo = <<>> /\ phase' = "renamed" /\ UNCHANGED <<todo, renamings, var_counter, name>>
    BY <1>13 DEF EndRenaming
  <2>2. next = Len(tree) + 1
    BY <2>1, <1>1, <1>3, AtFacts DEF RenamingAt
  <2>3. PICK l : l = Len(tree) + 1
    OBVIOUS
  <2>4. NamesOK(l)'
    BY <2>1, <2>2, <2>3, <1>3, <1>4, SameNames DEF RenamingAt
  <2>5. (renamings \in Seq(Scopings))'
    BY <2>1, <1>3 DEF RenamingAt, Scoped, Scopings, NewNames
  <2>6. l = Len(tree') + 1
    BY <2>3, <1>4
  <2> QED BY <2>1, <2>4, <2>5, <2>6, <1>5 DEF ScopesIInv
<1> QED BY <1>7, <1>8, <1>9, <1>10, <1>11, <1>12, <1>13 DEF Rename

LEMMA ScopesStutter ==
  ASSUME ScopesIInv, UNCHANGED scopevars
  PROVE  ScopesIInv'
<1>1. UNCHANGED <<tree, phase, todo, symbol_tables, error_code, renamings, var_counter, name>>
  BY DEF scopevars, walkvars
<1>2. ASSUME NEW n, NEW s, WalkAt(n, s) PROVE WalkAt(n, s)'
  <2>1. PICK d : WalkOK(n, s, d)
    BY <1>2 DEF WalkAt
  <2>2. Places' = Places /\ \A p : TaskAt(p)' = TaskAt(p)
    BY <1>1 DEF Places, TaskAt
  <2>3. AllPending(n)' /\ InOrder' /\ Depths(d)' /\ Enclosed(s, d)' /\ NestedScopes(s)'
    <3>1. AllPending(n)'
      BY <2>1, <2>2, <1>1, SameTree DEF WalkOK, AllPending
    <3>2. InOrder'
      BY <2>1, <2>2 DEF WalkOK, InOrder
    <3>3. Depths(d)'
      BY <2>1, <2>2, <1>1 DEF WalkOK, Depths
    <3>4. \A a, m : Encloses(a, m)' <=> Encloses(a, m)
      BY <1>1, SameTree
    <3>5. Enclosed(s, d)'
      BY <2>1, <2>2, <3>4 DEF WalkOK, Enclosed
    <3>6. NestedScopes(s)'
      BY <2>1 DEF WalkOK, NestedScopes
    <3> QED BY <3>1, <3>2, <3>3, <3>5, <3>6
  <2>4. WalkOK(n, s, d)'
    BY <2>1, <2>3, <1>1, SameTree DEF WalkOK
  <2>5. (n = 1 \/ n > Body)'
    BY <1>1, <1>2, SameTree DEF WalkAt
  <2> QED BY <2>4, <2>5 DEF WalkAt
<1>3. ASSUME NEW n, NEW s, AnalysisAt(n, s) PROVE AnalysisAt(n, s)'
  <2>1. Tables(n, s)'
    BY <1>1, <1>3, SameTree2 DEF AnalysisAt, Tables
  <2> QED BY <2>1, <1>2, <1>3 DEF AnalysisAt
<1>4. ASSUME NEW n, NEW s, RenamingAt(n, s) PROVE RenamingAt(n, s)'
  <2>1. Scoped(n, s)'
    BY <1>1, <1>4, SameTree2 DEF RenamingAt, Scoped
  <2>2. NamesOK(n)'
    BY <1>1, <1>4, SameNames DEF RenamingAt
  <2> QED BY <2>1, <2>2, <1>2, <1>4 DEF RenamingAt
<1>5. Rejected => Rejected'
  BY <1>1, SameTree2 DEF Rejected
<1>6. Accepted => Accepted'
  BY <1>1, SameAccepted
<1>7. ASSUME NamesOK(Len(tree) + 1) PROVE NamesOK(Len(tree) + 1)'
  <2>1. PICK l : l = Len(tree) + 1
    OBVIOUS
  <2>2. NamesOK(l)'
    BY <2>1, <1>1, <1>7, SameNames
  <2>3. l = Len(tree') + 1
    BY <2>1, <1>1
  <2> QED BY <2>2, <2>3
<1>8. WellFormedTree(tree)' /\ (symbol_tables \in Seq(SUBSET Idents))'
  BY <1>1 DEF ScopesIInv
<1>9. (renamings \in Seq(Scopings)) => (renamings \in Seq(Scopings))'
  BY <1>1 DEF Scopings, NewNames
<1>10. CASE phase = "analysis"
  BY <1>1, <1>3, <1>8, <1>10 DEF ScopesIInv
<1>11. CASE phase = "rejected"
  BY <1>1, <1>5, <1>8, <1>11 DEF ScopesIInv
<1>12. CASE phase = "rename"
  BY <1>1, <1>4, <1>6, <1>8, <1>12 DEF ScopesIInv
<1>13. CASE phase = "renamed"
  BY <1>1, <1>6, <1>7, <1>8, <1>9, <1>13 DEF ScopesIInv
<1> QED BY <1>10, <1>11, <1>12, <1>13 DEF ScopesIInv

(***************************************************************************)
(* The analysis and the renaming (src/src/analysis.cpp:20-123 and          *)
(* src/src/ir_builder.cpp:30-154) keep, on every tree, the two stacks in   *)
(* step with the scopes the text has at the node that is visited.          *)
(***************************************************************************)
THEOREM ScopesInductive == ScopesSpec => []ScopesIInv
<1>1. ASSUME ScopesIInv, [ScopesNext]_scopevars PROVE ScopesIInv'
  BY <1>1, AnalyzeStep, RenameStep, ScopesStutter DEF ScopesNext, ScopesDone
<1> QED BY <1>1, ScopesStart, PTL DEF ScopesSpec

(***************************************************************************)
(* Types; and neither walk looks at the back of an empty stack: a scope is *)
(* open whenever a declaration is visited (src/src/analysis.cpp:62,        *)
(* src/src/ir_builder.cpp:88).                                             *)
(***************************************************************************)
THEOREM ScopesTypeOKTheorem == ScopesSpec => []ScopesTypeOK
<1>1. ASSUME ScopesIInv PROVE ScopesTypeOK
  <2>1. /\ WellFormedTree(tree) /\ tree \in Seq(Node)
        /\ phase \in {"analysis", "rejected", "rename", "renamed"}
        /\ symbol_tables \in Seq(SUBSET Idents)
    BY <1>1, TreeFacts DEF ScopesIInv
  <2>2. CASE phase = "analysis"
    <3>1. PICK next, scopes : AnalysisAt(next, scopes)
      BY <1>1, <2>2 DEF ScopesIInv
    <3>2. /\ todo \in Seq({leave} \cup DOMAIN tree) /\ error_code = 0
          /\ renamings = <<>> /\ var_counter \in [Idents -> Nat] /\ DOMAIN name = DOMAIN tree
      BY <1>1, <2>1, <2>2, <3>1, AtFacts DEF ScopesIInv, AnalysisAt, Tables, Tasks
    <3>3. Is({"decl"}) => symbol_tables # <<>>
      <4>1. SUFFICES ASSUME Is({"decl"}) PROVE Len(symbol_tables) # 0
        BY <2>1
      <4>2. todo # <<>> /\ Head(todo) # leave /\ Head(todo) = next /\ next \in Decls
        BY <2>1, <3>1, <4>1, AtFacts DEF AnalysisAt, Is, Decls
      <4>3. Len(scopes) # 0
        BY <2>1, <3>1, <4>2, WrongFacts DEF AnalysisAt
      <4> QED BY <3>1, <4>3 DEF AnalysisAt, Tables
    <3> QED BY <2>1, <2>2, <3>2, <3>3 DEF ScopesTypeOK, Analyzing
  <2>3. CASE phase = "rejected"
    <3>1. /\ todo = <<>> /\ error_code \in 0 .. 2
          /\ renamings = <<>> /\ var_counter \in [Idents -> Nat] /\ DOMAIN name = DOMAIN tree
      BY <1>1, <2>3 DEF ScopesIInv, Rejected
    <3> QED BY <2>1, <2>3, <3>1 DEF ScopesTypeOK, Is
  <2>4. ASSUME renamings \in Seq(Scopings) PROVE \A i \in DOMAIN renamings : DOMAIN renamings[i] \subseteq Idents
    <3>1. ASSUME NEW i \in DOMAIN renamings PROVE DOMAIN renamings[i] \subseteq Idents
      <4>1. PICK f \in Scopings : f = renamings[i]
        BY <2>4, <3>1
      <4>2. PICK names \in SUBSET Idents : f \in [names -> NewNames]
        BY DEF Scopings
      <4> QED BY <4>1, <4>2
    <3> QED BY <3>1
  <2>5. CASE phase = "rename"
    <3>1. PICK next, scopes : RenamingAt(next, scopes)
      BY <1>1, <2>5 DEF ScopesIInv
    <3>2. /\ todo \in Seq({leave} \cup DOMAIN tree) /\ error_code = 0
          /\ renamings \in Seq(Scopings)
          /\ var_counter \in [Idents -> Nat] /\ DOMAIN name = DOMAIN tree
      BY <1>1, <2>1, <2>5, <3>1, AtFacts
         DEF ScopesIInv, Accepted, RenamingAt, Scoped, NamesOK, Tasks
    <3>3. Is({"decl"}) => renamings # <<>>
      <4>1. SUFFICES ASSUME Is({"decl"}) PROVE Len(renamings) # 0
        BY <3>2
      <4>2. todo # <<>> /\ Head(todo) # leave /\ Head(todo) = next /\ next \in Decls
        BY <2>1, <3>1, <4>1, AtFacts DEF RenamingAt, Is, Decls
      <4>3. Len(scopes) # 0
        BY <2>1, <3>1, <4>2, WrongFacts DEF RenamingAt
      <4> QED BY <3>1, <4>3 DEF RenamingAt, Scoped
    <3> QED BY <2>1, <2>4, <2>5, <3>2, <3>3 DEF ScopesTypeOK, Analyzing
  <2>6. CASE phase = "renamed"
    <3>1. /\ todo = <<>> /\ error_code = 0 /\ renamings \in Seq(Scopings)
          /\ var_counter \in [Idents -> Nat] /\ DOMAIN name = DOMAIN tree
      BY <1>1, <2>6 DEF ScopesIInv, Accepted, NamesOK
    <3> QED BY <2>1, <2>4, <2>6, <3>1 DEF ScopesTypeOK, Is
  <2> QED BY <2>1, <2>2, <2>3, <2>5, <2>6
<1> QED BY <1>1, ScopesInductive, PTL

(***************************************************************************)
(* The analysis (src/src/analysis.cpp:20-135) accepts a program exactly if *)
(* nothing in it is undeclared or declared twice, and otherwise reports    *)
(* what comes first in the text, however deep the scopes are nested.       *)
(***************************************************************************)
THEOREM VerdictTheorem == ScopesSpec => []Verdict
<1>1. ASSUME ScopesIInv PROVE Verdict
  BY <1>1 DEF ScopesIInv, Verdict, Accepted, Rejected
<1> QED BY <1>1, ScopesInductive, PTL

(***************************************************************************)
(* After the renaming (src/src/ir_builder.cpp:30-154) a use has the same   *)
(* name as a declaration exactly if it refers to it: shadowing, and the    *)
(* counters that go on over the scopes, never make two variables one.      *)
(***************************************************************************)
THEOREM ResolvedTheorem == ScopesSpec => []Resolved
<1>1. ASSUME ScopesIInv PROVE Resolved
  <2> SUFFICES ASSUME phase = "renamed", NEW n \in Uses, NEW d \in Decls
               PROVE  name[n] = name[d] <=> Binds(d, n)
    BY DEF Resolved
  <2>1. WellFormedTree(tree) /\ Distinct(Len(tree) + 1) /\ Bound(Len(tree) + 1)
    BY <1>1 DEF ScopesIInv, NamesOK
  <2>2. DOMAIN tree = 1 .. Len(tree) /\ Len(tree) \in Nat
    BY <2>1, TreeFacts
  <2>3. \A x \in Decls \cup Uses : x \in Nat /\ x < Len(tree) + 1
    BY <2>2 DEF Decls, Uses
  <2>4. PICK e \in Decls : Binds(e, n) /\ name[n] = name[e]
    BY <2>1, <2>3 DEF Bound
  <2>5. ASSUME name[n] = name[d] PROVE Binds(d, n)
    <3>1. d = e
      BY <2>1, <2>3, <2>4, <2>5 DEF Distinct
    <3> QED BY <2>4, <3>1
  <2>6. ASSUME Binds(d, n) PROVE name[n] = name[d]
    <3>1. d <= e /\ e <= d
      BY <2>4, <2>6 DEF Binds
    <3>2. d = e
      BY <2>3, <3>1
    <3> QED BY <2>4, <3>2
  <2> QED BY <2>5, <2>6
<1> QED BY <1>1, ScopesInductive, PTL
=============================================================================
