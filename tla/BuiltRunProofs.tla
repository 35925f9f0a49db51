--------------------------- MODULE BuiltRunProofs ---------------------------
(***************************************************************************)
(* The built function does what the program says (SameAsSource).  The      *)
(* finished function and the source are run along the guide that building  *)
(* it has left: RunIInv says that the function is where the source is, and *)
(* holds what the source holds.                                            *)
(***************************************************************************)
EXTENDS BuiltGuideProofs

-----------------------------------------------------------------------------
(***************************************************************************)
(* The built function and the source, side by side                         *)
(***************************************************************************)

\* j is the next instruction of block b after i.
NextIn(s, i, b, j) ==
  /\ j \in DOMAIN s /\ s[j].bb = b /\ j > i
  /\ \A k \in i + 1 .. j - 1 : s[k].bb # b

LEMMA NextIs ==
  ASSUME instrs \in Seq(Built), NEW i \in Nat, NEW b,
         NEW k \in DOMAIN instrs, instrs[k].bb = b, k > i
  PROVE  NextIn(instrs, i, b, NextAfter(i, b))
<1> DEFINE S == {n \in DOMAIN instrs : instrs[n].bb = b /\ n > i}
<1>1. DOMAIN instrs = 1 .. Len(instrs) /\ Len(instrs) \in Nat
  OBVIOUS
<1>2. S \in SUBSET Nat /\ S # {}
  BY <1>1
<1>3. PICK m \in S : \A n \in S : m <= n
  <2> HIDE DEF S
  <2> QED BY <1>2, LeastExists
<1>4. \A n \in i + 1 .. m - 1 : instrs[n].bb # b
  <2> SUFFICES ASSUME NEW n \in i + 1 .. m - 1, instrs[n].bb = b PROVE FALSE
    OBVIOUS
  <2>1. m \in 1 .. Len(instrs)
    BY <1>1
  <2>2. n \in 1 .. Len(instrs) /\ n > i /\ n < m
    BY <1>1, <2>1
  <2>3. n \in S
    BY <1>1, <2>2
  <2> QED BY <1>2, <1>3, <2>2, <2>3
<1> QED BY <1>3, <1>4 DEF NextAfter, NextIn

LEMMA NextInBlock ==
  ASSUME Function(instrs, nblocks, {}), NEW i \in DOMAIN instrs, instrs[i].op \notin Terminators
  PROVE  NextIn(instrs, i, instrs[i].bb, NextAfter(i, instrs[i].bb))
<1>1. instrs \in Seq(Built) /\ instrs[i].bb \in 1 .. nblocks
  BY DEF Function, GoodCode, Inside
<1>2. PICK k \in DOMAIN instrs : EndedBy(instrs, instrs[i].bb, k)
  BY <1>1 DEF Function, Closed
<1>3. i \in Nat /\ k \in Nat
  BY <1>1
<1>4. k > i /\ instrs[k].bb = instrs[i].bb
  BY <1>2, <1>3 DEF EndedBy
<1> QED BY <1>1, <1>3, <1>4, NextIs

LEMMA FirstInBlock ==
  ASSUME Function(instrs, nblocks, {}), NEW b \in 1 .. nblocks
  PROVE  NextIn(instrs, 0, b, NextAfter(0, b))
<1>1. instrs \in Seq(Built)
  BY DEF Function, GoodCode
<1>2. PICK k \in DOMAIN instrs : EndedBy(instrs, b, k)
  BY DEF Function, Closed
<1>3. k \in Nat /\ k > 0
  BY <1>1
<1> QED BY <1>1, <1>2, <1>3, NextIs DEF EndedBy

\* What is known of the finished function.
Finished(g) ==
  /\ Prepared /\ Function(instrs, nblocks, {})
  /\ Guided(tree, name, instrs, {}, g) /\ Entered(tree, name, instrs, g)

LEMMA GuideAt ==
  ASSUME NEW g, Finished(g), NEW i \in DOMAIN instrs
  PROVE  /\ i \in Nat /\ i >= 1 /\ instrs[i] \in Built /\ instrs[i].bb \in 1 .. nblocks
         /\ instrs[i].bb = retBB => Returns(instrs, i)
         /\ instrs[i].bb # retBB =>
              /\ Acts(tree, name, g.of, g.start, instrs[i], g.pre[i], g.first[i], i)
              /\ Joined(tree, instrs, g, i)
              /\ AtEnd(tree, instrs, g, i - 1, instrs[i].bb, g.pre[i])
         /\ g.pre[i] \in Pos(tree) /\ g.first[i] \in Nat /\ g.of[i] \in Nat
         /\ Fits(instrs[i])
         /\ \A k \in DOMAIN instrs[i].args : OperandFits(instrs, i, instrs[i].args[k], 0)
         /\ \A k \in DOMAIN instrs[i].succ : instrs[i].succ[k] \in 1 .. nblocks
<1>1. instrs \in Seq(Built)
  BY DEF Finished, Function, GoodCode
<1>2. i \in Nat /\ i >= 1 /\ instrs[i] \in Built
  BY <1>1
<1>3. instrs[i].bb \in 1 .. nblocks
        /\ \A k \in DOMAIN instrs[i].succ : instrs[i].succ[k] \in 1 .. nblocks
  BY DEF Finished, Function, Inside
<1>4. InstrFits(instrs, i, 0)
  BY DEF Finished, Function, GoodCode
<1>5. g \in Guides(tree)
  BY DEF Finished, Guided
<1>6. g.pre[i] \in Pos(tree) /\ g.first[i] \in Nat /\ g.of[i] \in Nat
  BY <1>2, <1>5 DEF Guides
<1>7. IF instrs[i].bb = retBB THEN Returns(instrs, i)
      ELSE /\ Stands(tree, name, instrs, g, i)
           /\ AtEnd(tree, instrs, g, i - 1, instrs[i].bb, g.pre[i])
  BY DEF Finished, Guided
<1> QED BY <1>2, <1>3, <1>4, <1>6, <1>7 DEF Stands, InstrFits

\* Where a block starts.
LEMMA BlockStarts ==
  ASSUME NEW g, Finished(g), NEW b \in 1 .. nblocks, b # retBB,
         NEW p, Same(tree, p, g.start[b]), NEW i, NextIn(instrs, 0, b, i)
  PROVE  /\ i \in DOMAIN instrs /\ instrs[i].bb = b
         /\ Same(tree, p, g.pre[i]) /\ g.first[i] = i
         /\ ~(instrs[i].op = "br" /\ instrs[i].succ[1] = retBB)
         /\ IsCall(instrs[i]) => i = 1
<1>1. i \in DOMAIN instrs /\ instrs[i].bb = b /\ \A k \in 1 .. i - 1 : instrs[k].bb # b
  <2>1. 0 + 1 = 1
    OBVIOUS
  <2> QED BY <2>1 DEF NextIn
<1>2. /\ i \in Nat /\ i >= 1
      /\ Acts(tree, name, g.of, g.start, instrs[i], g.pre[i], g.first[i], i)
      /\ Joined(tree, instrs, g, i) /\ AtEnd(tree, instrs, g, i - 1, b, g.pre[i])
  BY <1>1, GuideAt
<1>3. Same(tree, g.start[b], g.pre[i])
  BY <1>1, <1>2 DEF AtEnd
<1>4. Same(tree, p, g.pre[i])
  BY <1>3, SameFacts DEF Finished, Prepared
<1>5. g.first[i] = i
  <2>1. ASSUME g.first[i] < i PROVE FALSE
    <3>1. instrs[i - 1].bb = b /\ g.first[i] \in 1 .. i
      BY <1>1, <1>2, <2>1 DEF Joined
    <3>2. i - 1 \in 1 .. i - 1
      BY <1>2, <2>1, <3>1
    <3> QED BY <1>1, <3>1, <3>2
  <2>2. g.first[i] \in 1 .. i
    BY <1>2 DEF Joined
  <2> QED BY <1>2, <2>1, <2>2
<1>6. ~(instrs[i].op = "br" /\ instrs[i].succ[1] = retBB)
  BY <1>2, <1>5 DEF Joined
<1>7. IsCall(instrs[i]) => i = 1
  BY <1>2 DEF Acts
<1> QED BY <1>1, <1>4, <1>5, <1>6, <1>7

\* Where a block goes on.
LEMMA BlockGoesOn ==
  ASSUME NEW g, Finished(g), NEW i \in DOMAIN instrs, instrs[i].bb # retBB,
         NEW j, NextIn(instrs, i, instrs[i].bb, j)
  PROVE  /\ j \in DOMAIN instrs /\ instrs[j].bb = instrs[i].bb
         /\ Same(tree, Post(instrs[i], g.pre[i]), g.pre[j])
         /\ ~IsCall(instrs[j])
         /\ g.first[j] \in 1 .. j
         /\ g.first[j] < j =>
              /\ j = i + 1 /\ g.first[j] = g.first[i] /\ g.pre[j] = g.pre[i]
              /\ instrs[i].op \in PureOps \/ IsResult(instrs[i])
         /\ instrs[j].op = "br" /\ instrs[j].succ[1] = retBB => IsResult(instrs[i])
<1>1. PICK b : b = instrs[i].bb
  OBVIOUS
<1>2. /\ j \in DOMAIN instrs /\ instrs[j].bb = b /\ j > i
      /\ \A k \in i + 1 .. j - 1 : instrs[k].bb # b
  BY <1>1 DEF NextIn
<1>3. i \in Nat /\ i >= 1
  BY GuideAt
<1>4. /\ j \in Nat
      /\ Acts(tree, name, g.of, g.start, instrs[j], g.pre[j], g.first[j], j)
      /\ Joined(tree, instrs, g, j) /\ AtEnd(tree, instrs, g, j - 1, b, g.pre[j])
  BY <1>1, <1>2, GuideAt
<1>5. Same(tree, Post(instrs[i], g.pre[i]), g.pre[j])
  <2>1. i \in 1 .. j - 1
    BY <1>2, <1>3, <1>4
  <2>2. PICK k \in 1 .. j - 1 :
          /\ instrs[k].bb = b /\ \A l \in k + 1 .. j - 1 : instrs[l].bb # b
          /\ Same(tree, Post(instrs[k], g.pre[k]), g.pre[j])
    BY <1>1, <1>4, <2>1 DEF AtEnd
  <2>3. ~(i + 1 <= k) /\ ~(k + 1 <= i)
    BY <1>1, <1>2, <1>3, <1>4, <2>1, <2>2
  <2>4. k = i
    BY <1>3, <1>4, <2>2, <2>3
  <2> QED BY <2>2, <2>4
<1>6. ~IsCall(instrs[j])
  BY <1>2, <1>3, <1>4 DEF Acts
<1>7. g.first[j] \in 1 .. j
  BY <1>4 DEF Joined
<1>8. ASSUME g.first[j] < j
      PROVE  /\ j = i + 1 /\ g.first[j] = g.first[i] /\ g.pre[j] = g.pre[i]
             /\ instrs[i].op \in PureOps \/ IsResult(instrs[i])
  <2>1. /\ instrs[j - 1].bb = b /\ g.first[j - 1] = g.first[j] /\ g.pre[j - 1] = g.pre[j]
        /\ instrs[j - 1].op \in PureOps \/ IsResult(instrs[j - 1])
    BY <1>2, <1>4, <1>8 DEF Joined, Proceeds
  <2>2. ~(i + 1 <= j - 1)
    <3>1. i + 1 <= j - 1 => j - 1 \in i + 1 .. j - 1
      BY <1>3, <1>4
    <3> QED BY <1>2, <2>1, <3>1
  <2>3. j - 1 = i /\ j = i + 1
    BY <1>2, <1>3, <1>4, <2>2
  <2> QED BY <2>1, <2>3
<1>9. ASSUME instrs[j].op = "br", instrs[j].succ[1] = retBB PROVE IsResult(instrs[i])
  <2>1. g.first[j] < j /\ IsResult(instrs[j - 1])
    BY <1>4, <1>9 DEF Joined
  <2>2. j - 1 = i
    BY <1>3, <1>4, <1>8, <2>1
  <2> QED BY <2>1, <2>2
<1> QED BY <1>1, <1>2, <1>5, <1>6, <1>7, <1>8, <1>9

\* What the block has computed is what the source's expressions are worth.
ValuesAgree(g) ==
  \A j \in g.first[ip] .. ip - 1 :
    instrs[j].op \in PureOps => g.of[j] \in Exprs /\ Eval[g.of[j]] \in {junk, val[j]}

\* The variables of the source are in the allocas, once the parameter has been stored.
VarsAgree ==
  \A d \in Decls :
    LET stored == ~(IsCall(instrs[ip]) /\ instrs[ip].sym = name[d])
    IN  vars[d] \in {junk, IF stored THEN mem[name[d]] ELSE param}

ResultAgrees == Result \in {junk, mem[ret_ref]}

\* The function is where the source is.
Abreast(g) ==
  /\ Same(tree, stmts, g.pre[ip])
  /\ g.first[ip] < ip => stmts = g.pre[ip]
  /\ ValuesAgree(g)
  /\ instrs[ip].op = "br" /\ instrs[ip].succ[1] = retBB => ResultAgrees

\* The program is at its end or at a return.
Returning ==
  /\ stmts = <<>> \/ tree[Now].kind = "ret"
  /\ ResultAgrees
  /\ instrs[ip].op = "ret" => val[ip - 1] = mem[ret_ref]

Running(g) ==
  /\ ip \in DOMAIN instrs /\ stmts \in Pos(tree)
  /\ DOMAIN val = DOMAIN instrs /\ DOMAIN mem = Allocas /\ DOMAIN vars = Decls
  /\ VarsAgree
  /\ IF instrs[ip].bb = retBB THEN Returning ELSE Abreast(g)

LEMMA OfExpr ==
  ASSUME NEW g, Finished(g), NEW i \in DOMAIN instrs, instrs[i].bb # retBB, instrs[i].op \in PureOps
  PROVE  g.of[i] \in Exprs /\ Computes(tree, name, g.of, instrs[i], g.first[i], i)
<1>1. Computes(tree, name, g.of, instrs[i], g.first[i], i)
  BY GuideAt DEF Acts
<1>2. g.of[i] \in DOMAIN tree /\ tree[g.of[i]].kind \in Expressions
  BY <1>1 DEF Computes, PureOps, Expressions
<1> QED BY <1>1, <1>2 DEF Exprs

LEMMA OperandIs ==
  ASSUME NEW g, Finished(g), ip \in DOMAIN instrs, instrs[ip].bb # retBB, ValuesAgree(g),
         NEW k \in DOMAIN instrs[ip].args, NEW m,
         Names(tree, g.of, instrs[ip].args[k], m, g.first[ip], ip)
  PROVE  Eval[m] \in {junk, Operand(k)}
<1>1. PICK v : v = instrs[ip].args[k]
  OBVIOUS
<1>2. Evaluates(tree, Eval)
  BY EvalFacts DEF Finished, EvaluatesIn
<1>3. CASE Fixed(tree, v, m)
  <2>1. v < 0 /\ Eval[m] \in {junk, WordOf(v)}
    BY <1>2, <1>3 DEF Fixed
  <2> QED BY <1>1, <2>1 DEF Operand
<1>4. CASE ~Fixed(tree, v, m)
  <2>1. v > 0 /\ g.first[ip] <= v /\ v < ip /\ g.of[v] = m
    BY <1>1, <1>4 DEF Names
  <2>2. ip \in Nat /\ g.first[ip] \in Nat /\ OperandFits(instrs, ip, v, 0)
    BY <1>1, GuideAt
  <2>3. v - 0 = v /\ v \in Nat
    <3>1. v - 0 \in 1 .. ip - 1
      BY <2>1, <2>2 DEF OperandFits
    <3>2. instrs \in Seq(Built)
      BY DEF Finished, Function, GoodCode
    <3>3. v \in Int
      <4>1. instrs[ip].args \in Seq(Int)
        BY GuideAt DEF Built
      <4> QED BY <1>1, <4>1
    <3> QED BY <3>1, <3>3
  <2>4. instrs[v].op \in PureOps
    BY <2>1, <2>2, <2>3 DEF OperandFits
  <2>5. v \in g.first[ip] .. ip - 1
    BY <2>1, <2>2, <2>3
  <2>6. Eval[m] \in {junk, val[v]}
    BY <2>1, <2>4, <2>5 DEF ValuesAgree
  <2>7. Operand(k) = val[v]
    BY <1>1, <2>1, <2>3 DEF Operand
  <2> QED BY <2>6, <2>7
<1> QED BY <1>3, <1>4

\* An instruction that reads no input computes the value of its expression.
LEMMA ComputedIs ==
  ASSUME NEW g, Finished(g), Running(g), instrs[ip].bb # retBB,
         At("load") \/ At("arith") \/ At("icmp")
  PROVE  Eval[g.of[ip]] \in {junk, Computed}
<1>0. ip \in DOMAIN instrs /\ instrs[ip].op \in {"load", "arith", "icmp"} /\ ValuesAgree(g)
        /\ VarsAgree
      /\ (At("load") <=> instrs[ip].op = "load") /\ (At("arith") <=> instrs[ip].op = "arith")
  BY DEF Running, Abreast, At
<1>1. PICK m \in Exprs : m = g.of[ip]
  BY <1>0, OfExpr DEF PureOps
<1>2. Computes(tree, name, g.of, instrs[ip], g.first[ip], ip)
  BY <1>0, OfExpr DEF PureOps
<1>3. EvaluatesIn(tree, name, Eval, vars, input) /\ m \in DOMAIN tree /\ Fits(instrs[ip])
      /\ instrs[ip] \in Built
  BY <1>0, EvalFacts, GuideAt DEF Finished, Exprs
<1>4. CASE instrs[ip].op = "load"
  <2>1. tree[m].kind = "var" /\ instrs[ip].sym = name[m] /\ ~IsCall(instrs[ip])
    BY <1>1, <1>2, <1>4 DEF Computes, IsCall
  <2>2. m \in Uses
    BY <1>3, <2>1 DEF Uses
  <2>3. PICK d \in Decls : name[d] = name[m]
    BY <2>2, DeclOfFacts DEF Finished
  <2>4. Eval[m] = vars[d]
    BY <1>3, <2>1, <2>3 DEF EvaluatesIn, Decls
  <2>5. vars[d] \in {junk, mem[name[m]]}
    BY <1>0, <2>1, <2>3 DEF VarsAgree
  <2>6. Computed = mem[name[m]]
    BY <1>0, <1>4, <2>1 DEF Computed
  <2> QED BY <1>1, <2>4, <2>5, <2>6
<1>5. CASE instrs[ip].op \in {"arith", "icmp"}
  <2>0. /\ DOMAIN instrs[ip].args = {1, 2}
        /\ ~At("load") /\ (At("arith") <=> instrs[ip].op = "arith")
    <3>1. instrs[ip].args \in Seq(Int) /\ Len(instrs[ip].args) = 2
      BY <1>3, <1>5 DEF Fits, Built
    <3> QED BY <1>0, <1>5, <3>1
  <2>1. PICK a, b : a = Operand(1) /\ b = Operand(2)
    OBVIOUS
  <2>2. PICK sym : sym = instrs[ip].sym[1]
    OBVIOUS
  <2>3. Computed = IF a = junk \/ b = junk THEN junk
                   ELSE IF instrs[ip].op = "arith" THEN Arith(sym, a, b)
                   ELSE IF Holds(sym, a, b) THEN 1 ELSE 0
    BY <2>0, <2>1, <2>2 DEF Computed
  <2>4. PICK x, y : x = Eval[tree[m].kids[1]] /\ y = Eval[tree[m].kids[2]]
    OBVIOUS
  <2>5. CASE tree[m].kind = "uexpr"
    <3>1. /\ instrs[ip].op = "arith" /\ instrs[ip].sym = <<"sub">>
          /\ instrs[ip].args[1] = Constant(0)
          /\ Names(tree, g.of, instrs[ip].args[2], tree[m].kids[1], g.first[ip], ip)
      BY <1>1, <1>2, <1>5, <2>5 DEF Computes
    <3>2. sym = "sub"
      BY <2>2, <3>1
    <3>3. a = 0 /\ 0 # junk
      <4>1. 0 \in Word /\ IsWord(Constant(0)) /\ WordOf(Constant(0)) = 0
        BY WordFacts
      <4>2. a = 0
        BY <2>1, <3>1, <4>1 DEF Operand, IsWord
      <4> QED BY <4>1, <4>2, JunkAssumption
    <3>4. x \in {junk, b}
      BY <1>0, <2>0, <2>1, <2>4, <3>1, OperandIs
    <3>5. Eval[m] = IF x = junk THEN junk ELSE Arith("sub", 0, x)
      BY <1>3, <2>4, <2>5 DEF EvaluatesIn, Evaluates
    <3> QED BY <1>1, <2>3, <3>1, <3>2, <3>3, <3>4, <3>5
  <2>6. CASE tree[m].kind # "uexpr"
    <3>1. /\ instrs[ip].sym = <<tree[m].op>>
          /\ Names(tree, g.of, instrs[ip].args[1], tree[m].kids[1], g.first[ip], ip)
          /\ Names(tree, g.of, instrs[ip].args[2], tree[m].kids[2], g.first[ip], ip)
          /\ tree[m].kind = IF instrs[ip].op = "arith" THEN "bexpr" ELSE "rexpr"
      BY <1>1, <1>2, <1>5, <2>6 DEF Computes
    <3>2. sym = tree[m].op
      BY <2>2, <3>1
    <3>3. x \in {junk, a} /\ y \in {junk, b}
      BY <1>0, <2>0, <2>1, <2>4, <3>1, OperandIs
    <3>4. /\ instrs[ip].op = "arith" =>
               Eval[m] = IF x = junk \/ y = junk THEN junk ELSE Arith(sym, x, y)
          /\ instrs[ip].op = "icmp" =>
               Eval[m] = IF x = junk \/ y = junk THEN junk ELSE IF Holds(sym, x, y) THEN 1 ELSE 0
      BY <1>3, <2>4, <3>1, <3>2 DEF EvaluatesIn, Evaluates
    <3> QED BY <1>1, <1>5, <2>3, <3>3, <3>4
  <2> QED BY <2>5, <2>6
<1> QED BY <1>0, <1>4, <1>5

\* Where the function is not at a branch or at the store of the parameter, the source is
\* at the same position.
LEMMA InStep ==
  ASSUME NEW g, Finished(g), Running(g), instrs[ip].bb # retBB, NEW op, At(op), op # "br",
         ~IsCall(instrs[ip])
  PROVE  stmts = g.pre[ip] /\ instrs[ip].op = op
<1>1. /\ instrs[ip].op = op /\ ~Silent(tree, stmts) /\ ip \in DOMAIN instrs
      /\ Same(tree, stmts, g.pre[ip])
  BY DEF At, IsNow, Now, Silent, Running, Abreast
<1>2. Acts(tree, name, g.of, g.start, instrs[ip], g.pre[ip], g.first[ip], ip)
  BY <1>1, GuideAt
<1>3. ~Silent(tree, g.pre[ip])
  <2>1. CASE op # "store"
    BY <1>1, <1>2, <2>1 DEF Acts
  <2>2. CASE op = "store"
    BY <1>1, <1>2, <2>2 DEF Acts, Silent, IsCall, IsResult
  <2> QED BY <2>1, <2>2
<1> QED BY <1>1, <1>3, SameFacts DEF Finished, Prepared

\* A step that leaves the finished function alone.
SameCode == UNCHANGED <<tree, name, instrs, nblocks, var_counter>>

LEMMA FinishedStays ==
  ASSUME NEW g, Finished(g), SameCode
  PROVE  /\ Finished(g)' /\ UNCHANGED <<tree, name, instrs>>
         /\ Decls' = Decls /\ Exprs' = Exprs /\ Allocas' = Allocas /\ Pos(tree)' = Pos(tree)
         /\ Params' = Params
<1>1. UNCHANGED <<tree, name, instrs, nblocks, var_counter>>
  BY DEF SameCode
<1>2. Prepared' /\ Function(instrs, nblocks, {})'
  BY <1>1, SameBuilt DEF Finished
<1>3. Guided(tree, name, instrs, {}, g)' /\ Entered(tree, name, instrs, g)'
  BY <1>1 DEF Finished
<1>4. Decls' = Decls /\ Exprs' = Exprs
  BY <1>1 DEF Decls, Exprs
<1>5. Params' = Params
  BY <1>1 DEF Params, Body, Kids
<1>6. Allocas' = Allocas
  BY <1>1, <1>4 DEF Allocas
<1>7. Pos(tree)' = Pos(tree)
  BY <1>1
<1> QED BY <1>1, <1>2, <1>3, <1>4, <1>5, <1>6, <1>7 DEF Finished

\* The values of the source change with its variables and its input.
LEMMA ValuesStay ==
  ASSUME NEW g, Finished(g), SameCode, UNCHANGED <<vars, input>>
  PROVE  /\ \A n \in Exprs : Eval'[n] = Eval[n]
         /\ stmts' = stmts /\ stmts \in Pos(tree) /\ (stmts = <<>> \/ tree[Now].kind = "ret") =>
              Result' = Result
<1>1. Finished(g)' /\ UNCHANGED <<tree, name, vars, input>>
  BY FinishedStays
<1>2. \A n \in Exprs : Eval'[n] = Eval[n]
  BY <1>1, EvalStays DEF Finished
<1>3. ASSUME stmts' = stmts, stmts \in Pos(tree), stmts = <<>> \/ tree[Now].kind = "ret"
      PROVE  Result' = Result
  <2>1. CASE stmts = <<>>
    BY <1>3, <2>1 DEF Result
  <2>2. CASE stmts # <<>>
    <3>1. Now \in StmtNodes /\ tree[Now].kind = "ret"
      BY <1>3, <2>2, PosFacts DEF Finished, Prepared, Now
    <3>2. Kids(Now)[1] \in Exprs
      BY <3>1, StmtFacts DEF Finished, Prepared, TermNodes
    <3>3. PICK m \in Exprs : m = Of(1)
      BY <3>2 DEF Of
    <3>4. Of(1)' = m
      BY <1>1, <1>3, <3>3 DEF Of, Now, Kids
    <3>5. Result = Eval[m] /\ Result' = Eval'[m]
      BY <1>3, <2>2, <3>3, <3>4 DEF Result
    <3> QED BY <1>2, <3>5
  <2> QED BY <2>1, <2>2
<1> QED BY <1>2, <1>3

\* The next instruction of the block.
LEMMA RunOn ==
  ASSUME NEW g, Finished(g), Running(g), SameCode, Continue,
         instrs[ip].bb # retBB, instrs[ip].op \notin Terminators,
         stmts' \in Pos(tree), Same(tree, stmts', Post(instrs[ip], g.pre[ip])),
         DOMAIN val' = DOMAIN val, DOMAIN mem' = DOMAIN mem, DOMAIN vars' = DOMAIN vars,
         \A d \in Decls : vars'[d] \in {junk, mem'[name[d]]},
         IsResult(instrs[ip]) => ResultAgrees',
         instrs[ip].op \in PureOps \/ IsResult(instrs[ip]) =>
           /\ stmts' = g.pre[ip]
           /\ \A j \in g.first[ip] .. ip :
                instrs[j].op \in PureOps => g.of[j] \in Exprs /\ Eval'[g.of[j]] \in {junk, val'[j]}
  PROVE  Running(g)'
<1>0. ip \in DOMAIN instrs /\ ip \in Nat
  BY GuideAt DEF Running
<1>1. PICK j : j = ip'
  OBVIOUS
<1>2. NextIn(instrs, ip, instrs[ip].bb, j)
  BY <1>0, <1>1, NextInBlock DEF Finished, Continue
<1>3. /\ j \in DOMAIN instrs /\ instrs[j].bb = instrs[ip].bb
      /\ Same(tree, Post(instrs[ip], g.pre[ip]), g.pre[j])
      /\ ~IsCall(instrs[j])
      /\ g.first[j] \in 1 .. j
      /\ g.first[j] < j =>
           /\ j = ip + 1 /\ g.first[j] = g.first[ip] /\ g.pre[j] = g.pre[ip]
           /\ instrs[ip].op \in PureOps \/ IsResult(instrs[ip])
      /\ instrs[j].op = "br" /\ instrs[j].succ[1] = retBB => IsResult(instrs[ip])
  BY <1>0, <1>2, BlockGoesOn
<1>4. /\ UNCHANGED <<tree, name, instrs>> /\ Decls' = Decls /\ Exprs' = Exprs /\ Allocas' = Allocas
      /\ Pos(tree)' = Pos(tree)
  BY FinishedStays
<1>5. Same(tree, stmts', g.pre[j])
  BY <1>3, SameFacts DEF Finished, Prepared
<1>6. VarsAgree'
  BY <1>1, <1>3, <1>4 DEF VarsAgree
<1>7. ValuesAgree(g)'
  <2> SUFFICES ASSUME NEW k \in g.first[j] .. j - 1, instrs[k].op \in PureOps
               PROVE  g.of[k] \in Exprs /\ Eval'[g.of[k]] \in {junk, val'[k]}
    BY <1>1, <1>4 DEF ValuesAgree
  <2>1. j \in Nat /\ g.first[j] \in Nat
    BY <1>3, GuideAt
  <2>2. g.first[j] < j
    BY <2>1
  <2>3. k \in g.first[ip] .. ip
    BY <1>0, <1>3, <2>1, <2>2
  <2> QED BY <1>3, <2>2, <2>3
<1>8. Abreast(g)'
  <2>1. Same(tree, stmts, g.pre[ip])'
    BY <1>1, <1>4, <1>5
  <2>2. (g.first[ip] < ip => stmts = g.pre[ip])'
    BY <1>1, <1>3
  <2>3. (instrs[ip].op = "br" /\ instrs[ip].succ[1] = retBB => ResultAgrees)'
    BY <1>1, <1>3, <1>4
  <2> QED BY <1>7, <2>1, <2>2, <2>3 DEF Abreast
<1> QED BY <1>1, <1>3, <1>4, <1>6, <1>8 DEF Running

\* The first instruction of another block.
LEMMA RunTo ==
  ASSUME NEW g, Finished(g), SameCode, NEW b \in 1 .. nblocks, b # retBB,
         ip' = NextAfter(0, b), stmts' \in Pos(tree), Same(tree, stmts', g.start[b]),
         DOMAIN val' = DOMAIN instrs, DOMAIN mem' = Allocas, DOMAIN vars' = Decls,
         VarsAgree'
  PROVE  Running(g)'
<1>1. PICK j : j = ip'
  OBVIOUS
<1>2. NextIn(instrs, 0, b, j)
  BY <1>1, FirstInBlock DEF Finished
<1>3. /\ j \in DOMAIN instrs /\ instrs[j].bb = b
      /\ Same(tree, stmts', g.pre[j]) /\ g.first[j] = j
      /\ ~(instrs[j].op = "br" /\ instrs[j].succ[1] = retBB)
  BY <1>2, BlockStarts
<1>4. /\ UNCHANGED <<tree, name, instrs>> /\ Decls' = Decls /\ Exprs' = Exprs /\ Allocas' = Allocas
      /\ Pos(tree)' = Pos(tree)
  BY FinishedStays
<1>5. j \in Nat
  BY <1>3, GuideAt
<1>6. ValuesAgree(g)'
  <2>1. \A k : k \notin j .. j - 1
    BY <1>5
  <2> QED BY <1>1, <1>3, <2>1 DEF ValuesAgree
<1>7. Abreast(g)'
  BY <1>1, <1>3, <1>4, <1>5, <1>6 DEF Abreast
<1> QED BY <1>1, <1>3, <1>4, <1>7 DEF Running

LEMMA RunSilentStep ==
  ASSUME NEW g, Finished(g), Running(g), SameCode, RunSilent
  PROVE  Running(g)'
<1>0. /\ ip \in DOMAIN instrs /\ stmts \in Pos(tree) /\ DOMAIN vars = Decls
      /\ UNCHANGED <<ip, param, val, mem, input>>
  BY DEF Running, RunSilent
<1>1. stmts # <<>> /\ tree[Now].kind \in {"block", "decl"} /\ Silent(tree, stmts)
  BY DEF RunSilent, IsNow, Silent, Now
<1>2. stmts' = Onto(tree, stmts)
  BY <1>1 DEF RunSilent, IsNow, Onto, Now, Kids
<1>3. stmts' \in Pos(tree) /\ Same(tree, stmts, stmts')
  BY <1>0, <1>1, <1>2, PosFacts, SameFacts DEF Finished, Prepared
<1>4. /\ UNCHANGED <<tree, name, instrs>> /\ Decls' = Decls /\ Allocas' = Allocas
      /\ Pos(tree)' = Pos(tree)
  BY FinishedStays
<1>5. instrs[ip].bb # retBB /\ Abreast(g) /\ VarsAgree
  BY <1>1 DEF Running, Returning
<1>6. Joined(tree, instrs, g, ip) /\ ip \in Nat /\ g.pre[ip] \in Pos(tree)
  BY <1>0, <1>5, GuideAt
<1>7. g.first[ip] = ip
  <2>1. g.first[ip] \in 1 .. ip
    BY <1>6 DEF Joined
  <2>2. ASSUME g.first[ip] < ip PROVE FALSE
    <3>1. ~Silent(tree, g.pre[ip]) /\ stmts = g.pre[ip]
      BY <1>5, <1>6, <2>2 DEF Joined, Proceeds, Abreast
    <3> QED BY <1>1, <3>1
  <2> QED BY <1>6, <2>1, <2>2
<1>8. Same(tree, stmts', g.pre[ip])
  BY <1>3, <1>5, SameFacts DEF Abreast, Finished, Prepared
<1>9. Abreast(g)'
  <2>1. \A k : k \notin ip .. ip - 1
    BY <1>6
  <2>2. ValuesAgree(g)'
    BY <1>0, <1>4, <1>7, <2>1 DEF ValuesAgree
  <2>3. ~(instrs[ip].op = "br" /\ instrs[ip].succ[1] = retBB)
    BY <1>6, <1>7 DEF Joined
  <2> QED BY <1>0, <1>4, <1>6, <1>7, <1>8, <2>2, <2>3 DEF Abreast
<1>10. vars' = IF tree[Now].kind = "decl" THEN [vars EXCEPT ![Now] = junk] ELSE vars
  BY <1>1 DEF RunSilent, IsNow
<1>11. DOMAIN vars' = Decls /\ \A d \in Decls : vars'[d] \in {junk, vars[d]}
  BY <1>0, <1>10
<1>12. VarsAgree'
  BY <1>0, <1>4, <1>5, <1>11 DEF VarsAgree
<1> QED BY <1>0, <1>3, <1>4, <1>5, <1>9, <1>11, <1>12 DEF Running

\* An instruction that computes a value of the source.
LEMMA RunValue ==
  ASSUME NEW g, Finished(g), Running(g), SameCode, Continue, instrs[ip].bb # retBB,
         instrs[ip].op \in PureOps, stmts = g.pre[ip],
         UNCHANGED <<param, mem, stmts, vars>>,
         NEW c, val' = [val EXCEPT ![ip] = c], Eval'[g.of[ip]] \in {junk, c},
         instrs[ip].op = "read" => g.first[ip] = ip,
         instrs[ip].op # "read" => input' = input
  PROVE  Running(g)'
<1>0. /\ ip \in DOMAIN instrs /\ stmts \in Pos(tree) /\ DOMAIN val = DOMAIN instrs
      /\ VarsAgree /\ Abreast(g) /\ ip \in Nat
  BY GuideAt DEF Running
<1>1. /\ instrs[ip].op \notin Terminators /\ ~IsCall(instrs[ip]) /\ ~IsResult(instrs[ip])
      /\ Post(instrs[ip], g.pre[ip]) = g.pre[ip]
  BY DEF PureOps, Terminators, IsCall, IsResult, Post
<1>2. Same(tree, stmts', Post(instrs[ip], g.pre[ip]))
  BY <1>0, <1>1, SameSelf DEF Finished
<1>3. \A d \in Decls : vars'[d] \in {junk, mem'[name[d]]}
  BY <1>0, <1>1 DEF VarsAgree
<1>4. ASSUME NEW j \in g.first[ip] .. ip, instrs[j].op \in PureOps
      PROVE  g.of[j] \in Exprs /\ Eval'[g.of[j]] \in {junk, val'[j]}
  <2>1. CASE j = ip
    BY <1>0, <2>1, OfExpr
  <2>2. CASE j # ip
    <3>1. g.first[ip] \in Nat /\ g.first[ip] # ip /\ j \in g.first[ip] .. ip - 1
            /\ g.first[ip] \in 1 .. ip
      <4>1. g.first[ip] \in Nat /\ Joined(tree, instrs, g, ip)
        BY <1>0, GuideAt
      <4>2. g.first[ip] \in 1 .. ip
        BY <4>1 DEF Joined
      <4> QED BY <1>0, <2>2, <4>1, <4>2
    <3>2. j \in DOMAIN instrs
      <4>1. instrs \in Seq(Built)
        BY DEF Finished, Function, GoodCode
      <4> QED BY <1>0, <3>1, <4>1
    <3>3. g.of[j] \in Exprs /\ Eval[g.of[j]] \in {junk, val[j]} /\ val'[j] = val[j]
      BY <1>0, <1>4, <2>2, <3>1, <3>2 DEF Abreast, ValuesAgree
    <3>4. UNCHANGED <<vars, input>>
      BY <3>1
    <3> QED BY <3>3, <3>4, ValuesStay
  <2> QED BY <2>1, <2>2
<1>5. DOMAIN val' = DOMAIN val
  OBVIOUS
<1> QED BY <1>0, <1>1, <1>2, <1>3, <1>4, <1>5, RunOn

LEMMA SameCodeIs == UNCHANGED buildvars => SameCode
BY DEF buildvars, scopevars, walkvars, irvars, SameCode

\* The load of the result, in the block that returns.
LEMMA RunResultLoad ==
  ASSUME NEW g, Finished(g), Running(g), RunPure, instrs[ip].bb = retBB
  PROVE  Running(g)'
<1>0. /\ ip \in DOMAIN instrs /\ ip \in Nat /\ stmts \in Pos(tree) /\ DOMAIN val = DOMAIN instrs
      /\ SameCode /\ UNCHANGED <<param, mem, input, stmts, vars>>
      /\ VarsAgree /\ Returning /\ Returns(instrs, ip)
      /\ instrs[ip].op \in {"load", "arith", "icmp"}
  BY GuideAt, SameCodeIs DEF Running, RunPure, At
<1>1. instrs[ip].op = "load" /\ instrs[ip].sym = ret_ref /\ At("load")
  BY <1>0 DEF Returns, RunPure, At
<1>2. val' = [val EXCEPT ![ip] = mem[ret_ref]]
  BY <1>1 DEF RunPure, Computed
<1>3. PICK j : j = ip'
  OBVIOUS
<1>4. /\ j \in DOMAIN instrs /\ instrs[j].bb = retBB /\ j > ip /\ j \in Nat
      /\ \A k \in ip + 1 .. j - 1 : instrs[k].bb # retBB
      /\ Returns(instrs, j)
  <2>1. NextIn(instrs, ip, retBB, j)
    BY <1>0, <1>1, <1>3, NextInBlock DEF Finished, RunPure, Continue, Terminators
  <2> QED BY <2>1, GuideAt DEF NextIn
<1>5. ASSUME instrs[j].op = "ret" PROVE j - 1 = ip
  <2>1. j > 1 /\ instrs[j - 1].bb = retBB
    BY <1>4, <1>5 DEF Returns
  <2>2. ip + 1 <= j - 1 => j - 1 \in ip + 1 .. j - 1
    BY <1>0, <1>4
  <2> QED BY <1>0, <1>4, <2>1, <2>2
<1>6. /\ UNCHANGED <<tree, name, instrs>> /\ Decls' = Decls /\ Allocas' = Allocas
      /\ Pos(tree)' = Pos(tree)
  BY <1>0, FinishedStays
<1>7. Result' = Result
  BY <1>0, ValuesStay DEF Returning
<1>8. ~IsCall(instrs[ip]) /\ ~IsCall(instrs[j])
  BY <1>1, <1>4 DEF IsCall, Returns
<1>9. VarsAgree'
  BY <1>0, <1>3, <1>6, <1>8 DEF VarsAgree
<1>10. Returning'
  <2>1. ResultAgrees'
    BY <1>0, <1>7 DEF Returning, ResultAgrees
  <2>2. (stmts = <<>> \/ tree[Now].kind = "ret")'
    BY <1>0, <1>6 DEF Returning, Now
  <2>3. (instrs[ip].op = "ret" => val[ip - 1] = mem[ret_ref])'
    <3>1. instrs[j].op = "ret" => val'[j - 1] = mem[ret_ref]
      BY <1>0, <1>2, <1>5
    <3> QED BY <1>0, <1>3, <1>6, <3>1
  <2> QED BY <2>1, <2>2, <2>3 DEF Returning
<1>11. DOMAIN val' = DOMAIN instrs
  BY <1>0, <1>2
<1> QED BY <1>0, <1>3, <1>4, <1>6, <1>9, <1>10, <1>11 DEF Running

LEMMA RunPureStep ==
  ASSUME NEW g, Finished(g), Running(g), RunPure
  PROVE  Running(g)'
<1>1. CASE instrs[ip].bb = retBB
  BY <1>1, RunResultLoad
<1>2. CASE instrs[ip].bb # retBB
  <2>0. /\ SameCode /\ UNCHANGED <<param, mem, input, stmts, vars>> /\ Continue
        /\ val' = [val EXCEPT ![ip] = Computed] /\ ip \in DOMAIN instrs
    BY SameCodeIs DEF RunPure, Running
  <2>1. PICK op \in {"load", "arith", "icmp"} : At(op)
    BY DEF RunPure
  <2>2. instrs[ip].op = op /\ op \in PureOps /\ op # "read" /\ op # "br" /\ ~IsCall(instrs[ip])
    BY <2>1 DEF At, PureOps, IsCall
  <2>3. stmts = g.pre[ip]
    BY <1>2, <2>1, <2>2, InStep
  <2>4. Eval[g.of[ip]] \in {junk, Computed}
    BY <1>2, <2>1, ComputedIs
  <2>5. g.of[ip] \in Exprs
    BY <1>2, <2>0, <2>2, OfExpr
  <2>6. Eval'[g.of[ip]] \in {junk, Computed}
    BY <2>0, <2>4, <2>5, ValuesStay
  <2>7. PICK c : c = Computed
    OBVIOUS
  <2> QED BY <1>2, <2>0, <2>2, <2>3, <2>6, <2>7, RunValue
<1> QED BY <1>1, <1>2

LEMMA NotReturning ==
  ASSUME NEW g, Finished(g), ip \in DOMAIN instrs, instrs[ip].op \notin {"load", "ret"}
  PROVE  instrs[ip].bb # retBB
BY GuideAt DEF Returns

LEMMA RunReadStep ==
  ASSUME NEW g, Finished(g), Running(g), RunRead
  PROVE  Running(g)'
<1>0. /\ SameCode /\ UNCHANGED <<param, mem, stmts, vars>> /\ Continue
      /\ val' = [val EXCEPT ![ip] = input'] /\ ip \in DOMAIN instrs /\ instrs[ip].op = "read"
      /\ At("read")
  BY SameCodeIs DEF RunRead, Running, At
<1>1. instrs[ip].bb # retBB
  BY <1>0, NotReturning
<1>2. ~IsCall(instrs[ip]) /\ instrs[ip].op \in PureOps
  BY <1>0 DEF IsCall, PureOps
<1>3. stmts = g.pre[ip]
  BY <1>0, <1>1, <1>2, InStep
<1>4. g.first[ip] = ip /\ tree[g.of[ip]].kind = "read" /\ g.of[ip] \in DOMAIN tree
  <2>1. Acts(tree, name, g.of, g.start, instrs[ip], g.pre[ip], g.first[ip], ip)
    BY <1>0, <1>1, GuideAt
  <2> QED BY <1>0, <1>2, <2>1 DEF Acts, Computes
<1>5. Eval'[g.of[ip]] = input'
  <2>1. (Prepared => EvaluatesIn(tree, name, Eval, vars, input))'
    BY EvalFacts, PTL
  <2>2. Prepared' /\ tree' = tree
    BY <1>0, FinishedStays DEF Finished
  <2>3. EvaluatesIn(tree', name', Eval', vars', input')
    BY <2>1, <2>2
  <2> QED BY <1>4, <2>2, <2>3 DEF EvaluatesIn
<1>6. PICK c : c = input'
  OBVIOUS
<1> QED BY <1>0, <1>1, <1>2, <1>3, <1>4, <1>5, <1>6, RunValue

LEMMA AtStore ==
  ASSUME NEW g, Finished(g), Running(g), At("store")
  PROVE  /\ ip \in DOMAIN instrs /\ ip \in Nat /\ instrs[ip].op = "store" /\ instrs[ip].bb # retBB
         /\ instrs[ip].op \notin Terminators /\ instrs[ip].op \notin PureOps
         /\ 1 \in DOMAIN instrs[ip].args /\ instrs[ip].sym \in Allocas
         /\ Acts(tree, name, g.of, g.start, instrs[ip], g.pre[ip], g.first[ip], ip)
         /\ Abreast(g) /\ VarsAgree /\ ~(IsCall(instrs[ip]) /\ IsResult(instrs[ip]))
<1>0. ip \in DOMAIN instrs /\ instrs[ip].op = "store" /\ instrs[ip].bb # retBB
  BY NotReturning DEF Running, At
<1>1. /\ ip \in Nat /\ Fits(instrs[ip]) /\ instrs[ip] \in Built
      /\ Acts(tree, name, g.of, g.start, instrs[ip], g.pre[ip], g.first[ip], ip)
  BY <1>0, GuideAt
<1>2. 1 \in DOMAIN instrs[ip].args /\ instrs[ip].sym \in Allocas
  <2>1. instrs[ip].args \in Seq(Int) /\ Len(instrs[ip].args) = 1 /\ instrs[ip].sym \in Allocas
    BY <1>0, <1>1 DEF Fits, Built
  <2> QED BY <2>1
<1>3. ~(IsCall(instrs[ip]) /\ IsResult(instrs[ip]))
  <2>1. Constant(0) # 0
    BY WordFacts DEF IsWord
  <2>2. ASSUME IsResult(instrs[ip])
        PROVE  \/ instrs[ip].args[1] = Constant(0)
               \/ \E m : Names(tree, g.of, instrs[ip].args[1], m, g.first[ip], ip)
    BY <1>1, <2>2 DEF Acts
  <2>3. \A m : ~Names(tree, g.of, 0, m, g.first[ip], ip)
    BY DEF Names, Fixed
  <2> QED BY <2>1, <2>2, <2>3 DEF IsCall
<1> QED BY <1>0, <1>1, <1>2, <1>3 DEF Running, PureOps, Terminators

\* The values of the block stay.
LEMMA BlockValues ==
  ASSUME NEW g, Finished(g), Running(g), At("store"), SameCode, UNCHANGED <<val, vars, input>>
  PROVE  \A j \in g.first[ip] .. ip :
           instrs[j].op \in PureOps => g.of[j] \in Exprs /\ Eval'[g.of[j]] \in {junk, val'[j]}
<1> SUFFICES ASSUME NEW j \in g.first[ip] .. ip, instrs[j].op \in PureOps
             PROVE  g.of[j] \in Exprs /\ Eval'[g.of[j]] \in {junk, val'[j]}
  OBVIOUS
<1>1. ip \in Nat /\ g.first[ip] \in Nat /\ instrs[ip].op \notin PureOps /\ ValuesAgree(g)
  BY AtStore, GuideAt DEF Abreast
<1>2. j \in g.first[ip] .. ip - 1
  BY <1>1
<1>3. g.of[j] \in Exprs /\ Eval[g.of[j]] \in {junk, val[j]}
  BY <1>1, <1>2 DEF ValuesAgree
<1> QED BY <1>3, ValuesStay

LEMMA RunCallStep ==
  ASSUME NEW g, Finished(g), Running(g), RunCallStore, IsCall(instrs[ip])
  PROVE  Running(g)'
<1>0. /\ SameCode /\ UNCHANGED <<param, val, input, stmts, vars>> /\ Continue /\ Stored
           /\ At("store")
  BY SameCodeIs DEF RunCallStore
<1>1. /\ ip \in DOMAIN instrs /\ instrs[ip].op = "store" /\ instrs[ip].bb # retBB
      /\ instrs[ip].op \notin Terminators /\ instrs[ip].op \notin PureOps
      /\ instrs[ip].sym \in Allocas /\ ~IsResult(instrs[ip])
      /\ Abreast(g) /\ VarsAgree
  BY <1>0, AtStore
<1>2. Operand(1) = param
  BY DEF IsCall, Operand
<1>3. DOMAIN mem = Allocas /\ DOMAIN vars = Decls /\ stmts \in Pos(tree)
  BY DEF Running
<1>4. /\ DOMAIN mem' = DOMAIN mem /\ mem'[instrs[ip].sym] = param
      /\ \A x \in Allocas : x # instrs[ip].sym => mem'[x] = mem[x]
  BY <1>0, <1>1, <1>2, <1>3 DEF Stored
<1>5. ASSUME NEW d \in Decls PROVE vars'[d] \in {junk, mem'[name[d]]}
  <2>1. name[d] \in Allocas
    BY DEF Allocas
  <2>2. CASE instrs[ip].sym = name[d]
    BY <1>0, <1>1, <1>4, <2>2 DEF VarsAgree
  <2>3. CASE instrs[ip].sym # name[d]
    BY <1>0, <1>1, <1>4, <2>1, <2>3 DEF VarsAgree
  <2> QED BY <2>2, <2>3
<1>6. Post(instrs[ip], g.pre[ip]) = g.pre[ip]
  BY <1>1 DEF Post, IsCall
<1>7. stmts' \in Pos(tree) /\ Same(tree, stmts', Post(instrs[ip], g.pre[ip]))
  BY <1>0, <1>1, <1>3, <1>6 DEF Abreast
<1> QED BY <1>0, <1>1, <1>4, <1>5, <1>7, RunOn

LEMMA RunResultStep ==
  ASSUME NEW g, Finished(g), Running(g), RunCallStore, ~IsCall(instrs[ip])
  PROVE  Running(g)'
<1>0. /\ SameCode /\ UNCHANGED <<param, val, input, stmts, vars>> /\ Continue /\ Stored
           /\ At("store")
      /\ instrs[ip].args[1] = 0 \/ instrs[ip].sym = ret_ref
  BY SameCodeIs DEF RunCallStore
<1>1. /\ ip \in DOMAIN instrs /\ instrs[ip].op = "store" /\ instrs[ip].bb # retBB
      /\ instrs[ip].op \notin Terminators /\ instrs[ip].op \notin PureOps
      /\ instrs[ip].sym \in Allocas /\ 1 \in DOMAIN instrs[ip].args
      /\ Acts(tree, name, g.of, g.start, instrs[ip], g.pre[ip], g.first[ip], ip)
      /\ Abreast(g) /\ VarsAgree
  BY <1>0, AtStore
<1>2. IsResult(instrs[ip]) /\ instrs[ip].sym = ret_ref
  BY <1>0, <1>1 DEF IsCall, IsResult
<1>3. DOMAIN mem = Allocas /\ DOMAIN vars = Decls /\ stmts \in Pos(tree)
  BY DEF Running
<1>4. stmts = g.pre[ip]
  <2>1. "store" # "br"
    OBVIOUS
  <2> QED BY <1>0, <1>1, <2>1, InStep
<1>5. /\ DOMAIN mem' = DOMAIN mem /\ mem'[ret_ref] = Operand(1)
      /\ \A x \in Allocas : x # ret_ref => mem'[x] = mem[x]
  BY <1>0, <1>1, <1>2, <1>3 DEF Stored
<1>6. ASSUME NEW d \in Decls PROVE vars'[d] \in {junk, mem'[name[d]]}
  <2>1. name[d] \in Allocas /\ name[d] # ret_ref
    BY NameFacts DEF Allocas, Vars, Finished
  <2> QED BY <1>0, <1>1, <1>5, <2>1 DEF VarsAgree
<1>7. Post(instrs[ip], g.pre[ip]) = g.pre[ip]
  BY <1>1, <1>2 DEF Post
<1>8. stmts' \in Pos(tree) /\ Same(tree, stmts', Post(instrs[ip], g.pre[ip])) /\ stmts' = g.pre[ip]
  BY <1>0, <1>1, <1>3, <1>4, <1>7 DEF Abreast
<1>9. (stmts = <<>> /\ instrs[ip].args[1] = Constant(0))
        \/ (stmts # <<>> /\ tree[Now].kind = "ret"
              /\ Names(tree, g.of, instrs[ip].args[1], Of(1), g.first[ip], ip))
  BY <1>1, <1>2, <1>4 DEF Acts, Now, Of, Kids
<1>10. Result \in {junk, Operand(1)}
  <2>1. CASE stmts = <<>>
    <3>1. Operand(1) = 0
      <4>1. 0 \in Word /\ IsWord(Constant(0)) /\ WordOf(Constant(0)) = 0
        BY WordFacts
      <4> QED BY <1>9, <2>1, <4>1 DEF Operand, IsWord
    <3> QED BY <2>1, <3>1 DEF Result
  <2>2. CASE stmts # <<>>
    <3>1. Eval[Of(1)] \in {junk, Operand(1)}
      BY <1>1, <1>9, <2>2, OperandIs DEF Abreast
    <3> QED BY <2>2, <3>1 DEF Result
  <2> QED BY <2>1, <2>2
<1>11. Result' = Result
  BY <1>0, <1>3, <1>9, ValuesStay
<1>12. ResultAgrees'
  BY <1>5, <1>10, <1>11 DEF ResultAgrees
<1> QED BY <1>0, <1>1, <1>5, <1>6, <1>8, <1>12, BlockValues, RunOn

LEMMA RunStoreStep ==
  ASSUME NEW g, Finished(g), Running(g), RunStore
  PROVE  Running(g)'
<1>0. /\ SameCode /\ UNCHANGED <<param, val, input>> /\ Continue /\ Stored /\ At("store")
      /\ instrs[ip].args[1] # 0 /\ instrs[ip].sym # ret_ref
      /\ vars' = [vars EXCEPT ![DeclOf(Of(1))] = Eval[Of(2)]] /\ stmts' = Tail(stmts)
  BY SameCodeIs DEF RunStore
<1>1. /\ ip \in DOMAIN instrs /\ instrs[ip].op = "store" /\ instrs[ip].bb # retBB
      /\ instrs[ip].op \notin Terminators /\ instrs[ip].op \notin PureOps
      /\ instrs[ip].sym \in Allocas /\ 1 \in DOMAIN instrs[ip].args
      /\ Acts(tree, name, g.of, g.start, instrs[ip], g.pre[ip], g.first[ip], ip)
      /\ Abreast(g) /\ VarsAgree
  BY <1>0, AtStore
<1>2. ~IsCall(instrs[ip]) /\ ~IsResult(instrs[ip])
  BY <1>0 DEF IsCall, IsResult
<1>3. DOMAIN mem = Allocas /\ DOMAIN vars = Decls /\ stmts \in Pos(tree)
  BY DEF Running
<1>4. stmts = g.pre[ip]
  <2>1. "store" # "br"
    OBVIOUS
  <2> QED BY <1>0, <1>1, <1>2, <2>1, InStep
<1>5. /\ stmts # <<>> /\ tree[Now].kind = "asgn" /\ instrs[ip].sym = name[Of(1)]
      /\ Names(tree, g.of, instrs[ip].args[1], Of(2), g.first[ip], ip)
  BY <1>0, <1>1, <1>4 DEF Acts, Now, Of, Kids
<1>6. Of(1) \in Uses
  <2>1. Now \in StmtNodes
    BY <1>3, <1>5, PosFacts DEF Finished, Prepared, Now
  <2> QED BY <1>5, <2>1, StmtFacts DEF Finished, Prepared, Of
<1>7. PICK e \in Decls : /\ e = DeclOf(Of(1)) /\ name[e] = instrs[ip].sym
                         /\ \A d \in Decls : name[d] = instrs[ip].sym => d = e
  BY <1>5, <1>6, DeclOfFacts DEF Finished
<1>8. Eval[Of(2)] \in {junk, Operand(1)}
  BY <1>1, <1>5, OperandIs DEF Abreast
<1>9. /\ DOMAIN mem' = DOMAIN mem /\ mem'[instrs[ip].sym] = Operand(1)
      /\ \A x \in Allocas : x # instrs[ip].sym => mem'[x] = mem[x]
  BY <1>0, <1>1, <1>3 DEF Stored
<1>10. /\ DOMAIN vars' = DOMAIN vars /\ vars'[e] = Eval[Of(2)]
       /\ \A d \in Decls : d # e => vars'[d] = vars[d]
  BY <1>0, <1>3, <1>7
<1>11. ASSUME NEW d \in Decls PROVE vars'[d] \in {junk, mem'[name[d]]}
  <2>1. name[d] \in Allocas
    BY DEF Allocas
  <2>2. CASE d = e
    BY <1>7, <1>8, <1>9, <1>10, <2>2
  <2>3. CASE d # e
    BY <1>1, <1>2, <1>7, <1>9, <1>10, <2>1, <2>3 DEF VarsAgree
  <2> QED BY <2>2, <2>3
<1>12. Post(instrs[ip], g.pre[ip]) = Tail(g.pre[ip])
  BY <1>0, <1>1 DEF Post
<1>13. stmts' \in Pos(tree)
  BY <1>0, <1>3, <1>5, PosFacts DEF Finished, Prepared
<1>14. Same(tree, stmts', Post(instrs[ip], g.pre[ip]))
  BY <1>0, <1>4, <1>12, <1>13, SameSelf DEF Finished
<1>15. DOMAIN val' = DOMAIN val
  BY <1>0
<1> QED BY <1>0, <1>1, <1>2, <1>9, <1>10, <1>11, <1>13, <1>14, <1>15, RunOn

LEMMA RunPrintStep ==
  ASSUME NEW g, Finished(g), Running(g), RunPrint
  PROVE  Running(g)'
<1>0. /\ SameCode /\ UNCHANGED <<param, val, mem, input, vars>> /\ Continue /\ At("print")
      /\ instrs[ip].op = "print" /\ stmts' = Tail(stmts) /\ stmts # <<>>
      /\ ip \in DOMAIN instrs /\ stmts \in Pos(tree)
  BY SameCodeIs DEF RunPrint, At, IsNow, Running
<1>1. instrs[ip].bb # retBB
  BY <1>0, NotReturning
<1>2. /\ ~IsCall(instrs[ip]) /\ ~IsResult(instrs[ip])
      /\ instrs[ip].op \notin Terminators /\ instrs[ip].op \notin PureOps
  BY <1>0 DEF IsCall, IsResult, PureOps, Terminators
<1>3. stmts = g.pre[ip]
  <2>1. "print" # "br"
    OBVIOUS
  <2> QED BY <1>0, <1>1, <1>2, <2>1, InStep
<1>4. \A d \in Decls : vars'[d] \in {junk, mem'[name[d]]}
  BY <1>0, <1>2 DEF VarsAgree, Running
<1>5. Post(instrs[ip], g.pre[ip]) = Tail(g.pre[ip])
  BY <1>0 DEF Post
<1>6. stmts' \in Pos(tree)
  BY <1>0, PosFacts DEF Finished, Prepared
<1>7. Same(tree, stmts', Post(instrs[ip], g.pre[ip]))
  BY <1>0, <1>3, <1>5, <1>6, SameSelf DEF Finished
<1>8. DOMAIN val' = DOMAIN val /\ DOMAIN mem' = DOMAIN mem /\ DOMAIN vars' = DOMAIN vars
  BY <1>0
<1> QED BY <1>0, <1>1, <1>2, <1>4, <1>6, <1>7, <1>8, RunOn

\* The store of the parameter is not in a block that is jumped to.
LEMMA JumpVars ==
  ASSUME NEW g, Finished(g), SameCode, VarsAgree, ~IsCall(instrs[ip]),
         NEW b \in 1 .. nblocks, b > retBB, ip' = NextAfter(0, b), UNCHANGED <<param, mem, vars>>
  PROVE  VarsAgree'
<1>1. PICK j : j = ip'
  OBVIOUS
<1>2. NextIn(instrs, 0, b, j) /\ b # retBB /\ b \in Nat
  BY <1>1, FirstInBlock DEF Finished, retBB
<1>3. g.start[b] \in Pos(tree)
  BY <1>2 DEF Finished, Guided, Guides
<1>4. instrs[j].bb = b /\ (IsCall(instrs[j]) => j = 1)
  BY <1>2, <1>3, SameSelf, BlockStarts DEF Finished
<1>5. instrs[1].bb \in {entryBB, retBB}
  BY DEF Finished, Entered
<1>6. ~IsCall(instrs[j])
  BY <1>4, <1>5 DEF entryBB, retBB
<1>7. UNCHANGED <<tree, name, instrs>> /\ Decls' = Decls
  BY FinishedStays
<1> QED BY <1>1, <1>6, <1>7 DEF VarsAgree

LEMMA RunBackStep ==
  ASSUME NEW g, Finished(g), Running(g), RunBr, instrs[ip].succ[1] = retBB
  PROVE  Running(g)'
<1>0. /\ SameCode /\ UNCHANGED <<param, mem, input, stmts, vars>>
      /\ ip' = NextAfter(0, retBB) /\ val' = NoValues
      /\ instrs[ip].op = "br" /\ ip \in DOMAIN instrs /\ stmts \in Pos(tree)
      /\ DOMAIN mem = Allocas /\ DOMAIN vars = Decls /\ VarsAgree
  BY SameCodeIs DEF RunBr, At, Running, Jump
<1>1. instrs[ip].bb # retBB
  BY <1>0, NotReturning
<1>2. Joined(tree, instrs, g, ip) /\ ip \in Nat /\ Abreast(g)
  BY <1>0, <1>1, GuideAt DEF Running
<1>3. /\ g.first[ip] < ip /\ g.first[ip] \in 1 .. ip /\ IsResult(instrs[ip - 1])
      /\ instrs[ip - 1].bb = instrs[ip].bb /\ g.pre[ip - 1] = g.pre[ip]
  BY <1>0, <1>2 DEF Joined
<1>4. ip - 1 \in DOMAIN instrs
  <2>1. instrs \in Seq(Built)
    BY DEF Finished, Function, GoodCode
  <2> QED BY <1>0, <1>2, <1>3, <2>1
<1>5. Acts(tree, name, g.of, g.start, instrs[ip - 1], g.pre[ip], g.first[ip - 1], ip - 1)
  BY <1>1, <1>3, <1>4, GuideAt
<1>6. stmts = g.pre[ip] /\ ResultAgrees
  BY <1>0, <1>2, <1>3 DEF Abreast
<1>7. stmts = <<>> \/ tree[Now].kind = "ret"
  BY <1>3, <1>5, <1>6 DEF Acts, Now
<1>8. PICK j : j = ip'
  OBVIOUS
<1>9. /\ j \in DOMAIN instrs /\ instrs[j].bb = retBB
      /\ \A k \in 1 .. j - 1 : instrs[k].bb # retBB
      /\ j \in Nat /\ Returns(instrs, j)
  <2>1. nblocks >= 2 /\ nblocks \in Nat
    BY DEF Finished, Function
  <2>2. retBB \in 1 .. nblocks
    BY <2>1 DEF retBB
  <2>3. NextIn(instrs, 0, retBB, j)
    BY <1>0, <1>8, <2>2, FirstInBlock DEF Finished
  <2>4. 0 + 1 = 1
    OBVIOUS
  <2> QED BY <2>3, <2>4, GuideAt DEF NextIn
<1>10. instrs[j].op # "ret" /\ ~IsCall(instrs[j])
  <2>1. ASSUME instrs[j].op = "ret" PROVE FALSE
    <3>1. j > 1 /\ instrs[j - 1].bb = retBB
      BY <1>9, <2>1 DEF Returns
    <3>2. j - 1 \in 1 .. j - 1
      BY <1>9, <3>1
    <3> QED BY <1>9, <3>1, <3>2
  <2>2. instrs[j].op # "store"
    BY <1>9 DEF Returns
  <2> QED BY <2>1, <2>2 DEF IsCall
<1>11. /\ UNCHANGED <<tree, name, instrs>> /\ Decls' = Decls /\ Allocas' = Allocas
       /\ Pos(tree)' = Pos(tree)
  BY <1>0, FinishedStays
<1>12. Result' = Result
  BY <1>0, <1>7, ValuesStay
<1>13. ~IsCall(instrs[ip])
  BY <1>0 DEF IsCall
<1>14. VarsAgree'
  BY <1>0, <1>8, <1>10, <1>11, <1>13 DEF VarsAgree
<1>15. Returning'
  BY <1>0, <1>6, <1>7, <1>8, <1>10, <1>11, <1>12 DEF Returning, ResultAgrees, Now
<1>16. DOMAIN val' = DOMAIN instrs
  BY <1>0 DEF NoValues
<1> QED BY <1>0, <1>8, <1>9, <1>11, <1>14, <1>15, <1>16 DEF Running

LEMMA RunBrStep ==
  ASSUME NEW g, Finished(g), Running(g), RunBr
  PROVE  Running(g)'
<1>1. PICK b : b = instrs[ip].succ[1]
  OBVIOUS
<1>2. CASE b = retBB
  BY <1>1, <1>2, RunBackStep
<1>3. CASE b # retBB
  <2>0. /\ SameCode /\ UNCHANGED <<param, mem, input, stmts, vars>>
        /\ ip' = NextAfter(0, b) /\ val' = NoValues
        /\ instrs[ip].op = "br" /\ ip \in DOMAIN instrs /\ stmts \in Pos(tree)
        /\ DOMAIN mem = Allocas /\ DOMAIN vars = Decls /\ VarsAgree
    BY <1>1, SameCodeIs DEF RunBr, At, Running, Jump
  <2>1. instrs[ip].bb # retBB
    BY <2>0, NotReturning
  <2>2. b \in 1 .. nblocks
    <3>1. instrs[ip].succ \in Seq(Nat) /\ Len(instrs[ip].succ) = 1
      BY <2>0, GuideAt DEF Fits, Built
    <3>2. 1 \in DOMAIN instrs[ip].succ
      BY <3>1
    <3> QED BY <1>1, <2>0, <3>2, GuideAt
  <2>3. b > retBB /\ Same(tree, g.start[b], g.pre[ip]) /\ Same(tree, stmts, g.pre[ip])
    BY <1>1, <1>3, <2>0, <2>1, GuideAt DEF Acts, Running, Abreast
  <2>4. Same(tree, stmts', g.start[b])
    BY <2>0, <2>3, SameFacts DEF Finished, Prepared
  <2>5. ~IsCall(instrs[ip])
    BY <2>0 DEF IsCall
  <2>6. VarsAgree'
    BY <2>0, <2>2, <2>3, <2>5, JumpVars
  <2>7. DOMAIN val' = DOMAIN instrs
    BY <2>0 DEF NoValues
  <2> QED BY <1>3, <2>0, <2>2, <2>4, <2>6, <2>7, RunTo
<1> QED BY <1>2, <1>3

LEMMA RunCondBrStep ==
  ASSUME NEW g, Finished(g), Running(g), RunCondBr
  PROVE  Running(g)'
<1>0. /\ SameCode /\ UNCHANGED <<param, mem, input, vars>> /\ At("condbr")
      /\ ip' = NextAfter(0, instrs[ip].succ[IF Operand(1) = 0 THEN 2 ELSE 1]) /\ val' = NoValues
      /\ instrs[ip].op = "condbr" /\ ip \in DOMAIN instrs /\ stmts \in Pos(tree)
      /\ DOMAIN mem = Allocas /\ DOMAIN vars = Decls /\ VarsAgree
      /\ stmts' = Chosen(Eval[Of(1)]) \o Tail(stmts)
      /\ Eval[Of(1)] # junk /\ stmts # <<>> /\ tree[Now].kind \in {"while", "if"}
  BY SameCodeIs DEF RunCondBr, At, Running, Jump, IsNow
<1>1. instrs[ip].bb # retBB
  BY <1>0, NotReturning
<1>2. ~IsCall(instrs[ip])
  BY <1>0 DEF IsCall
<1>3. stmts = g.pre[ip]
  <2>1. "condbr" # "br"
    OBVIOUS
  <2> QED BY <1>0, <1>1, <1>2, <2>1, InStep
<1>4. /\ Names(tree, g.of, instrs[ip].args[1], Of(1), g.first[ip], ip)
      /\ instrs[ip].succ[1] > retBB
           /\ Same(tree, g.start[instrs[ip].succ[1]], Taken(tree, stmts, TRUE))
      /\ instrs[ip].succ[2] > retBB
           /\ Same(tree, g.start[instrs[ip].succ[2]], Taken(tree, stmts, FALSE))
  BY <1>0, <1>1, <1>3, GuideAt DEF Acts, Now, Of, Kids
<1>5. DOMAIN instrs[ip].args = {1} /\ DOMAIN instrs[ip].succ = {1, 2}
  <2>1. /\ instrs[ip].succ \in Seq(Nat) /\ Len(instrs[ip].succ) = 2
        /\ instrs[ip].args \in Seq(Int) /\ Len(instrs[ip].args) = 1
    BY <1>0, GuideAt DEF Fits, Built
  <2> QED BY <2>1
<1>6. Eval[Of(1)] = Operand(1)
  <2>1. Eval[Of(1)] \in {junk, Operand(1)}
    BY <1>0, <1>1, <1>4, <1>5, OperandIs DEF Running, Abreast
  <2> QED BY <1>0, <2>1
<1>7. PICK b : b = instrs[ip].succ[IF Operand(1) = 0 THEN 2 ELSE 1]
  OBVIOUS
<1>8. Same(tree, g.start[b], stmts')
  <2>1. CASE Operand(1) = 0
    <3>1. stmts' = Taken(tree, stmts, FALSE)
      BY <1>0, <1>6, <2>1 DEF Chosen, Taken, IsNow, Now, Of, Kids
    <3> QED BY <1>4, <1>7, <2>1, <3>1
  <2>2. CASE Operand(1) # 0
    <3>1. stmts' = Taken(tree, stmts, TRUE)
      BY <1>0, <1>6, <2>2 DEF Chosen, Taken, IsNow, Now, Of, Kids
    <3> QED BY <1>4, <1>7, <2>2, <3>1
  <2> QED BY <2>1, <2>2
<1>9. b \in 1 .. nblocks /\ b > retBB /\ b # retBB
  <2>1. b \in 1 .. nblocks
    BY <1>0, <1>5, <1>7, GuideAt
  <2>2. b > retBB
    BY <1>4, <1>7
  <2> QED BY <2>1, <2>2 DEF retBB
<1>10. stmts' \in Pos(tree) /\ Same(tree, stmts', g.start[b])
  <2>1. stmts' \in Pos(tree)
    BY <1>8 DEF Same
  <2> QED BY <1>8, <2>1, SameFacts DEF Finished, Prepared
<1>11. VarsAgree'
  BY <1>0, <1>2, <1>7, <1>9, JumpVars
<1>12. DOMAIN val' = DOMAIN instrs
  BY <1>0 DEF NoValues
<1>13. ip' = NextAfter(0, b) /\ DOMAIN mem' = Allocas /\ DOMAIN vars' = Decls
  BY <1>0, <1>7
<1> QED BY <1>0, <1>9, <1>10, <1>11, <1>12, <1>13, RunTo

LEMMA StartRunStep ==
  ASSUME NEW g, Finished(g), StartRun
  PROVE  Running(g)'
<1>0. /\ SameCode /\ ip' = NextAfter(0, entryBB) /\ val' = NoValues
      /\ mem' = [x \in Allocas |-> junk] /\ stmts' = <<Body>>
      /\ vars' = [d \in Decls |-> IF d \in Params THEN param' ELSE junk]
  BY DEF StartRun, irvars, SameCode
<1>1. entryBB \in 1 .. nblocks /\ entryBB # retBB /\ entryBB \in Nat
  <2>1. nblocks >= 2 /\ nblocks \in Nat
    BY DEF Finished, Function
  <2> QED BY <2>1 DEF entryBB, retBB
<1>2. g.start[entryBB] = stmts' /\ stmts' \in Pos(tree)
  <2>1. g.start[entryBB] = stmts'
    BY <1>0 DEF Finished, Entered, Body, Kids
  <2> QED BY <1>1, <2>1 DEF Finished, Guided, Guides
<1>3. PICK j : j = ip'
  OBVIOUS
<1>4. /\ NextIn(instrs, 0, entryBB, j) /\ j \in Nat
  <2>1. NextIn(instrs, 0, entryBB, j)
    BY <1>0, <1>1, <1>3, FirstInBlock DEF Finished
  <2> QED BY <2>1, GuideAt DEF NextIn
<1>5. ASSUME NEW d \in Params PROVE d \in Decls /\ IsCall(instrs[j]) /\ instrs[j].sym = name[d]
  <2>1. d \in DOMAIN tree /\ tree[d].kind = "param"
    BY RootFacts DEF Finished, Prepared
  <2>2. 1 \in DOMAIN instrs /\ instrs[1].bb = entryBB /\ IsCall(instrs[1])
          /\ instrs[1].sym = name[d]
    BY <2>1 DEF Finished, Entered
  <2>3. j = 1
    <3>1. 0 + 1 = 1 /\ j > 0 /\ \A k \in 0 + 1 .. j - 1 : instrs[k].bb # entryBB
      BY <1>4 DEF NextIn
    <3>2. ~(1 \in 1 .. j - 1)
      BY <2>2, <3>1
    <3> QED BY <1>4, <3>1, <3>2
  <2> QED BY <2>1, <2>2, <2>3 DEF Decls
<1>6. UNCHANGED <<tree, name, instrs>> /\ Decls' = Decls
  BY <1>0, FinishedStays
<1>7. VarsAgree'
  <2> SUFFICES ASSUME NEW d \in Decls
               PROVE  vars'[d] \in {junk, IF IsCall(instrs[j]) /\ instrs[j].sym = name[d]
                                          THEN param' ELSE mem'[name[d]]}
    BY <1>3, <1>6 DEF VarsAgree
  <2> QED BY <1>0, <1>5
<1>8. Same(tree, stmts', g.start[entryBB])
  BY <1>2, SameSelf DEF Finished
<1>9. DOMAIN val' = DOMAIN instrs /\ DOMAIN mem' = Allocas /\ DOMAIN vars' = Decls
  BY <1>0 DEF NoValues
<1> QED BY <1>0, <1>1, <1>2, <1>7, <1>8, <1>9, RunTo

(***************************************************************************)
(* While the two run, the function is where the source is, and what it has *)
(* computed and stored is what the source's expressions and variables are  *)
(* worth.                                                                  *)
(***************************************************************************)
RunIInv == phase = "run" => \E g : Finished(g) /\ Running(g)

LEMMA NotYetRun ==
  ASSUME BuiltIInv, BuildStep
  PROVE  phase' # "run"
<1>1. CASE Walk
  <2>1. phase \in {"analysis", "rename"} /\ (Analyze \/ Rename)
    BY <1>1 DEF Walk, Analyze, AnalyzeFunc, AnalyzeBlock, LeaveTable, AnalyzeDecl, AnalyzeVar,
           AnalyzeParts,
           Accept, Analyzing, Rename, RenameFunc, RenameBlock, LeaveScope, RenameDecl, RenameVar,
           RenameParts, EndRenaming, Renaming
  <2>2. ScopesIInv
    BY <2>1 DEF BuiltIInv, ScopesPhases
  <2>3. ScopesIInv'
    BY <2>1, <2>2, AnalyzeStep, RenameStep
  <2> QED BY <2>3 DEF ScopesIInv
<1>2. CASE LowerStmt
  <2>1. phase = "lower"
    BY <1>2 DEF LowerStmt, LowerAsgn, LowerPrint, LowerWhile, EndWhile, LowerIf, EndIf, Else,
                EndElse, LowerRet, LowerBlock, LowerDecl, Lowering, Closing
  <2> QED BY <1>2, <2>1 DEF LowerStmt, LowerAsgn, LowerPrint, LowerWhile, EndWhile, LowerIf, EndIf,
                Else, EndElse, LowerRet, LowerBlock, LowerDecl, Lower, unchangedByLowering,
                scopevars, walkvars
<1>3. CASE BeginIR \/ Finish \/ MarkReachable \/ Remove
  BY <1>3 DEF BeginIR, Finish, MarkReachable, Remove, KeepBlock, DeleteBlock, AbortDelete, Onward
<1> QED BY <1>1, <1>2, <1>3 DEF BuildStep

LEMMA EvalDefined == WellFormedTree(tree) => Eval = [n \in Exprs |-> EvalAt(Eval, n)]
BY EvalDef

LEMMA RunStutter ==
  ASSUME NEW g, Finished(g), Running(g), UNCHANGED allvars
  PROVE  Finished(g)' /\ Running(g)'
<1>1. /\ SameCode /\ UNCHANGED <<tree, name, instrs, ip, param, val, mem, input, stmts, vars>>
  BY DEF allvars, buildvars, scopevars, irvars, walkvars, runvars, SameCode
<1>2. /\ Finished(g)' /\ Decls' = Decls /\ Exprs' = Exprs /\ Allocas' = Allocas
      /\ Pos(tree)' = Pos(tree)
  BY <1>1, FinishedStays
<1>3. Eval' = Eval
  <2>1. \A n \in Exprs : Eval'[n] = Eval[n]
    BY <1>1, ValuesStay
  <2>2. Eval = [n \in Exprs |-> EvalAt(Eval, n)]
    BY EvalDef DEF Finished, Prepared
  <2>3. (WellFormedTree(tree) => Eval = [n \in Exprs |-> EvalAt(Eval, n)])'
    BY EvalDefined, PTL
  <2>4. DOMAIN Eval' = Exprs /\ Eval' = [n \in DOMAIN Eval' |-> Eval'[n]]
    BY <1>2, <2>3 DEF Finished, Prepared
  <2> QED BY <2>1, <2>2, <2>4
<1>4. VarsAgree => VarsAgree'
  BY <1>1, <1>2 DEF VarsAgree
<1>5. Result' = Result
  BY <1>1, <1>3 DEF Result, Of, Now, Kids
<1>6. ResultAgrees => ResultAgrees'
  BY <1>1, <1>5 DEF ResultAgrees
<1>7. Returning => Returning'
  BY <1>1, <1>6 DEF Returning, Now
<1>8. Abreast(g) => Abreast(g)'
  BY <1>1, <1>2, <1>3, <1>6 DEF Abreast, ValuesAgree
<1> QED BY <1>1, <1>2, <1>4, <1>7, <1>8 DEF Running

LEMMA RunIStep ==
  ASSUME BuiltIInv, GuideIInv, RunIInv, Run
  PROVE  RunIInv'
<1>1. CASE StartRun
  <2>1. phase = "built"
    BY <1>1 DEF StartRun
  <2>2. Prepared /\ Function(instrs, nblocks, {}) /\ Led(tree, name, instrs)
    BY <2>1 DEF BuiltIInv, GuideIInv, ScopesPhases, DeletePhases
  <2>3. PICK g : Guided(tree, name, instrs, {}, g) /\ Entered(tree, name, instrs, g)
    BY <2>2 DEF Led
  <2>4. Finished(g)
    BY <2>2, <2>3 DEF Finished
  <2>5. SameCode
    BY <1>1 DEF StartRun, irvars, SameCode
  <2>6. Finished(g)' /\ Running(g)'
    BY <1>1, <2>4, <2>5, FinishedStays, StartRunStep
  <2> QED BY <2>6 DEF RunIInv
<1>2. CASE ~StartRun
  <2>1. phase = "run" /\ UNCHANGED buildvars
    BY <1>2 DEF Run, RunSilent, RunPure, RunRead, RunCallStore, RunStore, RunPrint, RunBr,
                RunCondBr, Stopped, At, allvars
  <2>2. PICK g : Finished(g) /\ Running(g)
    BY <2>1 DEF RunIInv
  <2>3. SameCode
    BY <2>1, SameCodeIs
  <2>4. Finished(g)'
    BY <2>2, <2>3, FinishedStays
  <2>5. Running(g)'
    <3>1. CASE Stopped
      BY <2>2, <3>1, RunStutter DEF Stopped
    <3>2. CASE ~Stopped
      BY <1>2, <2>2, <2>3, <3>2, RunSilentStep, RunPureStep, RunReadStep, RunCallStep,
         RunResultStep,
         RunStoreStep, RunPrintStep, RunBrStep, RunCondBrStep DEF Run
    <3> QED BY <3>1, <3>2
  <2> QED BY <2>4, <2>5 DEF RunIInv
<1> QED BY <1>1, <1>2

(***************************************************************************)
(* Theorem: every step of the built function keeps it abreast of the       *)
(* source: a store, a print or a branch is met where the source has the    *)
(* statement with that effect, and allocas hold what the variables hold.   *)
(***************************************************************************)
THEOREM RunInductive == BRSpec => []RunIInv
<1>1. BRInit => RunIInv
  BY DEF BRInit, IRInit, ScopesInit, RunIInv
<1>2. ASSUME BuiltIInv, GuideIInv, RunIInv, [BRNext]_allvars PROVE RunIInv'
  <2>1. CASE BuildStep
    BY <1>2, <2>1, NotYetRun DEF RunIInv
  <2>2. CASE Run
    BY <1>2, <2>2, RunIStep
  <2>3. CASE NotBuilt \/ UNCHANGED allvars
    <3>1. UNCHANGED allvars
      BY <2>3 DEF NotBuilt
    <3>2. CASE phase = "run"
      <4>1. PICK g : Finished(g) /\ Running(g)
        BY <1>2, <3>2 DEF RunIInv
      <4>2. Finished(g)' /\ Running(g)'
        BY <3>1, <4>1, RunStutter
      <4> QED BY <4>2 DEF RunIInv
    <3>3. CASE phase # "run"
      BY <3>1, <3>3 DEF RunIInv, allvars, buildvars, scopevars, walkvars
    <3> QED BY <3>2, <3>3
  <2> QED BY <1>2, <2>1, <2>2, <2>3 DEF BRNext
<1> QED BY <1>1, <1>2, BuiltInductive, GuideInductive, PTL DEF BRSpec

(***************************************************************************)
(* Theorem: the function that build_ir makes, before it is optimized, does *)
(* what the program says, for every program and every input.               *)
(***************************************************************************)
THEOREM SameAsSourceTheorem == BRSpec => []SameAsSource
<1>1. ASSUME RunIInv PROVE SameAsSource
  <2>0. CASE phase # "run"
    BY <2>0 DEF SameAsSource, At
  <2>1. CASE phase = "run"
    <3>1. PICK g : Finished(g) /\ Running(g)
      BY <1>1, <2>1 DEF RunIInv
    <3>2. ip \in DOMAIN instrs /\ Fits(instrs[ip]) /\ instrs[ip] \in Built /\ ip \in Nat
      BY <3>1, GuideAt DEF Running
    <3>3. \A op \in {"store", "print", "condbr"} : At(op) => 1 \in DOMAIN instrs[ip].args
      <4>1. instrs[ip].args \in Seq(Int)
        BY <3>2 DEF Built
      <4>2. \A op \in {"store", "print", "condbr"} : At(op) => Len(instrs[ip].args) = 1
        BY <3>2 DEF At, Fits
      <4> QED BY <4>1, <4>2
    <3>4. ASSUME instrs[ip].op \notin {"load", "ret", "br"}, ~IsCall(instrs[ip]), NEW op, At(op)
          PROVE  /\ stmts = g.pre[ip] /\ instrs[ip].op = op
                 /\ Acts(tree, name, g.of, g.start, instrs[ip], stmts, g.first[ip], ip)
                 /\ \A k \in DOMAIN instrs[ip].args : \A m :
                      Names(tree, g.of, instrs[ip].args[k], m, g.first[ip], ip) =>
                        Eval[m] \in {junk, Operand(k)}
      <4>1. instrs[ip].bb # retBB /\ instrs[ip].op = op /\ op # "br"
        BY <3>1, <3>2, <3>4, NotReturning DEF At
      <4>2. stmts = g.pre[ip]
        BY <3>1, <3>4, <4>1, InStep
      <4>3. ValuesAgree(g)
        BY <3>1, <4>1 DEF Running, Abreast
      <4> QED BY <3>1, <3>2, <4>1, <4>2, <4>3, GuideAt, OperandIs
    <3>5. ASSUME At("store"), instrs[ip].sym # ret_ref, instrs[ip].args[1] # 0
          PROVE  Does({"asgn"}, 2)
      <4>1. ~IsCall(instrs[ip]) /\ instrs[ip].op = "store"
        BY <3>5 DEF At, IsCall
      <4> QED BY <3>3, <3>4, <3>5, <4>1 DEF Acts, Does, IsNow, Now, Of, Kids
    <3>6. ASSUME At("read") PROVE IsNow({"asgn"}) /\ tree[Of(2)].kind = "read"
      <4>1. ~IsCall(instrs[ip]) /\ instrs[ip].op = "read"
        BY <3>6 DEF At, IsCall
      <4> QED BY <3>4, <3>6, <4>1 DEF Acts, Computes, PureOps, IsNow, Now, Of, Kids
    <3>7. ASSUME At("print") PROVE Does({"print"}, 1)
      <4>1. ~IsCall(instrs[ip]) /\ instrs[ip].op = "print"
        BY <3>7 DEF At, IsCall
      <4> QED BY <3>3, <3>4, <3>7, <4>1 DEF Acts, Does, IsNow, Now, Of, Kids
    <3>8. ASSUME At("condbr") PROVE Does({"while", "if"}, 1)
      <4>1. ~IsCall(instrs[ip]) /\ instrs[ip].op = "condbr"
        BY <3>8 DEF At, IsCall
      <4> QED BY <3>3, <3>4, <3>8, <4>1 DEF Acts, Does, IsNow, Now, Of, Kids
    <3>9. ASSUME At("ret") PROVE (stmts = <<>> \/ IsNow({"ret"})) /\ Result \in {junk, Operand(1)}
      <4>1. instrs[ip].op = "ret"
        BY <3>9 DEF At
      <4>2. instrs[ip].bb = retBB
        BY <3>1, <3>2, <4>1, GuideAt DEF Acts
      <4>3. Returning /\ Returns(instrs, ip)
        BY <3>1, <3>2, <4>2, GuideAt DEF Running
      <4>4. instrs[ip].args = <<ip - 1>> /\ ip - 1 > 0
        BY <3>2, <4>1, <4>3 DEF Returns
      <4>5. instrs[ip].args[1] = ip - 1
        BY <4>4
      <4>6. Operand(1) = val[ip - 1]
        BY <3>2, <4>4, <4>5 DEF Operand
      <4> QED BY <4>1, <4>3, <4>6 DEF Returning, ResultAgrees, IsNow
    <3> QED BY <3>5, <3>6, <3>7, <3>8, <3>9 DEF SameAsSource
  <2> QED BY <2>0, <2>1
<1> QED BY <1>1, RunInductive, PTL
=============================================================================
