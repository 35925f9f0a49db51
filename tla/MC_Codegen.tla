----------------------------- MODULE MC_Codegen -----------------------------
(***************************************************************************)
(* Functions that store the parameter and a constant in two variables,     *)
(* compute some values (loads and reads, all different), consume them in   *)
(* every possible way, and return or branch on a comparison.               *)
(***************************************************************************)
EXTENDS Codegen, TLC

MaxConsumers == 2   \* the longest sequence of instructions that consume the values
BeforeBranch == 1   \* the same, in a block that ends with a branch

MCAllocas == <<"x", "y">>
MCSyms == {"x", "y", "sub", "", "true", "false", "eq", "ne", "slt", "sle", "sgt", "sge"}

Ins(op, args, sym, succ, bb) ==
  [op |-> op, args |-> args, sym |-> sym, succ |-> succ, bb |-> bb]
Do(op, args, sym) == Ins(op, args, sym, <<>>, 1)

LoadX == Do("load", <<>>, "x")
LoadY == Do("load", <<>>, "y")
ReadIn == Do("read", <<>>, "")

Entry == <<Do("store", <<0>>, "x"), Do("store", <<-7>>, "y")>>

Sources == {<<LoadX, LoadY, ReadIn>>, <<ReadIn, LoadX, LoadY>>, <<LoadX, ReadIn, ReadIn>>}

IsValue(f, i) == f[i].op \in {"load", "read", "arith"}
Unused(f) == {i \in DOMAIN f : IsValue(f, i) /\ \A j \in DOMAIN f : i \notin ArgsOf(f, j)}

Positions == 3 .. 2 + 4 + MaxConsumers

Consumers ==
  {Do("arith", <<a, b>>, "sub") : a, b \in {-1} \cup Positions}
    \cup {Do("store", <<a>>, "y") : a \in Positions}
    \cup {Do("print", <<a>>, "") : a \in Positions}

Legal(f, c) ==
  /\ \A v \in ToSet(c.args) : v > 0 => v \in DOMAIN f /\ IsValue(f, v)
  /\ \E v \in ToSet(c.args) : v > 0

\* The sources followed by n consumers that leave at most `open` values.
Bodies(s, n, open) ==
  LET stage[k \in 0 .. n] ==
        IF k = 0 THEN {Entry \o s}
        ELSE {Append(p[1], p[2]) : p \in {q \in stage[k - 1] \X Consumers :
                Legal(q[1], q[2])
                  /\ Cardinality(Unused(Append(q[1], q[2]))) <= open + n - k}}
  IN  {f \in stage[n] : Cardinality(Unused(f)) <= open}

TheUnused(f) == IF Unused(f) = {} THEN -1 ELSE CHOOSE u \in Unused(f) : TRUE

Returning(f) == Append(f, Do("ret", <<TheUnused(f)>>, ""))

\* f, the end of block 1 included, and two more blocks to go on with.
Ended(f) ==
  f \o <<Ins("load", <<>>, "y", <<>>, 2),
         Ins("store", <<Len(f) + 1>>, "x", <<>>, 2),
         Ins("br", <<>>, "", <<3>>, 2),
         Ins("load", <<>>, "x", <<>>, 3),
         Ins("ret", <<Len(f) + 4>>, "", <<>>, 3)>>

Deciding(f, a, b, pred) ==
  Ended(f \o <<Do("icmp", <<a, b>>, pred),
               Ins("condbr", <<Len(f) + 1>>, "", <<2, 3>>, 1)>>)

\* A comparison of the values left over, or of the one left and a constant.
Comparisons(f) ==
  {<<a, b>> \in (Unused(f) \cup {-1}) \X (Unused(f) \cup {-1}) :
     a # b /\ Unused(f) \subseteq {a, b}}

AllPredicates == {"eq", "ne", "slt", "sle", "sgt", "sge"}

Branching ==
  {Deciding(Entry \o s, p[1], p[2], pred) :
     s \in {<<LoadX, ReadIn>>}, p \in {<<3, 4>>}, pred \in AllPredicates}
  \cup {Ended(Append(Entry, Ins("constbr", <<>>, k, <<3, 2>>, 1))) : k \in {"true", "false"}}

TwoRegisters == {"ebx", "ecx"}

SmallFunctions ==
  UNION {{Returning(f) : f \in UNION {Bodies(s, n, 1) : s \in Sources}} : n \in 0 .. MaxConsumers}
    \cup UNION {{Deciding(f, c[1], c[2], "slt") : c \in Comparisons(f)}
                  : f \in UNION {Bodies(s, BeforeBranch, 2) : s \in Sources}}
    \cup Branching

-----------------------------------------------------------------------------
(***************************************************************************)
(* Pressure on all three registers: five values are computed, one of them  *)
(* is printed after its first use, and all are subtracted from one another *)
(* in the order p, to the left or to the right.                            *)
(***************************************************************************)

AllRegisters == {"ebx", "ecx", "edx"}

FiveSources == <<LoadX, ReadIn, LoadY, ReadIn, ReadIn>>

Chain(p, k, left) ==
  LET v(i) == 2 + p[i]
      t(i) == 7 + i
      minus(a, b) == Do("arith", IF left THEN <<a, b>> ELSE <<b, a>>, "sub")
  IN  Entry \o FiveSources
        \o <<minus(v(1), v(2)), Do("print", <<v(k)>>, ""), minus(t(1), v(3)),
             minus(t(3), v(4)), minus(t(4), v(5)), Do("ret", <<t(5)>>, "")>>

ChainFunctions ==
  {Chain(p, k, left) : p \in Permutations(1 .. 5), k \in {1, 4}, left \in BOOLEAN}
=============================================================================
