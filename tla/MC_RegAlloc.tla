---------------------------- MODULE MC_RegAlloc ----------------------------
(***************************************************************************)
(* Every single-block function of MaxLen instructions and every pair of    *)
(* blocks of three instructions each and a terminator, over two registers: *)
(* three live values are enough for every path of the allocator, spilling  *)
(* included.                                                               *)
(***************************************************************************)
EXTENDS RegAlloc, FiniteSets, TLC

CONSTANTS x, r1, r2

MaxLen == 6

MCSyms == {x}
MCRegs == {r1, r2}

Ins(op, args, bb) ==
  [op |-> op, args |-> args, sym |-> x, succ |-> <<>>, bb |-> bb]

IsValue(f, i) == f[i].op \in {"load", "arith"}

Unused(f) == {i \in DOMAIN f : IsValue(f, i) /\ \A j \in DOMAIN f : i \notin ArgsOf(f, j)}

\* The instructions of block bb (-1 stands for a constant).
Candidates(bb) ==
  {Ins("load", <<>>, bb)}
    \cup {Ins("arith", <<a, b>>, bb) : a, b \in {-1} \cup 1 .. MaxLen - 2}
    \cup {Ins("print", <<a>>, bb) : a \in 1 .. MaxLen - 2}

InScope(f, ins) ==
  \A k \in DOMAIN ins.args : ins.args[k] > 0 =>
    /\ ins.args[k] \in DOMAIN f
    /\ IsValue(f, ins.args[k])
    /\ f[ins.args[k]].bb = ins.bb

(***************************************************************************)
(* The bodies of exactly m instructions of block bb, after prefix, that    *)
(* leave at most one value for the final instruction of the block to use.  *)
(***************************************************************************)
Bodies(bb, m, prefix) ==
  LET open(p, n) == InScope(p[1], p[2])
                      /\ Cardinality(Unused(Append(p[1], p[2]))) <= 1 + (m - n)
      stage[n \in 0 .. m] ==
        IF n = 0 THEN {prefix}
        ELSE {Append(p[1], p[2]) :
                p \in {q \in stage[n - 1] \X Candidates(bb) : open(q, n)}}
  IN  stage[m]

\* The final ret uses the one value that is left, or a constant.
Closed(f, bb) ==
  Append(f, Ins("ret", <<IF Unused(f) = {} THEN -1
                                          ELSE CHOOSE u \in Unused(f) : TRUE>>, bb))

OneBlock(m) == {Closed(f, 1) : f \in Bodies(1, m, <<>>)}

TwoBlocks ==
  LET fronts == {Append(f, Ins("br", <<>>, 1)) :
                   f \in {g \in Bodies(1, 3, <<>>) : Unused(g) = {}}}
  IN  UNION {{Closed(f, 2) : f \in Bodies(2, 3, g)} : g \in fronts}

MCFunctions == OneBlock(MaxLen - 1) \cup TwoBlocks

Symmetry == Permutations(MCRegs)
=============================================================================
