---------------------------- MODULE ProgramShapes ----------------------------
(***************************************************************************)
(* Functions put together from the bodies of their blocks, for the model   *)
(* checking of the optimizer.  A body is a sequence of instructions; in    *)
(* it, operand v > 0 is the v-th instruction of the body.                  *)
(***************************************************************************)
EXTENDS Integers, Sequences

Ins(op, operands, sym) == [op |-> op, args |-> operands, sym |-> sym, succ |-> <<>>, bb |-> 1]

\* Operands that are constants.
Zero == -1
One == -2
Two == -3

Load(x) == Ins("load", <<>>, x)
Store(x, v) == Ins("store", <<v>>, x)
Emit(v) == Ins("print", <<v>>, "")

\* s placed at the end of f as part of block b.
Placed(f, s, b) ==
  f \o [i \in DOMAIN s |->
          [s[i] EXCEPT !.bb = b,
                       !.args = [k \in DOMAIN @ |-> IF @[k] > 0 THEN @[k] + Len(f) ELSE @[k]]]]

\* The end of a block: return, go on to one block, or choose between two on
\* the condition that the last instruction of condition computes.
Ending(condition, targets) ==
  IF Len(targets) = 0 THEN <<Ins("ret", <<One>>, "")>>
  ELSE IF Len(targets) = 1 THEN <<[Ins("br", <<>>, "") EXCEPT !.succ = targets]>>
  ELSE Append(condition, [Ins("condbr", <<Len(condition)>>, "") EXCEPT !.succ = targets])

Block(f, body, condition, targets, b) ==
  Placed(Placed(f, body, b), Ending(condition, targets), b)

\* The function with bodies[b] in block b and edges[b] the targets of its end.
RECURSIVE BlocksOf(_, _, _, _)
BlocksOf(bodies, condition, edges, b) ==
  IF b = 0 THEN <<>>
  ELSE Block(BlocksOf(bodies, condition, edges, b - 1), bodies[b], condition, edges[b], b)

FunctionOf(bodies, condition, edges) == BlocksOf(bodies, condition, edges, Len(bodies))

Line == << <<2>>, <<3>>, <<>> >>
Diamond == << <<2, 3>>, <<4>>, <<4>>, <<>> >>
While == << <<2>>, <<3, 4>>, <<2>>, <<>> >>
=============================================================================
