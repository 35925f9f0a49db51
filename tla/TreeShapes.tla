------------------------------ MODULE TreeShapes ------------------------------
(***************************************************************************)
(* Programs written as nested terms, for model checking, and turned into   *)
(* the numbered trees of module Ast.                                       *)
(***************************************************************************)
EXTENDS Integers, Sequences

LOCAL INSTANCE SequencesExt

(***************************************************************************)
(* A term is the sequence of its nodes in the order of the text; it refers *)
(* to its parts by their distance.                                         *)
(***************************************************************************)
Term(kind, ident, op, value, kids) ==
  LET Before(k) == Len(FlattenSeq(SubSeq(kids, 1, k - 1)))
  IN  <<[kind |-> kind, ident |-> ident, op |-> op, value |-> value,
         kids |-> [k \in DOMAIN kids |-> 1 + Before(k)]]>> \o FlattenSeq(kids)

Tree(term) ==
  [n \in DOMAIN term |-> [term[n] EXCEPT !.kids = [k \in DOMAIN @ |-> n + @[k]]]]

Var(x) == Term("var", x, "", 0, <<>>)
Num(v) == Term("cnst", "", "", v, <<>>)
Read == Term("read", "", "", 0, <<>>)
Neg(e) == Term("uexpr", "", "", 0, <<e>>)
Bin(op, a, b) == Term("bexpr", "", op, 0, <<a, b>>)
Rel(op, a, b) == Term("rexpr", "", op, 0, <<a, b>>)

Decl(x) == Term("decl", x, "", 0, <<>>)
Asgn(x, e) == Term("asgn", "", "", 0, <<x, e>>)
Emit(e) == Term("print", "", "", 0, <<e>>)
Ret(e) == Term("ret", "", "", 0, <<e>>)
While(c, s) == Term("while", "", "", 0, <<c, s>>)
If(c, branches) == Term("if", "", "", 0, <<c>> \o branches)
Block(stmts) == Term("block", "", "", 0, stmts)

Func(params, body) ==
  Term("func", "", "", 0,
       [i \in DOMAIN params |-> Term("param", params[i], "", 0, <<>>)] \o <<body>>)
=============================================================================
