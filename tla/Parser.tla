-------------------------------- MODULE Parser --------------------------------
(***************************************************************************)
(* Who owns what the parser allocates: the actions of src/src/parser.y,    *)
(* the create and free functions of src/src/ast.cpp, and what Bison does   *)
(* with the values on its stack when it gives up.                          *)
(*                                                                         *)
(* Tokens without a value are left out of the productions, since nothing   *)
(* is ever owned by them, and so is what tells operators apart.  stack is  *)
(* the stack of Bison: symbols, their values, and its states, the items    *)
(* <<production, dot>> that the input has led to.  It may shift or reduce  *)
(* whenever an item says so: which of them the next token decides.  Values *)
(* are pointers to heap objects, 0 is NULL (or no value at all).           *)
(***************************************************************************)
EXTENDS Integers, Sequences, FiniteSets

CONSTANTS
  Addresses,  \* of heap objects
  MaxStmts,   \* the bounds on the input: how many statements,
  MaxExprs,   \* how many expressions, and how many of these
  MaxOps      \* more than constants, it may have at a time

ASSUME AddressesAssumption == IsFiniteSet(Addresses) /\ Addresses \subseteq Nat \ {0}

VARIABLES
  stack,
  lookahead,   \* a NAME that has been scanned but not shifted, or 0
  heap,        \* address -> [kind, refs], for what has not been freed
  root,
  parsed       \* "no", or the result of yyparse: "accepted", "failed"

parservars == <<stack, lookahead, heap, root, parsed>>

-----------------------------------------------------------------------------
(***************************************************************************)
(* ast.cpp.  An object refers to what it owns: the copy of a name first,   *)
(* then its parts; the list of a block is an object of its own.            *)
(***************************************************************************)

Object(kind, refs) == [kind |-> kind, refs |-> refs]

\* What the free function of a kind of node frees besides the node itself.
FreedParts(kind, refs) ==
  CASE kind \in {"prog", "func"} -> {refs[1], refs[2], refs[3]} \ {0}
    [] kind \in {"extern", "var", "decl", "uexpr", "ret"} -> {refs[1]}
    [] kind \in {"rexpr", "bexpr", "while", "asgn"} -> {refs[1], refs[2]}
    [] kind = "call" -> {refs[1], refs[2]} \ {0}
    [] kind = "if" -> {refs[1], refs[2], refs[3]} \ {0}
    [] kind = "block" -> {refs[1]}
    [] kind = "list" -> {refs[k] : k \in DOMAIN refs}
    [] kind \in {"cnst", "name"} -> {}

\* freeNode, freeStmt: the objects freed with the one at a, and with those in roots.
Freed[a \in DOMAIN heap] ==
  {a} \cup UNION {Freed[b] : b \in FreedParts(heap[a].kind, heap[a].refs)}

FreedWith(roots) == UNION {Freed[a] : a \in roots}

Without(addresses) == [a \in DOMAIN heap \ addresses |-> heap[a]]

-----------------------------------------------------------------------------
(***************************************************************************)
(* The grammar.  act is what the action in braces does.                    *)
(***************************************************************************)

Rule(lhs, rhs, act) == [lhs |-> lhs, rhs |-> rhs, act |-> act]

Productions == <<
  Rule("program", <<"printDec", "readDec", "funcDec">>, "prog"),
  Rule("printDec", <<>>, "extern"),
  Rule("readDec", <<>>, "extern"),
  Rule("funcDec", <<"NAME", "block">>, "func"),
  Rule("funcDec", <<"NAME", "NAME", "block">>, "func"),
  Rule("block", <<"blockBody">>, "block"),
  Rule("blockBody", <<"decls", "stmts">>, "join"),
  Rule("decls", <<>>, "list"),
  Rule("decls", <<"decls", "varDec">>, "append"),
  Rule("varDec", <<"NAME">>, "decl"),
  Rule("stmts", <<>>, "list"),
  Rule("stmts", <<"stmts", "stmt">>, "append"),
  Rule("stmt", <<"varAssign">>, "pass"),
  Rule("stmt", <<"printStmt">>, "pass"),
  Rule("stmt", <<"ifStmt">>, "pass"),
  Rule("stmt", <<"whileStmt">>, "pass"),
  Rule("stmt", <<"retStmt">>, "pass"),
  Rule("stmt", <<"block">>, "pass"),
  Rule("varAssign", <<"NAME", "intExpr">>, "asgn"),
  Rule("varAssign", <<"NAME", "readCall">>, "asgn"),
  Rule("readCall", <<>>, "call"),
  Rule("printStmt", <<"intExpr">>, "call"),
  Rule("ifStmt", <<"relExpr", "stmt">>, "if"),
  Rule("ifStmt", <<"relExpr", "stmt", "stmt">>, "if"),
  Rule("whileStmt", <<"relExpr", "stmt">>, "while"),
  Rule("retStmt", <<"intExpr">>, "ret"),
  Rule("relExpr", <<"intExpr", "intExpr">>, "rexpr"),
  Rule("intExpr", <<"term">>, "pass"),
  Rule("intExpr", <<"term", "term">>, "bexpr"),
  Rule("term", <<"posTerm">>, "pass"),
  Rule("term", <<"posTerm">>, "uexpr"),
  Rule("posTerm", <<"NUM">>, "cnst"),
  Rule("posTerm", <<"NAME">>, "var") >>

Rules == DOMAIN Productions

Lhs(p) == Productions[p].lhs
Rhs(p) == Productions[p].rhs

Symbols == {Lhs(p) : p \in Rules} \cup {"NAME", "NUM"}

\* A symbol and one that an expansion of it can begin with; seven steps reach all.
LeftCorners ==
  LET Within[k \in 0 .. 7] ==
        IF k = 0 THEN {<<s, s>> : s \in Symbols}
        ELSE LET near == Within[k - 1]
             IN  near \cup UNION {{<<pair[1], Rhs(p)[1]>> :
                    p \in {q \in Rules : Lhs(q) = pair[2] /\ Rhs(q) # <<>>}} : pair \in near}
  IN  Within[7]

NextSymbol(item) == Rhs(item[1])[item[2] + 1]

Begins(symbol) == {p \in Rules : <<symbol, Lhs(p)>> \in LeftCorners}

\* The items with something still to come.
Unfinished(state) == {item \in state : item[2] < Len(Rhs(item[1]))}

Closure(state) ==
  state \cup UNION {{<<p, 0>> : p \in Begins(NextSymbol(item))} : item \in Unfinished(state)}

Goto(state, symbol) ==
  {<<item[1], item[2] + 1>> :
     item \in {i \in Unfinished(Closure(state)) : NextSymbol(i) = symbol}}

-----------------------------------------------------------------------------
(***************************************************************************)
(* The actions.  The create functions allocate, in this order, copies of   *)
(* names and nodes; new is where they put them, and the last node is $$.   *)
(***************************************************************************)

Name == Object("name", <<>>)

\* Faulty variant: the condition and the first branch in the wrong order.
BranchFirst(v) == <<v[2], v[1]>> \o (IF Len(v) = 2 THEN <<0>> ELSE <<v[3]>>)

\* createIf: else_body is NULL if there is no else.
IfParts(v) == IF Len(v) = 2 THEN Append(v, 0) ELSE v

Created(rule, v, new) ==
  LET n == Len(v) IN
  CASE rule.act \in {"extern", "decl", "var"} -> <<Name, Object(rule.act, <<new[1]>>)>>
    [] rule.act = "func" /\ n = 2 -> <<Name, Object("func", <<new[1], 0, v[2]>>)>>
    [] rule.act = "func" /\ n = 3 ->
         <<Name, Object("var", <<new[1]>>), Name, Object("func", <<new[3], new[2], v[3]>>)>>
    [] rule.act = "asgn" ->
         <<Name, Object("var", <<new[1]>>), Object("asgn", <<new[2], v[2]>>)>>
    [] rule.act = "call" -> <<Name, Object("call", <<new[1], IF n = 0 THEN 0 ELSE v[1]>>)>>
    [] rule.act = "if" -> <<Object("if", IfParts(v))>>
    [] rule.act = "cnst" -> <<Object("cnst", <<>>)>>
    [] rule.act \in {"pass", "append", "join"} -> <<>>
    [] OTHER -> <<Object(rule.act, v)>>

\* Faulty variant: only the first name of a production is freed.
FirstName(rule, v) == {v[k] : k \in {i \in DOMAIN v : i = 1 /\ rule.rhs[i] = "NAME"}}

\* The names that the scanner has copied are freed when they have been copied again.
FreedNames(rule, v) == {v[k] : k \in {i \in DOMAIN v : rule.rhs[i] = "NAME"}}

\* What is in the list at $1 after the action.
Listed(rule, v) ==
  IF rule.act = "append" THEN Append(heap[v[1]].refs, v[2])
  ELSE heap[v[1]].refs \o heap[v[2]].refs

Result(rule, v, new) ==
  LET created == Len(Created(rule, v, new)) IN IF created = 0 THEN v[1] ELSE new[created]

\* The heap after the action.
Acted(rule, v, new) ==
  LET created == Created(rule, v, new)
      gone == FreedNames(rule, v) \cup (IF rule.act = "join" THEN {v[2]} ELSE {})
  IN  [a \in (DOMAIN heap \ gone) \cup {new[k] : k \in DOMAIN created} |->
         IF a \notin DOMAIN heap THEN created[CHOOSE k \in DOMAIN created : new[k] = a]
         ELSE IF rule.act \in {"append", "join"} /\ a = v[1] THEN Object("list", Listed(rule, v))
         ELSE heap[a]]

(***************************************************************************)
(* Any allocator will do: nodes go to the lowest free addresses, and what  *)
(* the scanner copies goes to the highest, so that it does not matter how  *)
(* early a token is scanned.                                               *)
(***************************************************************************)

Free == Addresses \ DOMAIN heap

Calloc == [k \in 1 .. 4 |-> CHOOSE a \in Free : Cardinality({b \in Free : b < a}) = k - 1]

Strdup == CHOOSE a \in Free : \A b \in Free : b <= a

\* No action allocates more than four objects.
Room == Cardinality(Free) >= 4

Exprs == {"var", "cnst", "bexpr", "uexpr", "rexpr"}

Stmts == {"asgn", "call", "if", "while", "ret", "block", "decl"}

NodesOf(kinds) == Cardinality({a \in DOMAIN heap : heap[a].kind \in kinds})

InBounds(rule) ==
  /\ rule.act \in Stmts \cup {"list"} => NodesOf(Stmts \cup {"list"}) < MaxStmts
  /\ rule.act \in Exprs => NodesOf(Exprs) < MaxExprs
  /\ rule.act \in Exprs \ {"cnst"} => NodesOf(Exprs \ {"cnst"}) < MaxOps

-----------------------------------------------------------------------------
(***************************************************************************)
(* yyparse                                                                 *)
(***************************************************************************)

Parsing == parsed = "no"

Top(s) == s[Len(s)]

\* Faulty variant: only the last symbol is popped.
BelowLast(s, k) == SubSeq(s, 1, Len(s) - (IF k > 1 THEN 1 ELSE k))

Below(s, k) == SubSeq(s, 1, Len(s) - k)

Push(s, symbol, value) ==
  Append(s, [state |-> Goto(Top(s).state, symbol), symbol |-> symbol, value |-> value])

\* yylex returns a NAME; it may be one that cannot come here.
ScanName ==
  /\ Parsing /\ lookahead = 0 /\ Room
  /\ lookahead' = Strdup
  /\ heap' = [a \in DOMAIN heap \cup {Strdup} |-> IF a \in DOMAIN heap THEN heap[a] ELSE Name]
  /\ UNCHANGED <<stack, root, parsed>>

Shift(token, value) ==
  /\ Parsing /\ Goto(Top(stack).state, token) # {}
  /\ stack' = Push(stack, token, value)
  /\ lookahead' = 0
  /\ UNCHANGED <<heap, root, parsed>>

ShiftName == lookahead # 0 /\ Shift("NAME", lookahead)

ShiftNum == lookahead = 0 /\ Shift("NUM", 0)

\* The right-hand side of production p is on the stack.
Complete(p) == Parsing /\ <<p, Len(Rhs(p))>> \in Closure(Top(stack).state)

\* The values of the right-hand side of p.
Args(p) ==
  LET n == Len(Rhs(p)) IN [k \in 1 .. n |-> stack[Len(stack) - n + k].value]

Reduce(p) ==
  /\ Complete(p) /\ p # 1 /\ Room /\ InBounds(Productions[p])
  /\ heap' = Acted(Productions[p], Args(p), Calloc)
  /\ stack' = Push(Below(stack, Len(Rhs(p))), Lhs(p), Result(Productions[p], Args(p), Calloc))
  /\ UNCHANGED <<lookahead, root, parsed>>

\* The action of the start symbol sets root; program itself has no value.
ReduceProgram ==
  /\ Complete(1) /\ Room
  /\ heap' = Acted(Productions[1], Args(1), Calloc)
  /\ root' = Result(Productions[1], Args(1), Calloc)
  /\ stack' = Push(Below(stack, 3), "program", 0)
  /\ UNCHANGED <<lookahead, parsed>>

AcceptInput ==
  /\ Parsing /\ Top(stack).symbol = "program" /\ lookahead = 0
  /\ parsed' = "accepted"
  /\ stack' = <<>>
  /\ UNCHANGED <<lookahead, heap, root>>

\* The symbols with a %type of <node> or <nvec>, and the token with <sval>.
Typed == Symbols \ {"program", "NUM"}

(***************************************************************************)
(* A token that cannot come next, or a stack that cannot grow: Bison pops  *)
(* everything and discards the lookahead, each value with the %destructor  *)
(* of its symbol.                                                          *)
(***************************************************************************)
GiveUp ==
  /\ Parsing
  /\ LET popped == {stack[k].value : k \in {j \in DOMAIN stack : stack[j].symbol \in Typed}}
     IN  heap' = Without(FreedWith((popped \cup {lookahead}) \ {0, root}))
  /\ parsed' = "failed"
  /\ stack' = <<>> /\ lookahead' = 0
  /\ UNCHANGED root

ParserInit ==
  /\ stack = <<[state |-> {<<1, 0>>}, symbol |-> "start", value |-> 0]>>
  /\ lookahead = 0
  /\ heap = [a \in {} |-> 0]
  /\ root = 0
  /\ parsed = "no"

Parse == ScanName \/ ShiftName \/ ShiftNum \/ (\E p \in Rules : Reduce(p)) \/ ReduceProgram
           \/ AcceptInput \/ GiveUp

\* yyparse has returned.
ParserDone == ~Parsing /\ UNCHANGED parservars

ParserNext == Parse \/ ParserDone

ParserSpec == ParserInit /\ [][ParserNext]_parservars

-----------------------------------------------------------------------------

Pointers == Addresses \cup {0}

\* Types.  After every reduction the input goes on somehow: Bison has a state to go to.
ParserTypeOK ==
  /\ \A k \in DOMAIN stack :
       /\ stack[k].state # {} \/ stack[k].symbol = "program"
       /\ \A item \in stack[k].state : item[1] \in Rules /\ item[2] \in 0 .. Len(Rhs(item[1]))
       /\ stack[k].symbol \in Symbols \cup {"start"} /\ stack[k].value \in Pointers
  /\ lookahead \in Pointers /\ root \in Pointers
  /\ DOMAIN heap \subseteq Addresses
  /\ \A a \in DOMAIN heap : heap[a].refs \in Seq(Pointers)
  /\ parsed \in {"no", "accepted", "failed"}

\* The pointers there are, each with its place: in objects, on the stack, in a variable.
References ==
  (UNION {{<<"object", a, k, heap[a].refs[k]>> : k \in DOMAIN heap[a].refs} : a \in DOMAIN heap})
    \cup {<<"stack", 0, k, stack[k].value>> : k \in DOMAIN stack}
    \cup {<<"lookahead", 0, 0, lookahead>>, <<"root", 0, 0, root>>}

(***************************************************************************)
(* Everything allocated and not yet freed is pointed to from one place, so *)
(* that it will be freed, and freed once; what has been freed is pointed   *)
(* to from nowhere.  This holds after every action, and after a syntax     *)
(* error at any point, when only the tree at root may be left.             *)
(***************************************************************************)
OwnedOnce ==
  LET pointing == {r \in References : r[4] # 0}
  IN  /\ {r[4] : r \in pointing} = DOMAIN heap
      /\ Cardinality(pointing) = Cardinality(DOMAIN heap)

\* An integer, and a statement that may be a branch or a body.
Terms == Exprs \ {"rexpr"}
Branches == Stmts \ {"decl"}

\* What the parts of a kind of node are.
PartKinds(kind) ==
  CASE kind = "prog" -> <<{"extern"}, {"extern"}, {"func"}>>
    [] kind = "func" -> <<{"name"}, {"NULL", "var"}, {"block"}>>
    [] kind \in {"extern", "var", "decl"} -> <<{"name"}>>
    [] kind \in {"uexpr", "ret"} -> <<Terms>>
    [] kind \in {"bexpr", "rexpr"} -> <<Terms, Terms>>
    [] kind = "asgn" -> <<{"var"}, Terms \cup {"call"}>>
    [] kind = "call" -> <<{"name"}, Terms \cup {"NULL"}>>
    [] kind = "while" -> <<{"rexpr"}, Branches>>
    [] kind = "if" -> <<{"rexpr"}, Branches, Branches \cup {"NULL"}>>
    [] kind = "block" -> <<{"list"}>>
    [] kind \in {"cnst", "name"} -> <<>>

(***************************************************************************)
(* The parts of every node are of the kinds that the free functions assert *)
(* and that the later stages take for granted without asking: the body of  *)
(* a function is a block, the target of an assignment a variable, a branch *)
(* a statement, declarations come in lists only.                           *)
(***************************************************************************)
Shaped ==
  LET KindAt(a) == IF a = 0 THEN "NULL" ELSE heap[a].kind
  IN  \A a \in DOMAIN heap :
        LET refs == heap[a].refs IN
          IF heap[a].kind = "list"
            THEN \A k \in DOMAIN refs : KindAt(refs[k]) \in Stmts
            ELSE /\ Len(refs) = Len(PartKinds(heap[a].kind))
                 /\ \A k \in DOMAIN refs : KindAt(refs[k]) \in PartKinds(heap[a].kind)[k]
=============================================================================
