-------------------------------- MODULE Scopes --------------------------------
(***************************************************************************)
(* The two walks over the tree before code is generated: the semantic      *)
(* analysis (src/src/analysis.cpp) with its stack of symbol tables, and,   *)
(* for the programs it accepts, the renaming (preprocess,                  *)
(* src/src/ir_builder.cpp:30-154) with a stack of renamings.               *)
(*                                                                         *)
(* todo is the recursion of the code: the nodes still to be visited, and   *)
(* leave where a scope is to be popped.                                    *)
(***************************************************************************)
EXTENDS Ast

VARIABLES
  tree,
  phase,          \* "analysis", then "rejected" or "rename", then "renamed"
  todo,
  symbol_tables,  \* the names declared in each open scope
  error_code,
  renamings,      \* in each open scope: identifier -> new name
  var_counter,    \* how often an identifier has been declared
  name            \* the names of the nodes now

walkvars == <<phase, todo, symbol_tables, error_code, renamings, var_counter, name>>
scopevars == <<tree, walkvars>>

leave == 0

Kids(n) == tree[n].kids

Body == Kids(1)[Len(Kids(1))]

Params == {Kids(1)[k] : k \in 1 .. Len(Kids(1)) - 1}

Is(kinds) == todo # <<>> /\ Head(todo) # leave /\ tree[Head(todo)].kind \in kinds

Visiting == Head(todo)

Ident == tree[Visiting].ident

Leaving == todo # <<>> /\ Head(todo) = leave

\* What is left to do once Head(todo) has been replaced by tasks.
GoOn(tasks) == todo' = tasks \o Tail(todo)

Top(stack) == stack[Len(stack)]

Popped(stack) == SubSeq(stack, 1, Len(stack) - 1)

\* The kinds of nodes whose parts are visited, and nothing else.
Plain == {"asgn", "print", "ret", "while", "if", "cnst", "read", "uexpr", "bexpr", "rexpr"}

-----------------------------------------------------------------------------
(***************************************************************************)
(* semantic_analysis                                                       *)
(***************************************************************************)

Analyzing == phase = "analysis"

unchangedByAnalysis == <<tree, renamings, var_counter, name>>

\* The parameter and the declarations of the body share a scope.
AnalyzeFunc ==
  /\ Analyzing /\ Is({"func"})
  /\ symbol_tables' = Append(symbol_tables, {tree[p].ident : p \in Params})
  /\ GoOn(Kids(Body) \o <<leave>>)
  /\ UNCHANGED <<unchangedByAnalysis, phase, error_code>>

AnalyzeBlock ==
  /\ Analyzing /\ Is({"block"})
  /\ symbol_tables' = Append(symbol_tables, {})
  /\ GoOn(Kids(Visiting) \o <<leave>>)
  /\ UNCHANGED <<unchangedByAnalysis, phase, error_code>>

LeaveTable ==
  /\ Analyzing /\ Leaving
  /\ symbol_tables' = Popped(symbol_tables)
  /\ GoOn(<<>>)
  /\ UNCHANGED <<unchangedByAnalysis, phase, error_code>>

\* Every walk in progress returns, popping its scope.
Reject(code) ==
  /\ error_code' = code
  /\ phase' = "rejected"
  /\ todo' = <<>>
  /\ symbol_tables' = <<>>
  /\ UNCHANGED unchangedByAnalysis

\* Faulty variant: a name of an enclosing scope counts as declared here.
DeclaredAnywhere(x) == \E i \in DOMAIN symbol_tables : x \in symbol_tables[i]

DeclaredHere(x) == x \in Top(symbol_tables)

AnalyzeDecl ==
  /\ Analyzing /\ Is({"decl"})
  /\ IF DeclaredHere(Ident) THEN Reject(2)
     ELSE /\ symbol_tables' =
               [symbol_tables EXCEPT ![Len(symbol_tables)] = @ \cup {Ident}]
          /\ GoOn(<<>>)
          /\ UNCHANGED <<unchangedByAnalysis, phase, error_code>>

AnalyzeVar ==
  /\ Analyzing /\ Is({"var"})
  /\ IF \E i \in DOMAIN symbol_tables : Ident \in symbol_tables[i]
     THEN GoOn(<<>>) /\ UNCHANGED <<unchangedByAnalysis, phase, symbol_tables, error_code>>
     ELSE Reject(1)

AnalyzeParts ==
  /\ Analyzing /\ Is(Plain)
  /\ GoOn(Kids(Visiting))
  /\ UNCHANGED <<unchangedByAnalysis, phase, symbol_tables, error_code>>

\* error_code is 0: build_ir starts with the renaming.
Accept ==
  /\ Analyzing /\ todo = <<>>
  /\ phase' = "rename"
  /\ todo' = <<1>>
  /\ UNCHANGED <<unchangedByAnalysis, symbol_tables, error_code>>

Analyze == AnalyzeFunc \/ AnalyzeBlock \/ LeaveTable \/ AnalyzeDecl \/ AnalyzeVar
             \/ AnalyzeParts \/ Accept

-----------------------------------------------------------------------------
(***************************************************************************)
(* preprocess                                                              *)
(***************************************************************************)

Renaming == phase = "rename"

unchangedByRenaming == <<tree, symbol_tables, error_code>>

With(f, x, v) == [y \in DOMAIN f \cup {x} |-> IF y = x THEN v ELSE f[y]]

NoNames == [x \in {} |-> <<>>]

\* "x.0", "x.1" and so on.
Fresh(x) == <<x, var_counter[x]>>

\* Node n declares its identifier in the innermost scope of stack.
Declare(n, stack) ==
  LET x == tree[n].ident IN
    /\ name' = [name EXCEPT ![n] = Fresh(x)]
    /\ renamings' = [stack EXCEPT ![Len(stack)] = With(@, x, Fresh(x))]
    /\ var_counter' = [var_counter EXCEPT ![x] = @ + 1]

\* Faulty variant: without a parameter there is no scope for the body.
RenameFuncWithParam ==
  /\ Renaming /\ Is({"func"})
  /\ LET stack == Append(renamings, NoNames) IN
       IF Params = {} THEN UNCHANGED <<renamings, var_counter, name>>
                      ELSE \E p \in Params : Declare(p, stack)
  /\ GoOn(Kids(Body) \o <<leave>>)
  /\ UNCHANGED <<unchangedByRenaming, phase>>

RenameFunc ==
  /\ Renaming /\ Is({"func"})
  /\ LET stack == Append(renamings, NoNames) IN
       IF Params = {} THEN renamings' = stack /\ UNCHANGED <<var_counter, name>>
                      ELSE \E p \in Params : Declare(p, stack)
  /\ GoOn(Kids(Body) \o <<leave>>)
  /\ UNCHANGED <<unchangedByRenaming, phase>>

RenameBlock ==
  /\ Renaming /\ Is({"block"})
  /\ renamings' = Append(renamings, NoNames)
  /\ GoOn(Kids(Visiting) \o <<leave>>)
  /\ UNCHANGED <<unchangedByRenaming, phase, var_counter, name>>

\* Faulty variant: the scope stays.
KeepScope == /\ Renaming /\ Leaving
             /\ GoOn(<<>>)
             /\ UNCHANGED <<unchangedByRenaming, phase, renamings, var_counter, name>>

LeaveScope ==
  /\ Renaming /\ Leaving
  /\ renamings' = Popped(renamings)
  /\ GoOn(<<>>)
  /\ UNCHANGED <<unchangedByRenaming, phase, var_counter, name>>

RenameDecl ==
  /\ Renaming /\ Is({"decl"})
  /\ Declare(Visiting, renamings)
  /\ GoOn(<<>>)
  /\ UNCHANGED <<unchangedByRenaming, phase>>

\* Faulty variant: the scopes are searched from the outermost one.
FoundOutermost(i, x) ==
  /\ x \in DOMAIN renamings[i]
  /\ \A j \in 1 .. i - 1 : x \notin DOMAIN renamings[j]

\* Scope i is the first one that knows x, counted from the innermost.
FoundIn(i, x) ==
  /\ x \in DOMAIN renamings[i]
  /\ \A j \in i + 1 .. Len(renamings) : x \notin DOMAIN renamings[j]

\* A name that no scope knows would be left as it is.
RenameVar ==
  /\ Renaming /\ Is({"var"})
  /\ \/ \E i \in DOMAIN renamings :
          /\ FoundIn(i, Ident)
          /\ name' = [name EXCEPT ![Visiting] = renamings[i][Ident]]
     \/ /\ \A i \in DOMAIN renamings : Ident \notin DOMAIN renamings[i]
        /\ UNCHANGED name
  /\ GoOn(<<>>)
  /\ UNCHANGED <<unchangedByRenaming, phase, renamings, var_counter>>

RenameParts ==
  /\ Renaming /\ Is(Plain)
  /\ GoOn(Kids(Visiting))
  /\ UNCHANGED <<unchangedByRenaming, phase, renamings, var_counter, name>>

EndRenaming ==
  /\ Renaming /\ todo = <<>>
  /\ phase' = "renamed"
  /\ UNCHANGED <<unchangedByRenaming, todo, renamings, var_counter, name>>

Rename == RenameFunc \/ RenameBlock \/ LeaveScope \/ RenameDecl \/ RenameVar
            \/ RenameParts \/ EndRenaming

-----------------------------------------------------------------------------

ScopesInit ==
  /\ tree \in Trees
  /\ phase = "analysis"
  /\ todo = <<1>>
  /\ symbol_tables = <<>>
  /\ error_code = 0
  /\ renamings = <<>>
  /\ var_counter = [x \in Idents |-> 0]
  /\ name = [n \in DOMAIN tree |-> <<tree[n].ident>>]

\* The compiler goes on with the tree, or stops at the error.
ScopesDone == phase \in {"rejected", "renamed"} /\ UNCHANGED scopevars

ScopesNext == Analyze \/ Rename \/ ScopesDone

ScopesSpec == ScopesInit /\ [][ScopesNext]_scopevars

-----------------------------------------------------------------------------

(***************************************************************************)
(* Types.  Whenever a declaration is visited a scope is open: both walks   *)
(* look at the back of their stack without asking whether it is empty.     *)
(***************************************************************************)
ScopesTypeOK ==
  /\ tree \in Seq(Node)
  /\ phase \in {"analysis", "rejected", "rename", "renamed"}
  /\ todo \in Seq({leave} \cup DOMAIN tree)
  /\ symbol_tables \in Seq(SUBSET Idents)
  /\ error_code \in 0 .. 2
  /\ \A i \in DOMAIN renamings : DOMAIN renamings[i] \subseteq Idents
  /\ var_counter \in [Idents -> Nat]
  /\ DOMAIN name = DOMAIN tree
  /\ Is({"decl"}) => (IF Analyzing THEN symbol_tables # <<>> ELSE renamings # <<>>)

-----------------------------------------------------------------------------
(***************************************************************************)
(* Scoping as the language has it, said with the positions in the text and *)
(* without any stack.                                                      *)
(***************************************************************************)

Uses == {n \in DOMAIN tree : tree[n].kind = "var"}

Decls == {n \in DOMAIN tree : tree[n].kind \in {"param", "decl"}}

Parent(n) == CHOOSE p \in Parents(tree, n) : TRUE

\* A node and all nodes it is inside of: nothing outside of them starts before it does.
Around(n) == {a \in 1 .. n : \A m \in a + 1 .. n : Parent(m) >= a}

\* The block, or the function, that a declaration belongs to.
ScopeOf(d) == IF Parent(d) = Body THEN 1 ELSE Parent(d)

\* The declarations that a use of the identifier at n could refer to.
Visible(n) ==
  {d \in Decls : d < n /\ tree[d].ident = tree[n].ident /\ ScopeOf(d) \in Around(n)}

\* The one it does refer to is the last one in the text.
Binds(d, n) == d \in Visible(n) /\ \A e \in Visible(n) : e <= d

Undeclared(n) == n \in Uses /\ Visible(n) = {}

DeclaredTwice(n) == n \in Decls /\ \E d \in Visible(n) : ScopeOf(d) = ScopeOf(n)

Wrong(n) == Undeclared(n) \/ DeclaredTwice(n)

(***************************************************************************)
(* The analysis accepts a program if every use has a declaration and no    *)
(* scope declares a name twice; otherwise it reports what is wrong first   *)
(* in the text ("variable used before declaration", 1, or "variable        *)
(* declared twice in one scope", 2, src/src/analysis.cpp:130-134).         *)
(***************************************************************************)
Verdict ==
  /\ phase \in {"rename", "renamed"} => error_code = 0 /\ \A n \in DOMAIN tree : ~Wrong(n)
  /\ phase = "rejected" => \E n \in DOMAIN tree :
       /\ Wrong(n) /\ \A m \in 1 .. n - 1 : ~Wrong(m)
       /\ error_code = IF Undeclared(n) THEN 1 ELSE 2

(***************************************************************************)
(* After the renaming a use has the name of the declaration it refers to,  *)
(* and of no other: names found by another stack than the one the analysis *)
(* used, shadowing, and equal names in scopes side by side included.       *)
(***************************************************************************)
Resolved ==
  phase = "renamed" =>
    \A n \in Uses, d \in Decls : name[n] = name[d] <=> Binds(d, n)
=============================================================================
