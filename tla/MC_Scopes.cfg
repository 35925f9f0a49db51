SPECIFICATION ScopesSpec
CONSTANTS
  Trees <- MCTrees
  Idents <- MCIdents
  Values = {0}
INVARIANTS ScopesTypeOK Verdict Resolved
