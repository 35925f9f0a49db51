SPECIFICATION BRSpec
CONSTANTS
  Trees <- MCTrees
  Idents <- MCIdents
  Values = {0, 1, 2}
  Modulus = 4
  junk = junk
INVARIANTS IRTypeOK WellEnded FitsOptimizer SameAsSource
