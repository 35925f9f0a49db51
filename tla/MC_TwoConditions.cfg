SPECIFICATION FairORSpec
CONSTANTS
  Programs <- TwoConditions
  Syms <- MCSyms
  Modulus = 4
  junk = junk
INVARIANT SameEffects
