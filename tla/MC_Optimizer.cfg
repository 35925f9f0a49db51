SPECIFICATION FairORSpec
CONSTANTS
  Programs <- MCPrograms
  Syms <- MCSyms
  Modulus = 4
  junk = junk
INVARIANTS OptTypeOK UsesAreThere SameEffects Settled FitsBackend FitsCodegen
PROPERTY Optimizes
