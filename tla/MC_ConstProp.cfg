SPECIFICATION FairCPSpec
CONSTANTS
  Programs <- MCPrograms
  Syms <- MCSyms
INVARIANTS CPTypeOK Solved ReachingExact
PROPERTY Terminates
