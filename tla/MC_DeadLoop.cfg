SPECIFICATION BRSpec
CONSTANTS
  Trees <- DeadLoop
  Idents <- MCIdents
  Values = {0, 1, 2}
  Modulus = 4
  junk = junk
INVARIANT TranslatesAll
