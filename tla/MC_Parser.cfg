SPECIFICATION ParserSpec
CONSTANTS
  Addresses <- MCAddresses
  MaxStmts = 5
  MaxExprs = 5
  MaxOps = 2
INVARIANTS ParserTypeOK OwnedOnce Shaped
