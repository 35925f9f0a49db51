SPECIFICATION DriverSpec
CONSTANTS
  Addresses <- MCAddresses
  MaxStmts = 3
  MaxExprs = 3
  MaxOps = 3
INVARIANTS DriverTypeOK ReleasedAtExit StatusTells
