SPECIFICATION Spec
CONSTANTS
  x = x
  r1 = r1
  r2 = r2
  nullreg = nullreg
  none = none
  Syms <- MCSyms
  Regs <- MCRegs
  Functions <- MCFunctions
SYMMETRY Symmetry
INVARIANTS TypeOK NoClobber PoolExact VictimExists
PROPERTY SpillsLatest
