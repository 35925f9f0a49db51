SPECIFICATION CGSpec
CONSTANTS
  nullreg = "nullreg"
  none = "none"
  Regs <- AllRegisters
  Syms <- MCSyms
  AllocaSeq <- MCAllocas
  Functions <- ChainFunctions
INVARIANTS ValuesInPlace
PROPERTY ImplementsIR
