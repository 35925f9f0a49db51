SPECIFICATION CGSpec
CONSTANTS
  nullreg = "nullreg"
  none = "none"
  Regs <- TwoRegisters
  Syms <- MCSyms
  AllocaSeq <- MCAllocas
  Functions <- SmallFunctions
INVARIANTS CGTypeOK ValuesInPlace CallsAligned CalleeSaved
PROPERTY ImplementsIR
