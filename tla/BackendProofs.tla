---------------------------- MODULE BackendProofs ----------------------------
(***************************************************************************)
(* The register allocator and the emitted code are correct for every       *)
(* function, every set of registers and every order of the variables.      *)
(* First the allocator alone; its invariant, and NoClobber above all, is   *)
(* then used for the code.                                                 *)
(***************************************************************************)
EXTENDS Codegen, FiniteSetTheorems, NaturalsInduction, WellFoundedInduction, TLAPS

-----------------------------------------------------------------------------
(***************************************************************************)
(* The register allocator is correct for every function and every set of   *)
(* registers.  The inductive invariant says what live_range means while    *)
(* the block is scanned (ScanOK) and when it has been (RangesOK), which    *)
(* instructions have an entry in reg_map (MapOK), and that the pool and    *)
(* the sharing of registers are right (PoolExact, NoClobber).              *)
(***************************************************************************)

Block == BlockOf(first)

\* The current block starts at first, and pc walks through it.
CursorOK ==
  /\ phase \in {"enter", "scan", "alloc"} => first \in DOMAIN fn
  /\ \A i \in DOMAIN fn : i < first /\ first \in DOMAIN fn => fn[i].bb # fn[first].bb
  /\ phase \in {"scan", "alloc"} => pc \in Block /\ first <= pc /\ DOMAIN live_range = Block
  /\ phase = "scan" => available = Regs
  /\ phase = "done" => first = Len(fn) + 1

\* live_range[u] is u, or the last use of u before the scan's position.
ScanOK == phase = "scan" => \A u \in Block :
  /\ live_range[u] \in Block
  /\ u <= live_range[u]
  /\ live_range[u] = u \/ u \in Operands(live_range[u])
  /\ \A j \in DOMAIN fn : j < pc /\ u \in Operands(j) => j <= live_range[u]

\* live_range[u] is the last use of u, if it has one.
RangesOK == phase = "alloc" => \A u \in Block :
  /\ live_range[u] \in Block
  /\ u <= live_range[u]
  /\ live_range[u] = u \/ u \in Operands(live_range[u])
  /\ \A j \in DOMAIN fn : u \in Operands(j) => j <= live_range[u]

Frontier == IF phase = "alloc" THEN pc ELSE first

\* Entries of reg_map belong to values that have been reached.
MapOK == \A i \in DOMAIN fn :
  reg_map[i] # none => i < Frontier /\ fn[i].op \in ValueOps

IInv == TypeOK /\ CursorOK /\ ScanOK /\ RangesOK /\ MapOK /\ NoClobber /\ PoolExact

-----------------------------------------------------------------------------

\* What WellFormed(fn) says, in the form the steps below use.
LEMMA FunctionFacts ==
  ASSUME WellFormed(fn)
  PROVE  /\ Len(fn) \in Nat /\ Len(fn) >= 1
         /\ DOMAIN fn = 1 .. Len(fn)
         /\ \A i \in DOMAIN fn : fn[i].bb \in Nat
         /\ \A i \in DOMAIN fn : fn[i].op \in ValueOps \cup SinkOps
         /\ \A i, j \in DOMAIN fn : i <= j => fn[i].bb <= fn[j].bb
         /\ \A i \in DOMAIN fn : fn[i].op \in ArithOps => fn[i].args[1] \in Operands(i)
         /\ \A i \in DOMAIN fn : Operands(i) \subseteq Int
         /\ \A i \in DOMAIN fn : \A v \in Operands(i) : v > 0 =>
              v \in DOMAIN fn /\ v < i /\ fn[v].bb = fn[i].bb /\ fn[v].op \in ValueOps
         /\ \A i \in DOMAIN fn : fn[i].op \in ValueOps =>
              \E j \in DOMAIN fn : i \in Operands(j)
<1>1. fn \in Seq(Instr) /\ fn # <<>>
  BY DEF WellFormed
<1>2. Len(fn) \in Nat /\ DOMAIN fn = 1 .. Len(fn) /\ Len(fn) >= 1
  BY <1>1
<1>3. \A i \in DOMAIN fn : fn[i] \in Instr
  BY <1>1, <1>2
<1>4. \A i \in DOMAIN fn : fn[i].bb \in Nat /\ fn[i].op \in ValueOps \cup SinkOps
                            /\ fn[i].args \in Seq(Int)
  BY <1>3 DEF Instr
<1>5. \A i \in DOMAIN fn : Operands(i) \subseteq Int
  <2> SUFFICES ASSUME NEW i \in DOMAIN fn, NEW k \in DOMAIN fn[i].args
               PROVE  fn[i].args[k] \in Int
    BY DEF Operands, ArgsOf
  <2> QED BY <1>4
<1>6. \A i \in DOMAIN fn : fn[i].op \in ArithOps => fn[i].args[1] \in Operands(i)
  <2> SUFFICES ASSUME NEW i \in DOMAIN fn, fn[i].op \in ArithOps
               PROVE  fn[i].args[1] \in Operands(i)
    OBVIOUS
  <2>1. Len(fn[i].args) = 2
    BY DEF WellFormed
  <2>2. 1 \in DOMAIN fn[i].args
    BY <2>1, <1>4
  <2> QED BY <2>2 DEF Operands, ArgsOf
<1>7. \A i \in DOMAIN fn : \A v \in Operands(i) : v > 0 =>
        v \in DOMAIN fn /\ v < i /\ fn[v].bb = fn[i].bb /\ fn[v].op \in ValueOps
  <2> SUFFICES ASSUME NEW i \in DOMAIN fn, NEW v \in Operands(i), v > 0
               PROVE  v \in DOMAIN fn /\ v < i /\ fn[v].bb = fn[i].bb /\ fn[v].op \in ValueOps
    OBVIOUS
  <2>1. v < i /\ fn[v].bb = fn[i].bb /\ fn[v].op \in ValueOps
    BY DEF WellFormed, Operands
  <2> QED BY <2>1, <1>2, <1>5
<1> QED BY <1>2, <1>4, <1>5, <1>6, <1>7 DEF WellFormed, Operands

\* The blocks of a function are intervals.
LEMMA NextBlock ==
  ASSUME WellFormed(fn), NEW i \in DOMAIN fn, LastInBlock(i), i # Len(fn)
  PROVE  /\ i + 1 \in DOMAIN fn
         /\ \A k \in DOMAIN fn : k < i + 1 => fn[k].bb # fn[i + 1].bb
<1>1. i + 1 \in DOMAIN fn
  BY FunctionFacts
<1>2. fn[i].bb < fn[i + 1].bb
  BY <1>1, FunctionFacts DEF LastInBlock
<1>3. \A k \in DOMAIN fn : k < i + 1 => fn[k].bb <= fn[i].bb
  BY FunctionFacts
<1> QED BY <1>1, <1>2, <1>3, FunctionFacts

\* Inside a block the walk stays in the block.
LEMMA SameBlock ==
  ASSUME WellFormed(fn), NEW i \in Block, ~LastInBlock(i)
  PROVE  i + 1 \in Block
BY FunctionFacts DEF Block, BlockOf, LastInBlock

\* A value of the current block is used after its definition.
LEMMA RangeBeyond ==
  ASSUME WellFormed(fn), RangesOK, phase = "alloc", first \in DOMAIN fn,
         NEW u \in Block, fn[u].op \in ValueOps
  PROVE  live_range[u] > u
<1>1. PICK j \in DOMAIN fn : u \in Operands(j)
  BY FunctionFacts DEF Block, BlockOf
<1>2. u > 0 /\ u < j
  BY <1>1, FunctionFacts DEF Block, BlockOf
<1> QED BY <1>1, <1>2, FunctionFacts DEF RangesOK, Block, BlockOf

\* At most one value that is still needed is in a given register.
LEMMA UniqueHolder ==
  ASSUME IInv, phase = "alloc",
         NEW u \in Block, NEW w \in Block, u < pc, w < pc,
         reg_map[u] \in Regs, reg_map[u] = reg_map[w],
         live_range[u] >= pc, live_range[w] >= pc
  PROVE  u = w
<1>1. SUFFICES ASSUME NEW a \in Block, NEW b \in Block, a < b, b < pc,
                      reg_map[a] \in Regs, reg_map[a] = reg_map[b], live_range[a] >= pc
               PROVE  FALSE
  BY <1>1, FunctionFacts DEF IInv, TypeOK, Block, BlockOf
<1>2. ~UsedLater(a, b)
  BY <1>1 DEF IInv, NoClobber, Block, BlockOf
<1>3. /\ live_range[a] \in DOMAIN fn
      /\ live_range[a] = a \/ a \in Operands(live_range[a])
  BY <1>1 DEF IInv, RangesOK, Block, BlockOf
<1>4. a \in Int /\ b \in Int /\ pc \in Int /\ live_range[a] \in Int
  BY <1>3, FunctionFacts DEF IInv, TypeOK, Block, BlockOf
<1>5. live_range[a] > b /\ a \in Operands(live_range[a])
  BY <1>1, <1>3, <1>4
<1> QED BY <1>2, <1>3, <1>5 DEF UsedLater

-----------------------------------------------------------------------------

\* No register is taken yet, and no value has one.
LEMMA InitIInv == Init => IInv
<1> SUFFICES ASSUME Init PROVE IInv
  OBVIOUS
<1>1. WellFormed(fn)
  BY FunctionsAssumption DEF Init
<1>2. 1 \in DOMAIN fn /\ \A i \in DOMAIN fn : ~(i < 1)
  BY <1>1, FunctionFacts
<1>3. TypeOK
  BY <1>1, <1>2, FunctionFacts DEF Init, TypeOK
<1>4. NoClobber
  BY RegistersAssumption DEF Init, NoClobber
<1> QED BY <1>2, <1>3, <1>4
        DEF Init, IInv, CursorOK, ScanOK, RangesOK, MapOK, PoolExact

\* The invariant depends on the variables only.
LEMMA StutterIInv == IInv /\ UNCHANGED vars => IInv'
BY DEF IInv, vars, TypeOK, CursorOK, ScanOK, RangesOK, MapOK, NoClobber, PoolExact,
       Block, BlockOf, Frontier, Operands, UsedLater, LiveHolders

\* A new block starts with the full pool and ranges of one point.
LEMMA EnterIInv == IInv /\ EnterBlock => IInv'
<1> SUFFICES ASSUME IInv, EnterBlock PROVE IInv'
  OBVIOUS
<1> USE DEF EnterBlock
<1>1. WellFormed(fn)
  BY DEF IInv, TypeOK
<1>2. TypeOK'
  BY <1>1, FunctionFacts DEF IInv, TypeOK, BlockOf
<1>3. CursorOK'
  BY <1>1, FunctionFacts DEF IInv, CursorOK, Block, BlockOf
<1>4. ScanOK'
  <2>1. \A j \in DOMAIN fn : \A u \in Block : u \in Operands(j) => u < j /\ fn[u].bb = fn[j].bb
    BY <1>1, FunctionFacts DEF Block, BlockOf
  <2>2. \A j \in DOMAIN fn : j < first => fn[j].bb # fn[first].bb
    BY DEF IInv, CursorOK
  <2>3. \A j \in DOMAIN fn : \A u \in Block : j < first => u \notin Operands(j)
    BY <2>1, <2>2 DEF Block, BlockOf
  <2>4. \A u \in Block : live_range'[u] = u
    BY DEF Block
  <2> QED BY <2>3, <2>4, <1>1, FunctionFacts DEF ScanOK, Block, BlockOf, Operands
<1>5. RangesOK' /\ PoolExact'
  BY DEF RangesOK, PoolExact
<1>6. MapOK'
  BY DEF IInv, MapOK, Frontier
<1>7. NoClobber'
  BY DEF IInv, NoClobber, UsedLater, Operands
<1> QED BY <1>2, <1>3, <1>4, <1>5, <1>6, <1>7 DEF IInv

\* Scanning an instruction extends the ranges of its operands to it.
LEMMA ScanIInv == IInv /\ ScanUses => IInv'
<1> SUFFICES ASSUME IInv, ScanUses PROVE IInv'
  OBVIOUS
<1> USE DEF ScanUses
<1>1. WellFormed(fn)
  BY DEF IInv, TypeOK
<1>2. /\ first \in DOMAIN fn /\ pc \in Block /\ first <= pc /\ DOMAIN live_range = Block
      /\ pc \in DOMAIN fn /\ Block \subseteq DOMAIN fn /\ Block' = Block
  BY DEF IInv, CursorOK, Block, BlockOf
<1>3. first \in Block
  BY <1>2 DEF Block, BlockOf
<1>4. TypeOK'
  BY <1>1, <1>2, FunctionFacts DEF IInv, TypeOK
<1>5. CursorOK'
  <2>1. CASE LastInBlock(pc)
    BY <2>1, <1>1, <1>2, <1>3, FunctionFacts DEF IInv, CursorOK
  <2>2. CASE ~LastInBlock(pc)
    <3>1. pc + 1 \in Block
      BY <1>1, <1>2, <2>2, SameBlock
    <3> QED BY <3>1, <2>2, <1>1, <1>2, <1>3, FunctionFacts DEF IInv, CursorOK
  <2> QED BY <2>1, <2>2
\* What the entry of u says once instruction pc has been scanned.
<1>6. ASSUME NEW u \in Block
      PROVE  /\ live_range'[u] \in Block
             /\ u <= live_range'[u]
             /\ live_range'[u] = u \/ u \in Operands(live_range'[u])
             /\ \A j \in DOMAIN fn : j <= pc /\ u \in Operands(j) => j <= live_range'[u]
  <2>1. CASE u \in Operands(pc)
    <3>1. live_range'[u] = pc
      BY <2>1, <1>2
    <3>2. u < pc
      BY <2>1, <1>1, <1>2, FunctionFacts
    <3> QED BY <3>1, <3>2, <2>1, <1>1, <1>2, FunctionFacts
  <2>2. CASE u \notin Operands(pc)
    <3>1. live_range'[u] = live_range[u]
      BY <2>2, <1>2
    <3>2. \A j \in DOMAIN fn : j <= pc /\ u \in Operands(j) => j < pc
      BY <2>2, <1>1, <1>2, FunctionFacts
    <3> QED BY <3>1, <3>2, <1>2 DEF IInv, ScanOK
  <2> QED BY <2>1, <2>2
<1>7. ScanOK'
  <2>1. CASE LastInBlock(pc)
    BY <2>1 DEF ScanOK
  <2>2. CASE ~LastInBlock(pc)
    <3>1. \A j \in DOMAIN fn : j < pc + 1 => j <= pc
      BY <1>1, <1>2, FunctionFacts
    <3> QED BY <3>1, <2>2, <1>2, <1>6 DEF ScanOK, Operands
  <2> QED BY <2>1, <2>2
<1>8. RangesOK'
  <2>1. CASE LastInBlock(pc)
    <3>1. \A j \in DOMAIN fn, u \in Block : u \in Operands(j) => j <= pc
      <4> SUFFICES ASSUME NEW j \in DOMAIN fn, NEW u \in Block, u \in Operands(j), j > pc
                   PROVE  FALSE
        BY <1>1, <1>2, FunctionFacts
      <4>1. fn[j].bb = fn[u].bb /\ fn[u].bb = fn[pc].bb
        BY <1>1, <1>2, FunctionFacts DEF Block, BlockOf
      <4>2. pc + 1 \in DOMAIN fn /\ pc + 1 <= j /\ pc <= pc + 1
        BY <1>1, <1>2, FunctionFacts
      <4>3. fn[pc].bb <= fn[pc + 1].bb /\ fn[pc + 1].bb <= fn[j].bb
        BY <4>2, <1>1, <1>2, FunctionFacts
      <4>4. fn[pc + 1].bb = fn[pc].bb
        BY <4>1, <4>2, <4>3, <1>1, <1>2, FunctionFacts
      <4> QED BY <4>2, <4>4, <2>1, <1>1, FunctionFacts DEF LastInBlock
    <3> QED BY <3>1, <2>1, <1>2, <1>6 DEF RangesOK, Operands
  <2>2. CASE ~LastInBlock(pc)
    BY <2>2 DEF RangesOK
  <2> QED BY <2>1, <2>2
<1>9. MapOK'
  <2>1. Frontier' = first /\ Frontier = first
    BY DEF Frontier
  <2> QED BY <2>1 DEF IInv, MapOK
<1>10. NoClobber'
  BY DEF IInv, NoClobber, UsedLater, Operands
<1>11. PoolExact'
  <2> SUFFICES ASSUME LastInBlock(pc), NEW r \in Regs
               PROVE  r \in available' <=> LiveHolders(r)' = {}
    BY DEF PoolExact
  <2>1. LiveHolders(r)' = {}
    BY <1>2 DEF LiveHolders, IInv, CursorOK, BlockOf
  <2>2. r \in available
    BY DEF IInv, CursorOK
  <2> QED BY <2>1, <2>2
<1> QED BY <1>4, <1>5, <1>7, <1>8, <1>9, <1>10, <1>11 DEF IInv

-----------------------------------------------------------------------------

\* Where the walk is while it assigns registers.
LEMMA AllocFacts ==
  ASSUME IInv, Allocating
  PROVE  /\ WellFormed(fn)
         /\ Len(fn) \in Nat /\ DOMAIN fn = 1 .. Len(fn)
         /\ first \in DOMAIN fn /\ pc \in DOMAIN fn /\ pc \in Block /\ first <= pc
         /\ DOMAIN live_range = Block /\ Block \subseteq DOMAIN fn
         /\ \A u \in Block : live_range[u] \in DOMAIN fn
         /\ reg_map \in [DOMAIN fn -> Regs \cup {nullreg, none}]
         /\ \A u \in DOMAIN fn : reg_map[u] \in Regs => u < pc
         /\ reg_map[pc] = none
<1>1. WellFormed(fn)
  BY DEF IInv, TypeOK
<1>2. first \in DOMAIN fn /\ pc \in Block /\ first <= pc /\ DOMAIN live_range = Block
  BY DEF IInv, CursorOK, Allocating
<1>3. Block \subseteq DOMAIN fn
  BY DEF Block, BlockOf
<1>4. \A u \in Block : live_range[u] \in DOMAIN fn
  BY <1>2 DEF IInv, TypeOK
<1>5. reg_map \in [DOMAIN fn -> Regs \cup {nullreg, none}]
  BY DEF IInv, TypeOK
<1>6. Frontier = pc
  BY DEF Frontier, Allocating
<1>7. \A u \in DOMAIN fn : reg_map[u] \in Regs => u < pc
  BY <1>6, RegistersAssumption DEF IInv, MapOK
<1>8. reg_map[pc] = none
  BY <1>1, <1>2, <1>3, <1>6, FunctionFacts DEF IInv, MapOK
<1> QED BY <1>1, <1>2, <1>3, <1>4, <1>5, <1>7, <1>8, FunctionFacts

\* A dying operand is a value of this block, computed before pc.
LEMMA DyingFacts ==
  ASSUME IInv, Allocating, NEW o \in Operands(pc), DiesAt(o, pc)
  PROVE  o \in Block /\ o < pc /\ live_range[o] = pc
<1>1. o \in Block /\ live_range[o] = pc
  BY AllocFacts DEF DiesAt
<1> QED BY <1>1, AllocFacts, FunctionFacts

(***************************************************************************)
(* The part of the invariant that every step of the allocation loop keeps  *)
(* in the same way: reg_map changes at pc, other entries at most become    *)
(* nullreg, and a register given to pc holds nothing that is still needed. *)
(***************************************************************************)
LEMMA AssignStep ==
  ASSUME IInv, Allocating, NextInstr,
         reg_map' \in [DOMAIN fn -> Regs \cup {nullreg, none}],
         available' \subseteq Regs,
         \A i \in DOMAIN fn : i # pc =>
            reg_map'[i] = reg_map[i] \/ (reg_map[i] \in Regs /\ reg_map'[i] = nullreg),
         reg_map'[pc] # none => fn[pc].op \in ValueOps,
         \A u \in Block : (u < pc /\ reg_map'[pc] \in Regs /\ reg_map'[u] = reg_map'[pc])
            => \/ live_range[u] < pc
               \/ live_range[u] = pc /\ fn[pc].op \in ArithOps /\ fn[pc].args[1] = u
  PROVE  TypeOK' /\ CursorOK' /\ ScanOK' /\ RangesOK' /\ MapOK' /\ NoClobber'
<1> USE AllocFacts
<1>0. UNCHANGED <<fn, live_range>> /\ pc' = pc + 1
  BY DEF NextInstr
<1>1. TypeOK'
  <2>1. first' \in 1 .. Len(fn) + 1
    BY <1>0 DEF NextInstr, IInv, TypeOK
  <2>2. phase' \in {"enter", "scan", "alloc", "done"}
    BY <1>0 DEF NextInstr, IInv, TypeOK
  <2> QED BY <2>1, <2>2, <1>0 DEF IInv, TypeOK
<1>2. CursorOK'
  <2>1. CASE ~LastInBlock(pc)
    <3>1. pc + 1 \in Block
      BY <2>1, SameBlock
    <3>2. UNCHANGED <<first, phase>>
      BY <2>1 DEF NextInstr
    <3> QED BY <3>1, <3>2, <1>0 DEF CursorOK, IInv, Block, BlockOf, Allocating
  <2>2. CASE LastInBlock(pc) /\ pc = Len(fn)
    BY <2>2, <1>0 DEF NextInstr, CursorOK
  <2>3. CASE LastInBlock(pc) /\ pc # Len(fn)
    <3>1. first' = pc + 1 /\ phase' = "enter"
      BY <2>3 DEF NextInstr
    <3> QED BY <2>3, <3>1, <1>0, NextBlock DEF CursorOK
  <2> QED BY <2>1, <2>2, <2>3
<1>3. ScanOK' /\ RangesOK'
  <2>1. CASE ~LastInBlock(pc)
    <3>1. UNCHANGED <<first, phase>>
      BY <2>1 DEF NextInstr
    <3> QED BY <3>1, <1>0 DEF ScanOK, RangesOK, IInv, Block, BlockOf, Allocating, Operands
  <2>2. CASE LastInBlock(pc)
    BY <2>2 DEF NextInstr, ScanOK, RangesOK
  <2> QED BY <2>1, <2>2
<1>4. MapOK'
  <2>1. Frontier' = pc + 1
    BY <1>0 DEF Frontier, NextInstr, Allocating
  <2> SUFFICES ASSUME NEW i \in DOMAIN fn, reg_map'[i] # none
               PROVE  i < pc + 1 /\ fn[i].op \in ValueOps
    BY <2>1, <1>0 DEF MapOK
  <2>2. CASE i = pc
    BY <2>2
  <2>3. CASE i # pc
    <3>1. reg_map[i] # none
      BY <2>3, RegistersAssumption
    <3>2. i < pc /\ fn[i].op \in ValueOps
      BY <3>1 DEF IInv, MapOK, Frontier, Allocating
    <3> QED BY <3>2
  <2> QED BY <2>2, <2>3
<1>5. NoClobber'
  <2> SUFFICES ASSUME NEW u \in DOMAIN fn, NEW v \in DOMAIN fn, u < v, fn[u].bb = fn[v].bb,
                      reg_map'[u] \in Regs, reg_map'[u] = reg_map'[v]
               PROVE  /\ ~UsedLater(u, v)
                      /\ u \in Operands(v) => fn[v].op \in ArithOps /\ fn[v].args[1] = u
    BY <1>0 DEF NoClobber, UsedLater, Operands
  <2>1. CASE v = pc
    <3>1. u \in Block /\ u < pc
      BY <2>1 DEF Block, BlockOf
    <3>2. \/ live_range[u] < pc
          \/ live_range[u] = pc /\ fn[pc].op \in ArithOps /\ fn[pc].args[1] = u
      BY <2>1, <3>1
    <3>3. \A j \in DOMAIN fn : u \in Operands(j) => j <= live_range[u]
      BY <3>1 DEF IInv, RangesOK, Allocating
    <3> QED BY <2>1, <3>1, <3>2, <3>3 DEF UsedLater
  <2>2. CASE u = pc
    <3>1. v # pc /\ reg_map[v] \in Regs
      BY <2>2, RegistersAssumption
    <3> QED BY <2>2, <3>1
  <2>3. CASE u # pc /\ v # pc
    <3>1. reg_map[u] \in Regs /\ reg_map[u] = reg_map[v]
      BY <2>3, RegistersAssumption
    <3> QED BY <3>1 DEF IInv, NoClobber
  <2> QED BY <2>1, <2>2, <2>3
<1> QED BY <1>1, <1>2, <1>3, <1>4, <1>5

\* A freed register held the operand that dies at pc, and nothing else.
LEMMA FreedFacts ==
  ASSUME IInv, Allocating, NEW k, NEW r \in Regs, r # k
  PROVE  r \in Freed(pc, k) <=>
           \E o \in Block : o < pc /\ reg_map[o] = r /\ live_range[o] = pc
<1> USE AllocFacts
<1>1. ASSUME r \in Freed(pc, k)
      PROVE  \E o \in Block : o < pc /\ reg_map[o] = r /\ live_range[o] = pc
  <2>1. PICK o \in Operands(pc) : DiesAt(o, pc) /\ reg_map[o] = r
    BY <1>1 DEF Freed
  <2> QED BY <2>1, DyingFacts
<1>2. ASSUME NEW o \in Block, o < pc, reg_map[o] = r, live_range[o] = pc
      PROVE  r \in Freed(pc, k)
  <2>1. o \in Operands(pc)
    BY <1>2 DEF IInv, RangesOK, Allocating
  <2> QED BY <2>1, <1>2 DEF Freed, DiesAt, InRegister
<1> QED BY <1>1, <1>2

(***************************************************************************)
(* The pool stays exact when the operands dying at pc give their registers *)
(* back and the register k, if it is one, is kept for pc.                  *)
(***************************************************************************)
LEMMA PoolStep ==
  ASSUME IInv, Allocating, NextInstr, NEW k,
         \A r \in Regs : r # k => (r \in available' <=> r \in available \/ r \in Freed(pc, k)),
         \A r \in Regs : r # k => \A u \in Block : reg_map'[u] = r <=> reg_map[u] = r,
         k \in Regs => /\ k \notin available'
                       /\ reg_map'[pc] = k
                       /\ fn[pc].op \in ValueOps
  PROVE  PoolExact'
<1> USE AllocFacts
<1>1. SUFFICES ASSUME ~LastInBlock(pc), NEW r \in Regs
               PROVE  r \in available' <=> LiveHolders(r)' = {}
  BY DEF PoolExact, NextInstr
<1>2. UNCHANGED <<fn, live_range, first, phase>> /\ pc' = pc + 1
  BY <1>1 DEF NextInstr
<1>3. LiveHolders(r)' = {u \in Block : u < pc + 1 /\ reg_map'[u] = r /\ live_range[u] >= pc + 1}
  BY <1>2 DEF LiveHolders, Block, BlockOf
<1>4. LiveHolders(r) = {u \in Block : u < pc /\ reg_map[u] = r /\ live_range[u] >= pc}
  BY DEF LiveHolders, Block
<1>5. r \in available <=> LiveHolders(r) = {}
  BY DEF IInv, PoolExact, Allocating
<1>6. CASE r = k
  <2>1. live_range[pc] >= pc + 1
    BY <1>6, RangeBeyond DEF IInv, Allocating
  <2> QED BY <2>1, <1>3, <1>6
<1>7. CASE r # k
  <2>1. LiveHolders(r)' = {u \in Block : u < pc /\ reg_map[u] = r /\ live_range[u] >= pc + 1}
    BY <1>3, <1>7
  <2>2. ASSUME r \in available'
        PROVE  LiveHolders(r)' = {}
    <3>1. CASE r \in available
      BY <3>1, <2>1, <1>4, <1>5
    <3>2. CASE r \in Freed(pc, k)
      <4>1. PICK o \in Block : o < pc /\ reg_map[o] = r /\ live_range[o] = pc
        BY <3>2, <1>7, FreedFacts
      <4>2. ASSUME NEW u \in Block, u < pc, reg_map[u] = r, live_range[u] >= pc + 1
            PROVE  FALSE
        <5>1. u = o
          BY <4>1, <4>2, UniqueHolder DEF Allocating
        <5> QED BY <5>1, <4>1, <4>2
      <4> QED BY <4>2, <2>1
    <3> QED BY <3>1, <3>2, <2>2, <1>7
  <2>3. ASSUME LiveHolders(r)' = {}
        PROVE  r \in available'
    <3>1. CASE LiveHolders(r) = {}
      BY <3>1, <1>5, <1>7
    <3>2. CASE LiveHolders(r) # {}
      <4>1. PICK u \in Block : u < pc /\ reg_map[u] = r /\ live_range[u] >= pc
        BY <3>2, <1>4
      <4>2. live_range[u] = pc
        BY <4>1, <2>1, <2>3
      <4> QED BY <4>1, <4>2, <1>7, FreedFacts
    <3> QED BY <3>1, <3>2
  <2> QED BY <2>2, <2>3
<1> QED BY <1>6, <1>7

\* What is given back are registers.
LEMMA FreedInRegs ==
  ASSUME NEW k PROVE Freed(pc, k) \subseteq Regs \ {k}
BY DEF Freed, InRegister

\* A store, void call or terminator only gives registers back.
LEMMA SinkIInv == IInv /\ ReleaseAtSink => IInv'
<1> SUFFICES ASSUME IInv, ReleaseAtSink PROVE IInv'
  OBVIOUS
<1>1. Allocating /\ NextInstr /\ reg_map' = reg_map
      /\ available' = available \cup Freed(pc, nullreg)
  BY DEF ReleaseAtSink
<1>2. TypeOK' /\ CursorOK' /\ ScanOK' /\ RangesOK' /\ MapOK' /\ NoClobber'
  BY <1>1, AllocFacts, FreedInRegs, AssignStep, RegistersAssumption DEF IInv, TypeOK
<1>3. PoolExact'
  BY <1>1, PoolStep, RegistersAssumption
<1> QED BY <1>2, <1>3 DEF IInv

\* The instruction at pc computes a value, and that value is used later.
LEMMA ValueFacts ==
  ASSUME IInv, Allocating, ~IsSink(pc)
  PROVE  fn[pc].op \in ValueOps /\ live_range[pc] > pc
<1>1. fn[pc].op \in ValueOps
  BY AllocFacts, FunctionFacts DEF IsSink
<1> QED BY <1>1, AllocFacts, RangeBeyond DEF IInv, Allocating

\* A register out of the pool holds exactly one value that is still needed.
LEMMA PoolFacts ==
  ASSUME IInv, Allocating, NEW r \in Regs
  PROVE  r \in available <=> \A u \in Block : ~(u < pc /\ reg_map[u] = r /\ live_range[u] >= pc)
BY DEF IInv, PoolExact, Allocating, LiveHolders, Block

\* The other values ever computed into the register of a live v are dead.
LEMMA OthersDead ==
  ASSUME IInv, Allocating, NEW v \in Block, NEW u \in Block, u # v, u < pc, v < pc,
         reg_map[v] \in Regs, reg_map[u] = reg_map[v], live_range[v] >= pc
  PROVE  live_range[u] < pc
BY AllocFacts, UniqueHolder DEF Allocating

\* The register of the dying first operand passes to the result.
LEMMA TakeOverIInv == IInv /\ TakeOver => IInv'
<1> SUFFICES ASSUME IInv, TakeOver PROVE IInv'
  OBVIOUS
<1> DEFINE a == fn[pc].args[1]
<1> DEFINE r == reg_map[a]
<1>1. /\ Allocating /\ NextInstr /\ ~IsSink(pc) /\ Coalesces(pc)
      /\ reg_map' = [reg_map EXCEPT ![pc] = r]
      /\ available' = available \cup Freed(pc, r)
  BY DEF TakeOver
<1>2. a \in Operands(pc)
  BY <1>1, AllocFacts, FunctionFacts DEF Coalesces
<1>3. a \in Block /\ a < pc /\ live_range[a] = pc /\ r \in Regs /\ fn[pc].op \in ArithOps
  BY <1>1, <1>2, DyingFacts DEF Coalesces, InRegister
<1> HIDE DEF a, r
<1>4. fn[pc].op \in ValueOps
  BY <1>1, ValueFacts
<1>5. r = reg_map[a] /\ a = fn[pc].args[1]
  BY DEF r, a
<1>6. \A u \in Block : u < pc /\ reg_map'[u] = r => live_range[u] < pc \/ u = a
  BY <1>1, <1>3, <1>5, AllocFacts, OthersDead
<1>7. reg_map'[pc] = r
  BY <1>1, AllocFacts
<1>8. TypeOK' /\ CursorOK' /\ ScanOK' /\ RangesOK' /\ MapOK' /\ NoClobber'
  BY <1>1, <1>3, <1>4, <1>5, <1>6, <1>7, AllocFacts, FreedInRegs, AssignStep DEF IInv, TypeOK
<1>9. r \notin available
  BY <1>1, <1>3, <1>5, AllocFacts, PoolFacts
<1>10. \A q \in Regs : q # r => \A u \in Block : reg_map'[u] = q <=> reg_map[u] = q
  BY <1>1, AllocFacts, RegistersAssumption
<1>11. PoolExact'
  BY <1>1, <1>4, <1>7, <1>9, <1>10, FreedInRegs, PoolStep
<1> QED BY <1>8, <1>11 DEF IInv

\* A register from the pool holds nothing that is still needed.
LEMMA TakeFreeIInv == IInv /\ TakeFree => IInv'
<1> SUFFICES ASSUME IInv, TakeFree PROVE IInv'
  OBVIOUS
<1>1. PICK r \in available :
        /\ reg_map' = [reg_map EXCEPT ![pc] = r]
        /\ available' = (available \ {r}) \cup Freed(pc, r)
  BY DEF TakeFree
<1>2. Allocating /\ NextInstr /\ ~IsSink(pc)
  BY DEF TakeFree
<1>3. r \in Regs
  BY DEF IInv, TypeOK
<1>4. fn[pc].op \in ValueOps
  BY <1>2, ValueFacts
<1>5. reg_map'[pc] = r
  BY <1>1, <1>2, AllocFacts
<1>6. \A u \in Block : u < pc /\ reg_map'[u] = r => live_range[u] < pc
  BY <1>1, <1>2, <1>3, AllocFacts, FunctionFacts, PoolFacts
<1>7. TypeOK' /\ CursorOK' /\ ScanOK' /\ RangesOK' /\ MapOK' /\ NoClobber'
  BY <1>1, <1>2, <1>3, <1>4, <1>5, <1>6, AllocFacts, FreedInRegs, AssignStep DEF IInv, TypeOK
<1>8. \A q \in Regs : q # r => \A u \in Block : reg_map'[u] = q <=> reg_map[u] = q
  BY <1>1, <1>2, AllocFacts, RegistersAssumption
<1>9. PoolExact'
  BY <1>1, <1>2, <1>4, <1>5, <1>8, FreedInRegs, PoolStep
<1> QED BY <1>7, <1>9 DEF IInv

\* The new value goes to memory; the pool gets the dying operands' registers.
LEMMA SpillSelfIInv == IInv /\ SpillSelf => IInv'
<1> SUFFICES ASSUME IInv, SpillSelf PROVE IInv'
  OBVIOUS
<1>1. /\ Allocating /\ NextInstr /\ ~IsSink(pc)
      /\ reg_map' = [reg_map EXCEPT ![pc] = nullreg]
      /\ available' = available \cup Freed(pc, nullreg)
  BY DEF SpillSelf, Spilling
<1>2. fn[pc].op \in ValueOps
  BY <1>1, ValueFacts
<1>3. reg_map'[pc] = nullreg
  BY <1>1, AllocFacts
<1>4. TypeOK' /\ CursorOK' /\ ScanOK' /\ RangesOK' /\ MapOK' /\ NoClobber'
  BY <1>1, <1>2, <1>3, AllocFacts, FreedInRegs, AssignStep, RegistersAssumption DEF IInv, TypeOK
<1>5. \A q \in Regs : \A u \in Block : reg_map'[u] = q <=> reg_map[u] = q
  BY <1>1, AllocFacts, RegistersAssumption
<1>6. PoolExact'
  BY <1>1, <1>5, PoolStep, RegistersAssumption
<1> QED BY <1>4, <1>6 DEF IInv

\* find_spill returns an earlier value whose range reaches pc.
LEMMA VictimFacts ==
  ASSUME IInv, Allocating, NEW v \in Victims(pc)
  PROVE  v \in Block /\ v < pc /\ reg_map[v] \in Regs /\ live_range[v] >= pc
BY AllocFacts, FunctionFacts DEF Victims, InRegister

\* The victim's register passes to the new value, and the victim leaves it.
LEMMA SpillVictimIInv == IInv /\ SpillVictim => IInv'
<1> SUFFICES ASSUME IInv, SpillVictim PROVE IInv'
  OBVIOUS
<1>1. Allocating /\ NextInstr /\ ~IsSink(pc) /\ available = {}
  BY DEF SpillVictim, Spilling
<1>2. PICK v \in Victims(pc) :
        /\ reg_map' = [reg_map EXCEPT ![pc] = reg_map[v], ![v] = nullreg]
        /\ available' = available \cup Freed(pc, reg_map[v])
  BY DEF SpillVictim
<1>3. v \in Block /\ v < pc /\ reg_map[v] \in Regs /\ live_range[v] >= pc /\ v # pc
  BY <1>1, VictimFacts, AllocFacts, FunctionFacts
<1>4. fn[pc].op \in ValueOps
  BY <1>1, ValueFacts
<1>5. reg_map'[pc] = reg_map[v] /\ reg_map'[v] = nullreg
      /\ \A i \in DOMAIN fn : i # pc /\ i # v => reg_map'[i] = reg_map[i]
  BY <1>1, <1>2, <1>3, AllocFacts
<1>6. \A u \in Block : u < pc /\ reg_map'[u] = reg_map[v] => live_range[u] < pc
  <2> SUFFICES ASSUME NEW u \in Block, u < pc, reg_map'[u] = reg_map[v]
               PROVE  live_range[u] < pc
    OBVIOUS
  <2>1. u # v /\ reg_map[u] = reg_map[v]
    BY <1>1, <1>3, <1>5, AllocFacts, RegistersAssumption
  <2> QED BY <1>1, <1>3, <2>1, OthersDead
<1>7. TypeOK' /\ CursorOK' /\ ScanOK' /\ RangesOK' /\ MapOK' /\ NoClobber'
  <2>1. reg_map' \in [DOMAIN fn -> Regs \cup {nullreg, none}]
    BY <1>1, <1>2, <1>3, AllocFacts
  <2>2. available' \subseteq Regs
    BY <1>1, <1>2, FreedInRegs
  <2> QED BY <1>1, <1>3, <1>4, <1>5, <1>6, <2>1, <2>2, AllocFacts, AssignStep
<1>8. \A q \in Regs : q # reg_map[v] => \A u \in Block : reg_map'[u] = q <=> reg_map[u] = q
  BY <1>1, <1>3, <1>5, AllocFacts, RegistersAssumption
<1>9. PoolExact'
  BY <1>1, <1>2, <1>4, <1>5, <1>8, FreedInRegs, PoolStep
<1> QED BY <1>7, <1>9 DEF IInv

-----------------------------------------------------------------------------

\* Every step keeps the invariant.
LEMMA NextIInv == IInv /\ [Next]_vars => IInv'
BY StutterIInv, EnterIInv, ScanIInv, SinkIInv, TakeOverIInv, TakeFreeIInv, SpillSelfIInv,
   SpillVictimIInv
   DEF Next, Allocate, Finished

\* The inductive invariant holds in every reachable state.
THEOREM Inductive == Spec => []IInv
BY InitIInv, NextIInv, PTL DEF Spec

\* The allocator's state keeps its types (src/src/backend.cpp:84-167).
THEOREM TypeCorrect == Spec => []TypeOK
<1>1. IInv => TypeOK
  BY DEF IInv
<1> QED BY <1>1, Inductive, PTL

(***************************************************************************)
(* No value's register is overwritten before the value's last use, in any  *)
(* function and with any number of registers.                              *)
(***************************************************************************)
THEOREM NoClobberTheorem == Spec => []NoClobber
<1>1. IInv => NoClobber
  BY DEF IInv
<1> QED BY <1>1, Inductive, PTL

(***************************************************************************)
(* A register is out of the pool exactly while it holds a value of the     *)
(* block that is still needed: none is freed early and none is leaked.     *)
(***************************************************************************)
THEOREM PoolExactTheorem == Spec => []PoolExact
<1>1. IInv => PoolExact
  BY DEF IInv
<1> QED BY <1>1, Inductive, PTL

\* With an empty pool every register has a live holder, and Regs is not empty.
LEMMA VictimExistsLemma == IInv => VictimExists
<1> SUFFICES ASSUME IInv, Spilling PROVE \E v \in Victims(pc) : v < pc
  BY DEF VictimExists
<1>1. Allocating /\ ~IsSink(pc) /\ available = {}
  BY DEF Spilling
<1>2. PICK r \in Regs : TRUE
  BY RegistersAssumption
<1>3. PICK v \in Block : v < pc /\ reg_map[v] = r /\ live_range[v] >= pc
  BY <1>1, <1>2, PoolFacts
<1>4. v \in Victims(pc)
  BY <1>1, <1>3, AllocFacts, ValueFacts, FunctionFacts DEF Victims, InRegister
<1> QED BY <1>3, <1>4

\* find_spill never returns NULL (src/src/backend.cpp:148-150 is never taken).
THEOREM VictimExistsTheorem == Spec => []VictimExists
BY VictimExistsLemma, Inductive, PTL

\* Only the two spilling steps send a value to memory, and both choose the latest.
LEMMA SpillsLatestLemma == IInv /\ [Next]_vars => SpillsLatestStep
<1> SUFFICES ASSUME IInv, [Next]_vars,
                    NEW v \in DOMAIN fn, reg_map'[v] = nullreg, reg_map[v] # nullreg,
                    NEW u \in Block, u <= pc, live_range[u] >= pc, u = pc \/ InRegister(u)
             PROVE  live_range[u] <= live_range[v]
  BY DEF SpillsLatestStep, Block
<1>1. CASE SpillSelf
  <2>1. Allocating /\ ~IsSink(pc) /\ reg_map' = [reg_map EXCEPT ![pc] = nullreg] /\ Spilling
    BY <1>1 DEF SpillSelf, Spilling
  <2>2. v = pc
    BY <2>1, AllocFacts
  <2>3. PICK w \in Victims(pc) : FindSpill(pc, w) /\ LaterLastUse(pc, w)
    BY <1>1, <2>1, VictimExistsLemma DEF SpillSelf, VictimExists
  <2>4. w \in Block /\ live_range[w] < live_range[pc]
    BY <2>1, <2>3, VictimFacts, AllocFacts DEF LaterLastUse
  <2>5. CASE u = pc
    BY <2>1, <2>2, <2>5, AllocFacts
  <2>6. CASE u # pc
    <3>1. u \in Victims(pc)
      BY <2>1, <2>6, AllocFacts, ValueFacts, FunctionFacts DEF Victims
    <3>2. live_range[u] <= live_range[w]
      BY <3>1, <2>3 DEF FindSpill
    <3> QED BY <2>1, <2>2, <2>4, <3>2, AllocFacts
  <2> QED BY <2>5, <2>6
<1>2. CASE SpillVictim
  <2>1. Allocating /\ ~IsSink(pc)
    BY <1>2 DEF SpillVictim, Spilling
  <2>2. PICK w \in Victims(pc) :
          /\ FindSpill(pc, w) /\ ~LaterLastUse(pc, w)
          /\ reg_map' = [reg_map EXCEPT ![pc] = reg_map[w], ![w] = nullreg]
    BY <1>2 DEF SpillVictim
  <2>3. v = w
    BY <2>1, <2>2, VictimFacts, AllocFacts, RegistersAssumption
  <2>4. CASE u = pc
    BY <2>1, <2>2, <2>3, <2>4, VictimFacts, AllocFacts DEF LaterLastUse
  <2>5. CASE u # pc
    <3>1. u \in Victims(pc)
      BY <2>1, <2>5, AllocFacts, ValueFacts, FunctionFacts DEF Victims
    <3> QED BY <3>1, <2>2, <2>3 DEF FindSpill
  <2> QED BY <2>4, <2>5
<1>3. CASE ~SpillSelf /\ ~SpillVictim
  <2>1. UNCHANGED reg_map \/ TakeOver \/ TakeFree
    BY <1>3 DEF Next, Allocate, Finished, vars, EnterBlock, ScanUses, ReleaseAtSink
  <2>2. TakeOver => reg_map' = [reg_map EXCEPT ![pc] = reg_map[fn[pc].args[1]]]
                    /\ reg_map[fn[pc].args[1]] \in Regs /\ Allocating
    BY DEF TakeOver, Coalesces, InRegister
  <2>3. TakeFree => Allocating /\ \E r \in Regs : reg_map' = [reg_map EXCEPT ![pc] = r]
    BY DEF TakeFree, IInv, TypeOK
  <2> QED BY <2>1, <2>2, <2>3, AllocFacts, RegistersAssumption
<1> QED BY <1>1, <1>2, <1>3

(***************************************************************************)
(* Whatever is spilled, the value that ends up in memory has the latest    *)
(* last use of all that compete for the registers (backend.cpp:142).       *)
(***************************************************************************)
THEOREM SpillsLatestTheorem == Spec => SpillsLatest
BY SpillsLatestLemma, Inductive, PTL DEF Spec, SpillsLatest

-----------------------------------------------------------------------------

\* Every value that the walk has passed has an entry in reg_map.
Mapped == \A i \in DOMAIN fn : i < Frontier /\ fn[i].op \in ValueOps => reg_map[i] # none

\* The allocation loop makes the entry for pc and takes none away.
LEMMA MappedStep ==
  ASSUME IInv, Mapped, Allocating, NextInstr, fn[pc].op \in ValueOps => reg_map'[pc] # none,
         \A i \in DOMAIN fn : i # pc => (reg_map[i] # none => reg_map'[i] # none)
  PROVE  Mapped'
<1>1. fn' = fn /\ pc' = pc + 1 /\ Frontier' = pc + 1
  BY DEF NextInstr, Frontier, Allocating
<1>2. Frontier = pc /\ pc \in Int /\ DOMAIN fn \subseteq Int
  BY AllocFacts DEF Frontier, Allocating
<1> SUFFICES ASSUME NEW i \in DOMAIN fn, i < pc + 1, fn[i].op \in ValueOps
             PROVE  reg_map'[i] # none
  BY <1>1 DEF Mapped
<1>3. i = pc \/ i < pc
  BY <1>2
<1> QED BY <1>2, <1>3 DEF Mapped

LEMMA MappedNext == IInv /\ Mapped /\ [Next]_vars => Mapped'
<1> SUFFICES ASSUME IInv, Mapped, [Next]_vars PROVE Mapped'
  OBVIOUS
<1>1. CASE UNCHANGED vars
  BY <1>1 DEF vars, Mapped, Frontier
<1>2. CASE EnterBlock
  BY <1>2 DEF EnterBlock, Mapped, Frontier
<1>3. CASE ScanUses
  BY <1>3 DEF ScanUses, Mapped, Frontier
<1>4. CASE ReleaseAtSink
  <2>1. Allocating /\ NextInstr /\ reg_map' = reg_map /\ fn[pc].op \in SinkOps
    BY <1>4 DEF ReleaseAtSink, IsSink
  <2>2. fn[pc].op \notin ValueOps
    BY <2>1 DEF ValueOps, SinkOps
  <2> QED BY <2>1, <2>2, MappedStep
<1>5. CASE TakeOver
  <2>1. /\ Allocating /\ NextInstr /\ Coalesces(pc)
        /\ reg_map' = [reg_map EXCEPT ![pc] = reg_map[fn[pc].args[1]]]
    BY <1>5 DEF TakeOver
  <2>2. reg_map[fn[pc].args[1]] # none
    BY <2>1, RegistersAssumption DEF Coalesces, InRegister
  <2> QED BY <2>1, <2>2, AllocFacts, MappedStep
<1>6. CASE TakeFree
  <2>1. Allocating /\ NextInstr
    BY <1>6 DEF TakeFree
  <2>2. PICK q \in available : reg_map' = [reg_map EXCEPT ![pc] = q]
    BY <1>6 DEF TakeFree
  <2>3. q # none
    BY RegistersAssumption DEF IInv, TypeOK
  <2> QED BY <2>1, <2>2, <2>3, AllocFacts, MappedStep
<1>7. CASE SpillSelf
  <2>1. Allocating /\ NextInstr /\ reg_map' = [reg_map EXCEPT ![pc] = nullreg]
    BY <1>7 DEF SpillSelf, Spilling
  <2> QED BY <2>1, AllocFacts, RegistersAssumption, MappedStep
<1>8. CASE SpillVictim
  <2>1. Allocating /\ NextInstr
    BY <1>8 DEF SpillVictim, Spilling
  <2>2. PICK v \in Victims(pc) : reg_map' = [reg_map EXCEPT ![pc] = reg_map[v], ![v] = nullreg]
    BY <1>8 DEF SpillVictim
  <2>3. v \in DOMAIN fn /\ v # pc /\ reg_map[v] # none
    BY <2>1, VictimFacts, AllocFacts, FunctionFacts, RegistersAssumption
  <2> QED BY <2>1, <2>2, <2>3, AllocFacts, RegistersAssumption, MappedStep
<1> QED BY <1>1, <1>2, <1>3, <1>4, <1>5, <1>6, <1>7, <1>8 DEF Next, Allocate, Finished

LEMMA MappedInit == Init => Mapped
<1> SUFFICES ASSUME Init PROVE Mapped
  OBVIOUS
<1>1. fn \in Functions /\ Frontier = 1
  BY DEF Init, Frontier
<1>2. \A i \in DOMAIN fn : ~(i < 1)
  BY <1>1, FunctionsAssumption, FunctionFacts
<1> QED BY <1>1, <1>2 DEF Mapped

\* Value i is in a register or in memory.
Allocated(i) == reg_map[i] \in Regs \cup {nullreg}

(***************************************************************************)
(* When alloc_registers returns every value is in a register or in memory: *)
(* none of the assertions reg != reg_map.end() in generate_code            *)
(* (backend.cpp:282-528) can fail.                                         *)
(***************************************************************************)
THEOREM AllAllocated ==
  Spec => [](phase = "done" => \A i \in DOMAIN fn : fn[i].op \in ValueOps => Allocated(i))
<1>1. Init => IInv /\ Mapped
  BY InitIInv, MappedInit
<1>2. IInv /\ Mapped /\ [Next]_vars => (IInv /\ Mapped)'
  BY NextIInv, MappedNext
<1>3. IInv /\ Mapped =>
        (phase = "done" => \A i \in DOMAIN fn : fn[i].op \in ValueOps => Allocated(i))
  <2> SUFFICES ASSUME IInv, Mapped, phase = "done", NEW i \in DOMAIN fn, fn[i].op \in ValueOps
               PROVE  Allocated(i)
    OBVIOUS
  <2>1. i < Frontier
    BY FunctionFacts DEF IInv, TypeOK, CursorOK, Frontier
  <2> QED BY <2>1 DEF Mapped, IInv, TypeOK, Allocated
<1> QED BY <1>1, <1>2, <1>3, PTL DEF Spec

-----------------------------------------------------------------------------
(***************************************************************************)
(* The emitted code is correct for every function, every set of registers  *)
(* and every order of the variables.  The proof goes from the machine up:  *)
(* what one machine instruction does, what the sequence emitted for each   *)
(* instruction does (moves through eax, calls with saved registers and     *)
(* padding, prologue and epilogue), that the frame's cells are disjoint,   *)
(* and that whatever an instruction writes is nothing that is still        *)
(* needed.  The last uses NoClobber, the allocator's result.  Each         *)
(* step of the code is then a step of IRExec, and CGIInv is inductive.     *)
(***************************************************************************)

(***************************************************************************)
(* Running a sequence of machine instructions                              *)
(***************************************************************************)

\* A non-empty set of natural numbers has a least element.
LEMMA LeastExists ==
  ASSUME NEW S \in SUBSET Nat, S # {}
  PROVE  \E m \in S : \A n \in S : m <= n
<1> DEFINE Less == {ss \in Nat \X Nat : ss[1] < ss[2]}
<1>1. OpToRel(<, Nat) = Less
  BY DEF OpToRel
<1>2. IsWellFoundedOn(Less, Nat)
  BY <1>1, NatLessThanWellFounded
<1>3. \A m, n \in Nat : n < m => <<n, m>> \in Less
  OBVIOUS
<1> HIDE DEF Less
<1>4. PICK m \in S : \A n \in S : ~(<<n, m>> \in Less)
  BY <1>2, WFMin
<1>5. ASSUME NEW n \in S PROVE m <= n
  <2>1. m \in Nat /\ n \in Nat
    OBVIOUS
  <2>2. ~(n < m)
    BY <1>3, <1>4, <2>1
  <2> QED BY <2>1, <2>2
<1> QED BY <1>5

\* Induction over the natural numbers, for a set of them.
LEMMA NatSetInduction ==
  ASSUME NEW T, 0 \in T, \A n \in Nat : n \in T => n + 1 \in T
  PROVE  \A n \in Nat : n \in T
<1> SUFFICES ASSUME \E n \in Nat : n \notin T PROVE FALSE
  OBVIOUS
<1>1. PICK m \in Nat \ T : \A n \in Nat \ T : m <= n
  BY LeastExists
<1>2. m # 0 /\ m - 1 \in Nat /\ m - 1 \in T
  BY <1>1
<1> QED BY <1>2

\* after[j]: the machine after j instructions.
Steps(m, code, decided, k, after) ==
  after = [j \in 0 .. k |-> IF j = 0 THEN m ELSE Exec(after[j - 1], code[j], decided)]

LEMMA StepsExist ==
  ASSUME NEW m, NEW code, NEW decided
  PROVE  \A k \in Nat : \E after : Steps(m, code, decided, k, after)
<1> DEFINE T == {k \in Nat : \E after : Steps(m, code, decided, k, after)}
<1>1. 0 \in T
  <2>1. Steps(m, code, decided, 0, [j \in 0 .. 0 |-> m])
    BY DEF Steps
  <2> QED BY <2>1
<1>2. \A k \in Nat : k \in T => k + 1 \in T
  <2> SUFFICES ASSUME NEW k \in Nat, NEW g, Steps(m, code, decided, k, g) PROVE k + 1 \in T
    OBVIOUS
  <2> DEFINE f == [j \in 0 .. k + 1 |->
                     IF j = k + 1 THEN Exec(g[k], code[k + 1], decided) ELSE g[j]]
  <2>1. \A j \in 0 .. k : g[j] = IF j = 0 THEN m ELSE Exec(g[j - 1], code[j], decided)
    BY DEF Steps
  <2>2. ASSUME NEW j \in 0 .. k + 1
        PROVE  f[j] = IF j = 0 THEN m ELSE Exec(f[j - 1], code[j], decided)
    <3>1. CASE j = k + 1
      <4>1. f[j] = Exec(g[k], code[j], decided) /\ f[j - 1] = g[k] /\ j # 0
        BY <3>1
      <4> QED BY <4>1
    <3>2. CASE j = 0
      BY <3>2, <2>1
    <3>3. CASE j \in 1 .. k
      <4>1. f[j] = g[j] /\ f[j - 1] = g[j - 1] /\ j # 0 /\ j \in 0 .. k
        BY <3>3
      <4> QED BY <4>1, <2>1
    <3> QED BY <3>1, <3>2, <3>3
  <2>3. Steps(m, code, decided, k + 1, f)
    <3>1. f = [j \in 0 .. k + 1 |-> f[j]]
      OBVIOUS
    <3> HIDE DEF f
    <3> QED BY <3>1, <2>2 DEF Steps
  <2> HIDE DEF f
  <2> QED BY <2>3
<1> HIDE DEF T
<1>3. \A k \in Nat : k \in T
  BY <1>1, <1>2, NatSetInduction
<1> QED BY <1>3 DEF T

\* What Run returns is the last of such machines.
LEMMA RunFacts ==
  ASSUME NEW m, NEW code, NEW decided, Len(code) \in Nat
  PROVE  \E after : /\ after[0] = m
                    /\ \A k \in 1 .. Len(code) : after[k] = Exec(after[k - 1], code[k], decided)
                    /\ Run(m, code, decided) = after[Len(code)]
<1> DEFINE n == Len(code)
<1> DEFINE g == CHOOSE g : Steps(m, code, decided, n, g)
<1>1. Steps(m, code, decided, n, g)
  BY StepsExist
<1>2. Run(m, code, decided) = g[n]
  BY DEF Run, Steps
<1> HIDE DEF g
<1>3. g[0] = m /\ \A k \in 1 .. n : g[k] = Exec(g[k - 1], code[k], decided)
  BY <1>1 DEF Steps
<1> QED BY <1>2, <1>3

\* Nothing to run.
LEMMA RunNothing ==
  ASSUME NEW m, NEW decided
  PROVE  Run(m, <<>>, decided) = m
<1>1. Len(<<>>) = 0
  OBVIOUS
<1> QED BY <1>1, RunFacts

\* One instruction.
LEMMA RunOne ==
  ASSUME NEW m, NEW c, NEW decided
  PROVE  Run(m, <<c>>, decided) = Exec(m, c, decided)
<1>1. Len(<<c>>) = 1 /\ <<c>>[1] = c
  OBVIOUS
<1>2. PICK after : /\ after[0] = m
                   /\ \A k \in 1 .. Len(<<c>>) : after[k] = Exec(after[k - 1], <<c>>[k], decided)
                   /\ Run(m, <<c>>, decided) = after[Len(<<c>>)]
  BY <1>1, RunFacts
<1>3. 1 \in 1 .. Len(<<c>>) /\ 1 - 1 = 0
  BY <1>1
<1>4. after[1] = Exec(after[1 - 1], <<c>>[1], decided)
  BY <1>2, <1>3
<1> QED BY <1>1, <1>2, <1>3, <1>4

\* A sequence is a sequence, whatever it is made of.
Code(code) == \E S : code \in Seq(S)

\* One sequence after the other.
LEMMA RunBoth ==
  ASSUME NEW m, NEW s, NEW t, NEW decided, Code(s), Code(t)
  PROVE  Run(m, s \o t, decided) = Run(Run(m, s, decided), t, decided)
<1>1. PICK S : s \in Seq(S)
  BY DEF Code
<1>2. PICK T : t \in Seq(T)
  BY DEF Code
<1>3. Len(s) \in Nat /\ Len(t) \in Nat /\ Len(s \o t) = Len(s) + Len(t)
  BY <1>1, <1>2
<1>4. /\ \A k \in 1 .. Len(s) : (s \o t)[k] = s[k]
      /\ \A k \in 1 .. Len(t) : (s \o t)[Len(s) + k] = t[k]
  BY <1>1, <1>2
<1> DEFINE n == Len(s)
           l == Len(t)
           both == s \o t
<1>5. PICK f : /\ f[0] = m /\ \A k \in 1 .. n : f[k] = Exec(f[k - 1], s[k], decided)
               /\ Run(m, s, decided) = f[n]
  BY <1>3, RunFacts
<1>6. PICK g : /\ g[0] = f[n] /\ \A k \in 1 .. l : g[k] = Exec(g[k - 1], t[k], decided)
               /\ Run(f[n], t, decided) = g[l]
  <2> DEFINE w == f[n]
  <2>0. Len(t) \in Nat
    BY <1>3
  <2> HIDE DEF w, n, both
  <2>1. \E g : /\ g[0] = w /\ \A k \in 1 .. l : g[k] = Exec(g[k - 1], t[k], decided)
               /\ Run(w, t, decided) = g[l]
    BY <2>0, RunFacts
  <2> QED BY <2>1 DEF w
<1>7. PICK h : /\ h[0] = m /\ \A k \in 1 .. n + l : h[k] = Exec(h[k - 1], both[k], decided)
               /\ Run(m, both, decided) = h[n + l]
  <2>1. Len(both) = n + l /\ Len(both) \in Nat
    BY <1>3
  <2> HIDE DEF both, n, l
  <2> QED BY <2>1, RunFacts
<1> HIDE DEF both, n, l
<1>8. n \in Nat /\ l \in Nat
  BY <1>3 DEF n, l
<1>9. \A k \in Nat : k <= n => h[k] = f[k]
  <2> DEFINE U == {k \in Nat : k <= n => h[k] = f[k]}
  <2>1. 0 \in U
    BY <1>5, <1>7
  <2>2. \A k \in Nat : k \in U => k + 1 \in U
    <3> SUFFICES ASSUME NEW k \in Nat, h[k] = f[k], k + 1 <= n PROVE h[k + 1] = f[k + 1]
      BY <1>8
    <3>1. k + 1 \in 1 .. n /\ k + 1 \in 1 .. n + l /\ (k + 1) - 1 = k
      BY <1>8
    <3>2. both[k + 1] = s[k + 1]
      BY <3>1, <1>4 DEF both, n
    <3> QED BY <3>1, <3>2, <1>5, <1>7
  <2> HIDE DEF U
  <2>3. \A k \in Nat : k \in U
    BY <2>1, <2>2, NatSetInduction
  <2> QED BY <2>3 DEF U
<1>10. \A k \in Nat : k <= l => h[n + k] = g[k]
  <2> DEFINE U == {k \in Nat : k <= l => h[n + k] = g[k]}
  <2>1. 0 \in U
    BY <1>6, <1>8, <1>9
  <2>2. \A k \in Nat : k \in U => k + 1 \in U
    <3> SUFFICES ASSUME NEW k \in Nat, h[n + k] = g[k], k + 1 <= l
                 PROVE  h[n + (k + 1)] = g[k + 1]
      BY <1>8
    <3>1. /\ k + 1 \in 1 .. l /\ n + (k + 1) \in 1 .. n + l
          /\ (k + 1) - 1 = k /\ (n + (k + 1)) - 1 = n + k
      BY <1>8
    <3>2. both[n + (k + 1)] = t[k + 1]
      BY <3>1, <1>4 DEF both, n, l
    <3>3. h[n + (k + 1)] = Exec(h[(n + (k + 1)) - 1], both[n + (k + 1)], decided)
      BY <3>1, <1>7
    <3> QED BY <3>1, <3>2, <3>3, <1>6
  <2> HIDE DEF U
  <2>3. \A k \in Nat : k \in U
    BY <2>1, <2>2, NatSetInduction
  <2> QED BY <2>3 DEF U
<1> QED BY <1>5, <1>6, <1>7, <1>8, <1>10 DEF both, n, l

-----------------------------------------------------------------------------
(***************************************************************************)
(* The machine between prologue and epilogue                               *)
(***************************************************************************)

Fields == {"reg", "ebp", "esp", "stack", "flags", "goto", "out", "aligned"}
FourRegs == {"eax", "ebx", "ecx", "edx"}

IsMachine(m) == DOMAIN m = Fields /\ DOMAIN m.reg = FourRegs

\* The frame pointer is where the prologue put it, and no jump has been taken.
Running(m) ==
  IsMachine(m) /\ m.ebp = <<"address", -8>> /\ m.esp \in Int /\ m.goto = next

\* What instructions write, and what they read.
Locations == {Reg(r) : r \in FourRegs} \cup {Mem(o) : o \in Int}
Sources == Locations \cup {Imm(k) : k \in Int}

\* Nothing but registers, memory and flags changes from m to n.
SameButData(m, n) == n.esp = m.esp /\ n.out = m.out /\ n.aligned = m.aligned

\* All locations outside of S hold in n what they hold in m.
Keeps(m, n, S) == \A o \in Sources : o \notin S => Get(n, o) = Get(m, o)

LEMMA LocationFacts ==
  /\ \A r, s \in FourRegs : Reg(r) = Reg(s) => r = s
  /\ \A o, p \in Int : Mem(o) = Mem(p) => o = p
  /\ \A r \in FourRegs, o \in Int : Reg(r) # Mem(o)
  /\ \A r \in FourRegs, k \in Int : Reg(r) # Imm(k)
  /\ \A o \in Int, k \in Int : Mem(o) # Imm(k)
BY DEF Reg, Mem, Imm

LEMMA GetFacts ==
  ASSUME NEW m, Running(m)
  PROVE  /\ \A r : Get(m, Reg(r)) = m.reg[r]
         /\ \A k : Get(m, Imm(k)) = <<"const", k>>
         /\ \A o \in Int : Get(m, Mem(o)) = Peek(m, o - 8)
BY DEF Get, Reg, Imm, Mem, Running

LEMMA PutFacts ==
  ASSUME NEW m, Running(m), NEW loc \in Locations, NEW v, NEW n, n = Put(m, loc, v)
  PROVE  /\ Running(n) /\ SameButData(m, n) /\ n.flags = m.flags
         /\ Get(n, loc) = v /\ Keeps(m, n, {loc})
<1>1. CASE loc \in {Reg(r) : r \in FourRegs}
  <2>1. PICK r \in FourRegs : loc = Reg(r)
    BY <1>1
  <2>2. n = [m EXCEPT !.reg[r] = v]
    BY <2>1 DEF Put, Reg
  <2>3. /\ Running(n) /\ SameButData(m, n) /\ n.flags = m.flags /\ n.stack = m.stack
        /\ n.reg = [m.reg EXCEPT ![r] = v]
    BY <2>2 DEF Running, IsMachine, SameButData, Fields
  <2>4. Get(n, loc) = v
    BY <2>1, <2>3, GetFacts DEF Running, IsMachine
  <2>5. Keeps(m, n, {loc})
    <3> SUFFICES ASSUME NEW o \in Sources, o # loc PROVE Get(n, o) = Get(m, o)
      BY DEF Keeps
    <3>1. CASE o \in {Imm(k) : k \in Int}
      BY <3>1, <2>3, GetFacts
    <3>2. CASE o \in {Mem(p) : p \in Int}
      BY <3>2, <2>3, GetFacts DEF Peek
    <3>3. CASE o \in {Reg(s) : s \in FourRegs}
      <4>1. PICK s \in FourRegs : o = Reg(s)
        BY <3>3
      <4>2. s # r
        BY <4>1, <2>1
      <4>3. n.reg[s] = m.reg[s]
        BY <4>2, <2>3 DEF Running, IsMachine
      <4>4. Get(n, o) = n.reg[s] /\ Get(m, o) = m.reg[s]
        BY <4>1, <2>3, GetFacts
      <4> QED BY <4>3, <4>4
    <3> QED BY <3>1, <3>2, <3>3 DEF Sources, Locations
  <2> QED BY <2>3, <2>4, <2>5
<1>2. CASE loc \in {Mem(o) : o \in Int}
  <2>1. PICK p \in Int : loc = Mem(p)
    BY <1>2
  <2>2. n = Poke(m, p - 8, v)
    BY <2>1 DEF Put, Mem, Running
  <2>3. /\ Running(n) /\ SameButData(m, n) /\ n.flags = m.flags /\ n.reg = m.reg
        /\ n.stack = [b \in {p - 8} \cup DOMAIN m.stack |-> IF b = p - 8 THEN v ELSE m.stack[b]]
    BY <2>2 DEF Running, IsMachine, SameButData, Fields, Poke
  <2>4. Peek(n, p - 8) = v
    BY <2>3 DEF Peek
  <2>5. \A q \in Int : q # p => Peek(n, q - 8) = Peek(m, q - 8)
    <3> SUFFICES ASSUME NEW q \in Int, q # p PROVE Peek(n, q - 8) = Peek(m, q - 8)
      OBVIOUS
    <3>1. q - 8 # p - 8
      OBVIOUS
    <3> QED BY <3>1, <2>3 DEF Peek
  <2>6. Keeps(m, n, {loc})
    <3> SUFFICES ASSUME NEW o \in Sources, o # loc PROVE Get(n, o) = Get(m, o)
      BY DEF Keeps
    <3>1. CASE o \in {Imm(k) : k \in Int}
      BY <3>1, <2>3, GetFacts
    <3>2. CASE o \in {Mem(q) : q \in Int}
      BY <3>2, <2>1, <2>3, <2>5, GetFacts
    <3>3. CASE o \in {Reg(s) : s \in FourRegs}
      BY <3>3, <2>3, GetFacts
    <3> QED BY <3>1, <3>2, <3>3 DEF Sources, Locations
  <2> QED BY <2>1, <2>3, <2>4, <2>6, GetFacts
<1> QED BY <1>1, <1>2 DEF Locations

LEMMA ExecMov ==
  ASSUME NEW m, Running(m), NEW src, NEW dst \in Locations, NEW decided,
         NEW n, n = Exec(m, Mov(src, dst), decided)
  PROVE  /\ Running(n) /\ SameButData(m, n) /\ n.flags = m.flags
         /\ Get(n, dst) = Get(m, src) /\ Keeps(m, n, {dst})
<1>1. n = Put(m, dst, Get(m, src))
  BY DEF Exec, Mov, C, Running
<1> QED BY <1>1, PutFacts

\* What an arithmetic instruction does.
Worked(m, n, sym, src, dst) ==
  /\ Running(n) /\ SameButData(m, n)
  /\ Get(n, dst) = Apply(sym, Get(m, dst), Get(m, src)) /\ Keeps(m, n, {dst})

LEMMA ExecArith ==
  ASSUME NEW m, Running(m), NEW src, NEW dst \in Locations, NEW sym, NEW decided,
         NEW n, n = Exec(m, [C("arith", src, dst) EXCEPT !.sym = sym], decided)
  PROVE  Worked(m, n, sym, src, dst)
<1> DEFINE put == Put(m, dst, Apply(sym, Get(m, dst), Get(m, src)))
<1>1. n = [put EXCEPT !.flags = unknown]
  BY DEF Exec, C, Running
<1> HIDE DEF put
<1>2. /\ Running(put) /\ SameButData(m, put) /\ Keeps(m, put, {dst})
      /\ Get(put, dst) = Apply(sym, Get(m, dst), Get(m, src))
  BY PutFacts DEF put
<1>3. Running(n) /\ SameButData(put, n) /\ n.reg = put.reg /\ n.stack = put.stack /\ n.ebp = put.ebp
  BY <1>1, <1>2 DEF Running, IsMachine, Fields, SameButData
<1>4. \A o : Get(n, o) = Get(put, o)
  BY <1>3 DEF Get, Peek
<1> QED BY <1>2, <1>3, <1>4 DEF SameButData, Keeps, Worked

LEMMA ExecCmp ==
  ASSUME NEW m, Running(m), NEW src, NEW dst, NEW decided,
         NEW n, n = Exec(m, C("cmp", src, dst), decided)
  PROVE  /\ Running(n) /\ SameButData(m, n) /\ n.flags = <<Get(m, dst), Get(m, src)>>
         /\ Keeps(m, n, {})
<1>1. n = [m EXCEPT !.flags = <<Get(m, dst), Get(m, src)>>]
  BY DEF Exec, C, Running
<1>2. /\ Running(n) /\ SameButData(m, n) /\ n.reg = m.reg /\ n.stack = m.stack /\ n.ebp = m.ebp
      /\ n.flags = <<Get(m, dst), Get(m, src)>>
  BY <1>1 DEF Running, IsMachine, Fields, SameButData
<1>3. \A o : Get(n, o) = Get(m, o)
  BY <1>2 DEF Get, Peek
<1> QED BY <1>2, <1>3 DEF Keeps

LEMMA ExecEsp ==
  ASSUME NEW m, Running(m), NEW k \in Int, NEW decided,
         NEW n, n = Exec(m, C("esp", Imm(k), eax), decided)
  PROVE  /\ Running(n) /\ n.esp = m.esp + k /\ n.out = m.out /\ n.aligned = m.aligned
         /\ Keeps(m, n, {})
<1>1. n = [m EXCEPT !.esp = @ + k, !.flags = unknown]
  BY DEF Exec, C, Running, Imm
<1>2. m.esp + k \in Int /\ DOMAIN m = Fields
  BY DEF Running, IsMachine
<1>3. /\ DOMAIN n = Fields /\ n.esp = m.esp + k /\ n.out = m.out /\ n.aligned = m.aligned
      /\ n.reg = m.reg /\ n.stack = m.stack /\ n.ebp = m.ebp /\ n.goto = m.goto
  BY <1>1, <1>2 DEF Fields
<1>4. Running(n)
  BY <1>2, <1>3 DEF Running, IsMachine
<1>5. \A o : Get(n, o) = Get(m, o)
  BY <1>3 DEF Get, Peek
<1> QED BY <1>3, <1>4, <1>5 DEF Keeps

LEMMA ExecPush ==
  ASSUME NEW m, Running(m), NEW src, NEW decided, NEW n, n = Exec(m, C("push", src, eax), decided)
  PROVE  /\ Running(n) /\ n.esp = m.esp - 4 /\ n.out = m.out /\ n.aligned = m.aligned
         /\ Get(n, Mem(m.esp + 4)) = Get(m, src) /\ Keeps(m, n, {Mem(m.esp + 4)})
<1> DEFINE put == Put(m, Mem(m.esp + 4), Get(m, src))
<1>1. m.esp \in Int /\ Mem(m.esp + 4) \in Locations
  BY DEF Running, Locations
<1>2. put = Poke(m, m.esp - 4, Get(m, src))
  <2>1. m.ebp[2] + (m.esp + 4) = m.esp - 4
    BY <1>1 DEF Running
  <2> QED BY <2>1 DEF Put, Mem
<1>3. n = [put EXCEPT !.esp = m.esp - 4]
  BY <1>2 DEF Exec, C, Running, PushOn
<1> HIDE DEF put
<1>4. /\ Running(put) /\ SameButData(m, put) /\ Get(put, Mem(m.esp + 4)) = Get(m, src)
      /\ Keeps(m, put, {Mem(m.esp + 4)})
  BY <1>1, PutFacts DEF put
<1>5. m.esp - 4 \in Int /\ DOMAIN put = Fields
  BY <1>1, <1>4 DEF Running, IsMachine
<1>6. /\ DOMAIN n = Fields /\ n.esp = m.esp - 4 /\ n.out = put.out /\ n.aligned = put.aligned
      /\ n.reg = put.reg /\ n.stack = put.stack /\ n.ebp = put.ebp /\ n.goto = put.goto
  BY <1>3, <1>5 DEF Fields
<1>7. Running(n)
  BY <1>4, <1>5, <1>6 DEF Running, IsMachine
<1>8. \A o : Get(n, o) = Get(put, o)
  BY <1>6 DEF Get, Peek
<1> QED BY <1>4, <1>6, <1>7, <1>8 DEF Keeps, SameButData

LEMMA ExecPop ==
  ASSUME NEW m, Running(m), NEW r \in FourRegs, NEW decided,
         NEW n, n = Exec(m, C("pop", eax, Reg(r)), decided)
  PROVE  /\ Running(n) /\ n.esp = m.esp + 4 /\ n.out = m.out /\ n.aligned = m.aligned
         /\ Get(n, Reg(r)) = Get(m, Mem(m.esp + 8)) /\ Keeps(m, n, {Reg(r)})
<1> DEFINE put == Put(m, Reg(r), Get(m, Mem(m.esp + 8)))
<1>1. m.esp \in Int /\ m.esp + 4 \in Int /\ Reg(r) \in Locations
  BY DEF Running, Locations
<1>2. Get(m, Mem(m.esp + 8)) = Peek(m, m.esp)
  <2>1. (m.esp + 8) - 8 = m.esp /\ m.esp + 8 \in Int
    BY <1>1
  <2>2. Get(m, Mem(m.esp + 8)) = Peek(m, (m.esp + 8) - 8)
    BY <2>1, GetFacts
  <2> QED BY <2>1, <2>2
<1>3. n = [put EXCEPT !.esp = m.esp + 4]
  BY <1>2 DEF Exec, C, Running
<1> HIDE DEF put
<1>4. /\ Running(put) /\ SameButData(m, put) /\ Get(put, Reg(r)) = Get(m, Mem(m.esp + 8))
      /\ Keeps(m, put, {Reg(r)})
  BY <1>1, PutFacts DEF put
<1>5. DOMAIN put = Fields
  BY <1>4 DEF Running, IsMachine
<1>6. /\ DOMAIN n = Fields /\ n.esp = m.esp + 4 /\ n.out = put.out /\ n.aligned = put.aligned
      /\ n.reg = put.reg /\ n.stack = put.stack /\ n.ebp = put.ebp /\ n.goto = put.goto
  BY <1>3, <1>5 DEF Fields
<1>7. Running(n)
  BY <1>1, <1>4, <1>6 DEF Running, IsMachine
<1>8. \A o : Get(n, o) = Get(put, o)
  BY <1>6 DEF Get, Peek
<1> QED BY <1>4, <1>6, <1>7, <1>8 DEF Keeps, SameButData

\* What a call of read or print does.
Called(m, n, f) ==
  /\ Running(n) /\ n.esp = m.esp
  /\ m.aligned /\ m.esp % 16 = 0 => n.aligned
  /\ n.out = Append(m.out, IF f = "read" THEN <<"read", junk>>
                           ELSE <<"print", Get(m, Mem(m.esp + 8))>>)
  /\ f = "read" => Get(n, eax) = Input(m.out)
  /\ Get(n, Reg("ebx")) = Get(m, Reg("ebx"))
  /\ \A o \in Int : o > m.esp + 8 \/ (f = "read" /\ o = m.esp + 8)
                       => Get(n, Mem(o)) = Get(m, Mem(o))

LEMMA ExecCall ==
  ASSUME NEW m, Running(m), NEW f \in {"read", "print"}, NEW decided,
         NEW n, n = Exec(m, On("call", f, eax), decided)
  PROVE  Called(m, n, f)
<1>1. n = CallExternal(m, f)
  BY DEF Exec, On, Running
<1>2. DOMAIN m = Fields /\ DOMAIN m.reg = FourRegs /\ m.esp \in Int
  BY DEF Running, IsMachine
<1>3. Get(m, Mem(m.esp + 8)) = Peek(m, m.esp)
  <2>1. (m.esp + 8) - 8 = m.esp /\ m.esp + 8 \in Int
    BY <1>2
  <2>2. Get(m, Mem(m.esp + 8)) = Peek(m, (m.esp + 8) - 8)
    BY <2>1, GetFacts
  <2> QED BY <2>1, <2>2
<1>4. /\ DOMAIN n = Fields /\ n.esp = m.esp /\ n.ebp = m.ebp /\ n.goto = m.goto
      /\ n.aligned = (m.aligned /\ m.esp % 16 = 0)
      /\ n.out = Append(m.out, IF f = "read" THEN <<"read", junk>> ELSE <<"print", Peek(m, m.esp)>>)
  BY <1>1, <1>2 DEF CallExternal, Fields
<1>5. /\ DOMAIN n.reg = FourRegs /\ n.reg["ebx"] = m.reg["ebx"]
      /\ f = "read" => n.reg["eax"] = Input(m.out)
  <2> DEFINE regs == [m.reg EXCEPT !["eax"] = IF f = "read" THEN Input(m.out) ELSE junk,
                                   !["ecx"] = junk, !["edx"] = junk]
  <2>1. n.reg = regs
    BY <1>1, <1>2 DEF CallExternal, Fields
  <2>2. /\ DOMAIN regs = FourRegs /\ regs["ebx"] = m.reg["ebx"]
        /\ f = "read" => regs["eax"] = Input(m.out)
    BY <1>2 DEF FourRegs
  <2> QED BY <2>1, <2>2
<1>6. n.stack = [a \in {b \in DOMAIN m.stack : b > m.esp \/ (f = "read" /\ b = m.esp)} |->
                   m.stack[a]]
  BY <1>1, <1>2 DEF CallExternal, Fields
<1>7. Running(n)
  BY <1>4, <1>5 DEF Running, IsMachine
<1>8. ASSUME NEW o \in Int, o > m.esp + 8 \/ (f = "read" /\ o = m.esp + 8)
      PROVE  Get(n, Mem(o)) = Get(m, Mem(o))
  <2>1. o - 8 \in Int /\ (o - 8 > m.esp \/ (f = "read" /\ o - 8 = m.esp))
    BY <1>2, <1>8
  <2>2. Peek(n, o - 8) = Peek(m, o - 8)
    BY <2>1, <1>6 DEF Peek
  <2> QED BY <2>2, <1>7, GetFacts
<1>9. Get(n, eax) = n.reg["eax"] /\ Get(n, Reg("ebx")) = n.reg["ebx"]
  BY <1>7, GetFacts DEF eax
<1>10. Get(m, Reg("ebx")) = m.reg["ebx"]
  BY GetFacts
<1> QED BY <1>3, <1>4, <1>5, <1>7, <1>8, <1>9, <1>10 DEF Called

-----------------------------------------------------------------------------
(***************************************************************************)
(* The sequences of instructions                                           *)
(***************************************************************************)

LEMMA CodeFacts ==
  /\ Code(<<>>)
  /\ \A a : Code(<<a>>)
  /\ \A a, b : Code(<<a, b>>) /\ <<a, b>> = <<a>> \o <<b>>
  /\ \A s, t : Code(s) /\ Code(t) => Code(s \o t)
<1>1. Code(<<>>)
  <2>1. <<>> \in Seq({})
    OBVIOUS
  <2> QED BY <2>1 DEF Code
<1>2. \A a : Code(<<a>>)
  <2> SUFFICES ASSUME NEW a PROVE <<a>> \in Seq({a})
    BY DEF Code
  <2> QED OBVIOUS
<1>3. ASSUME NEW a, NEW b PROVE Code(<<a, b>>) /\ <<a, b>> = <<a>> \o <<b>>
  <2>1. <<a, b>> \in Seq({a, b})
    OBVIOUS
  <2>2. <<a>> \o <<b>> = <<a, b>>
    <3> DEFINE s == <<a>> \o <<b>>
               u == <<a, b>>
    <3>1. <<a>> \in Seq({a, b}) /\ <<b>> \in Seq({a, b})
      OBVIOUS
    <3>2. Len(<<a>>) = 1 /\ Len(<<b>>) = 1 /\ <<a>>[1] = a /\ <<b>>[1] = b
      OBVIOUS
    <3>3. s \in Seq({a, b}) /\ Len(s) = 2 /\ s[1] = a /\ s[2] = b
      BY <3>1, <3>2
    <3>4. u \in Seq({a, b}) /\ Len(u) = 2 /\ u[1] = a /\ u[2] = b
      OBVIOUS
    <3> HIDE DEF s, u
    <3>5. \A k \in 1 .. 2 : s[k] = u[k]
      BY <3>3, <3>4
    <3>6. s = u
      <4>1. DOMAIN s = 1 .. 2 /\ DOMAIN u = 1 .. 2
        BY <3>3, <3>4
      <4>2. s = [k \in 1 .. 2 |-> s[k]] /\ u = [k \in 1 .. 2 |-> u[k]]
        BY <3>3, <3>4, <4>1
      <4> QED BY <3>5, <4>2
    <3> QED BY <3>6 DEF s, u
  <2> QED BY <2>1, <2>2 DEF Code
<1>4. ASSUME NEW s, NEW t, Code(s), Code(t) PROVE Code(s \o t)
  <2>1. PICK S : s \in Seq(S)
    BY <1>4 DEF Code
  <2>2. PICK T : t \in Seq(T)
    BY <1>4 DEF Code
  <2>3. s \in Seq(S \cup T) /\ t \in Seq(S \cup T)
    BY <2>1, <2>2
  <2>4. s \o t \in Seq(S \cup T)
    BY <2>3
  <2> QED BY <2>4 DEF Code
<1> QED BY <1>1, <1>2, <1>3, <1>4

LEMMA RunTwo ==
  ASSUME NEW m, NEW a, NEW b, NEW decided
  PROVE  Run(m, <<a, b>>, decided) = Exec(Exec(m, a, decided), b, decided)
<1>1. Run(m, <<a>> \o <<b>>, decided) = Run(Run(m, <<a>>, decided), <<b>>, decided)
  BY CodeFacts, RunBoth
<1> QED BY <1>1, CodeFacts, RunOne

\* After a sequence whose last instruction is c.
LEMMA RunLast ==
  ASSUME NEW m, NEW s, NEW c, NEW decided, Code(s)
  PROVE  Run(m, s \o <<c>>, decided) = Exec(Run(m, s, decided), c, decided)
BY CodeFacts, RunBoth, RunOne

LEMMA EaxFacts ==
  /\ eax = Reg("eax") /\ eax \in Locations /\ "eax" \notin Regs
  /\ \A r \in Regs : Reg(r) \in Locations /\ Reg(r) # eax
  /\ \A o \in Int : Mem(o) \in Locations /\ Mem(o) # eax
  /\ \A k \in Int : Imm(k) \in Sources /\ Imm(k) # eax
  /\ Locations \subseteq Sources
BY MachineRegisters, LocationFacts DEF eax, Locations, Sources, FourRegs

LEMMA TransferRun ==
  ASSUME NEW m, Running(m), NEW src \in Sources, NEW dst \in Locations, NEW decided,
         NEW n, n = Run(m, Transfer(src, dst), decided)
  PROVE  /\ Running(n) /\ SameButData(m, n) /\ n.flags = m.flags
         /\ Get(n, dst) = Get(m, src) /\ Keeps(m, n, {dst, eax})
         /\ Code(Transfer(src, dst))
<1>1. CASE src[1] = "mem" /\ dst[1] = "mem"
  <2>1. Transfer(src, dst) = <<Mov(src, eax), Mov(eax, dst)>>
    BY <1>1 DEF Transfer
  <2> DEFINE k == Exec(m, Mov(src, eax), decided)
  <2>2. n = Exec(k, Mov(eax, dst), decided)
    BY <2>1, RunTwo
  <2>3. /\ Running(k) /\ SameButData(m, k) /\ k.flags = m.flags
        /\ Get(k, eax) = Get(m, src) /\ Keeps(m, k, {eax})
    BY ExecMov, EaxFacts
  <2> HIDE DEF k
  <2>4. /\ Running(n) /\ SameButData(k, n) /\ n.flags = k.flags
        /\ Get(n, dst) = Get(k, eax) /\ Keeps(k, n, {dst})
    BY <2>2, <2>3, ExecMov
  <2>5. SameButData(m, n) /\ Keeps(m, n, {dst, eax})
    BY <2>3, <2>4 DEF SameButData, Keeps
  <2> QED BY <2>1, <2>3, <2>4, <2>5, CodeFacts
<1>2. CASE ~(src[1] = "mem" /\ dst[1] = "mem")
  <2>1. Transfer(src, dst) = <<Mov(src, dst)>>
    BY <1>2 DEF Transfer
  <2>2. n = Exec(m, Mov(src, dst), decided)
    BY <2>1, RunOne
  <2>3. /\ Running(n) /\ SameButData(m, n) /\ n.flags = m.flags
        /\ Get(n, dst) = Get(m, src) /\ Keeps(m, n, {dst})
    BY <2>2, ExecMov
  <2> QED BY <2>1, <2>3, CodeFacts DEF Keeps
<1> QED BY <1>1, <1>2

LEMMA SaveRun ==
  ASSUME NEW m, Running(m), NEW decided, NEW n, n = Run(m, SaveRegisters, decided)
  PROVE  /\ Running(n) /\ n.esp = m.esp - 8 /\ n.out = m.out /\ n.aligned = m.aligned
         /\ Get(n, Mem(m.esp + 4)) = Get(m, Reg("ecx")) /\ Get(n, Mem(m.esp)) = Get(m, Reg("edx"))
         /\ Keeps(m, n, {Mem(m.esp + 4), Mem(m.esp)})
<1> DEFINE k == Exec(m, C("push", Reg("ecx"), eax), decided)
<1>1. n = Exec(k, C("push", Reg("edx"), eax), decided)
  BY RunTwo DEF SaveRegisters
<1>2. /\ Running(k) /\ k.esp = m.esp - 4 /\ k.out = m.out /\ k.aligned = m.aligned
      /\ Get(k, Mem(m.esp + 4)) = Get(m, Reg("ecx")) /\ Keeps(m, k, {Mem(m.esp + 4)})
  BY ExecPush
<1> HIDE DEF k
<1>3. /\ Running(n) /\ n.esp = k.esp - 4 /\ n.out = k.out /\ n.aligned = k.aligned
      /\ Get(n, Mem(k.esp + 4)) = Get(k, Reg("edx")) /\ Keeps(k, n, {Mem(k.esp + 4)})
  BY <1>1, <1>2, ExecPush
<1>4. m.esp \in Int /\ k.esp + 4 = m.esp /\ k.esp - 4 = m.esp - 8
  BY <1>2 DEF Running
<1>5. /\ Reg("edx") \in Sources /\ Mem(m.esp + 4) \in Sources /\ Mem(m.esp) # Mem(m.esp + 4)
      /\ Reg("edx") # Mem(m.esp + 4)
  BY <1>4, LocationFacts DEF Sources, Locations, FourRegs
<1>6. Get(k, Reg("edx")) = Get(m, Reg("edx"))
  BY <1>2, <1>5 DEF Keeps
<1>7. Get(n, Mem(m.esp + 4)) = Get(m, Reg("ecx"))
  BY <1>2, <1>3, <1>4, <1>5 DEF Keeps
<1>8. Keeps(m, n, {Mem(m.esp + 4), Mem(m.esp)})
  BY <1>2, <1>3, <1>4 DEF Keeps
<1> QED BY <1>2, <1>3, <1>4, <1>6, <1>7, <1>8

LEMMA RestoreRun ==
  ASSUME NEW m, Running(m), NEW decided, NEW n, n = Run(m, RestoreRegisters, decided)
  PROVE  /\ Running(n) /\ n.esp = m.esp + 8 /\ n.out = m.out /\ n.aligned = m.aligned
         /\ Get(n, Reg("edx")) = Get(m, Mem(m.esp + 8))
         /\ Get(n, Reg("ecx")) = Get(m, Mem(m.esp + 12))
         /\ Keeps(m, n, {Reg("ecx"), Reg("edx")})
<1> DEFINE k == Exec(m, C("pop", eax, Reg("edx")), decided)
<1>1. n = Exec(k, C("pop", eax, Reg("ecx")), decided)
  BY RunTwo DEF RestoreRegisters
<1>2. "ecx" \in FourRegs /\ "edx" \in FourRegs
  BY DEF FourRegs
<1>3. /\ Running(k) /\ k.esp = m.esp + 4 /\ k.out = m.out /\ k.aligned = m.aligned
      /\ Get(k, Reg("edx")) = Get(m, Mem(m.esp + 8)) /\ Keeps(m, k, {Reg("edx")})
  BY <1>2, ExecPop
<1> HIDE DEF k
<1>4. /\ Running(n) /\ n.esp = k.esp + 4 /\ n.out = k.out /\ n.aligned = k.aligned
      /\ Get(n, Reg("ecx")) = Get(k, Mem(k.esp + 8)) /\ Keeps(k, n, {Reg("ecx")})
  BY <1>1, <1>2, <1>3, ExecPop
<1>5. m.esp \in Int /\ k.esp + 8 = m.esp + 12 /\ k.esp + 4 = m.esp + 8
  BY <1>3 DEF Running
<1>6. /\ Reg("edx") \in Sources /\ Mem(m.esp + 12) \in Sources
      /\ Mem(m.esp + 12) # Reg("edx") /\ Reg("edx") # Reg("ecx")
  BY <1>2, <1>5, LocationFacts DEF Sources, Locations
<1>7. Get(n, Reg("ecx")) = Get(m, Mem(m.esp + 12))
  BY <1>3, <1>4, <1>5, <1>6 DEF Keeps
<1>8. Get(n, Reg("edx")) = Get(m, Mem(m.esp + 8))
  BY <1>3, <1>4, <1>6 DEF Keeps
<1>9. Keeps(m, n, {Reg("ecx"), Reg("edx")})
  BY <1>3, <1>4 DEF Keeps
<1> QED BY <1>3, <1>4, <1>5, <1>7, <1>8, <1>9

\* From the call on: the stack pointer is A bytes below the saved registers.
CallReturns(k, n, f, E) ==
  /\ Running(n) /\ n.esp = E /\ n.aligned
  /\ n.out = Append(k.out, IF f = "read" THEN <<"read", junk>>
                           ELSE <<"print", Get(k, Mem(k.esp + 8))>>)
  /\ f = "read" => Get(n, eax) = Input(k.out)
  /\ Get(n, Reg("ebx")) = Get(k, Reg("ebx"))
  /\ Get(n, Reg("ecx")) = Get(k, Mem(E + 4)) /\ Get(n, Reg("edx")) = Get(k, Mem(E))
  /\ \A o \in Int : o >= E => Get(n, Mem(o)) = Get(k, Mem(o))

LEMMA CallCore ==
  ASSUME NEW k, Running(k), k.aligned, NEW f \in {"read", "print"}, NEW E \in Int, NEW A \in Nat,
         k.esp = E - 8 - A, f = "print" => A >= 4, k.esp % 16 = 0, NEW decided,
         NEW n, n = Run(Exec(Exec(k, On("call", f, eax), decided), C("esp", Imm(A), eax), decided),
                        RestoreRegisters, decided)
  PROVE  CallReturns(k, n, f, E)
<1>0. PICK k1 : k1 = Exec(k, On("call", f, eax), decided)
  OBVIOUS
<1>12. PICK k2 : k2 = Exec(k1, C("esp", Imm(A), eax), decided)
  OBVIOUS
<1>13. Called(k, k1, f)
  BY <1>0, ExecCall
<1>1. /\ Running(k1) /\ k1.esp = k.esp /\ k1.aligned
      /\ k1.out = Append(k.out, IF f = "read" THEN <<"read", junk>>
                                ELSE <<"print", Get(k, Mem(k.esp + 8))>>)
      /\ f = "read" => Get(k1, eax) = Input(k.out)
      /\ Get(k1, Reg("ebx")) = Get(k, Reg("ebx"))
      /\ \A o \in Int : o > k.esp + 8 \/ (f = "read" /\ o = k.esp + 8)
                           => Get(k1, Mem(o)) = Get(k, Mem(o))
  BY <1>13 DEF Called
<1>2. /\ Running(k2) /\ k2.esp = k1.esp + A /\ k2.out = k1.out /\ k2.aligned = k1.aligned
      /\ Keeps(k1, k2, {})
  <2>1. Running(k1) /\ A \in Int
    BY <1>1
  <2> QED BY <2>1, <1>12, ExecEsp
<1>3. n = Run(k2, RestoreRegisters, decided)
  BY <1>0, <1>12
<1>4. k2.esp + 8 = E /\ k2.esp + 12 = E + 4
  BY <1>1, <1>2
<1>5. /\ Running(n) /\ n.esp = E /\ n.out = k2.out /\ n.aligned = k2.aligned
      /\ Get(n, Reg("edx")) = Get(k2, Mem(E))
      /\ Get(n, Reg("ecx")) = Get(k2, Mem(E + 4))
      /\ Keeps(k2, n, {Reg("ecx"), Reg("edx")})
  BY <1>2, <1>3, <1>4, RestoreRun
<1>6. ASSUME NEW o \in Int, o >= E PROVE Get(k2, Mem(o)) = Get(k, Mem(o))
  <2>1. o > k.esp + 8 \/ (f = "read" /\ o = k.esp + 8)
    BY <1>6
  <2>2. Mem(o) \in Sources
    BY EaxFacts
  <2> QED BY <2>1, <2>2, <1>1, <1>2 DEF Keeps
<1>7. ASSUME NEW o \in Int PROVE Get(n, Mem(o)) = Get(k2, Mem(o))
  <2>1. Mem(o) \in Sources /\ Mem(o) # Reg("ecx") /\ Mem(o) # Reg("edx")
    BY EaxFacts, LocationFacts DEF FourRegs
  <2> QED BY <2>1, <1>5 DEF Keeps
<1>8. /\ eax \in Sources /\ eax # Reg("ecx") /\ eax # Reg("edx")
      /\ Reg("ebx") \in Sources /\ Reg("ebx") # Reg("ecx") /\ Reg("ebx") # Reg("edx")
  BY LocationFacts DEF eax, Sources, Locations, FourRegs
<1>9. Get(n, eax) = Get(k1, eax) /\ Get(n, Reg("ebx")) = Get(k1, Reg("ebx"))
  BY <1>2, <1>5, <1>8 DEF Keeps
<1>10. Get(n, Reg("edx")) = Get(k, Mem(E)) /\ Get(n, Reg("ecx")) = Get(k, Mem(E + 4))
  BY <1>5, <1>6
<1>11. n.aligned /\ n.out = k1.out
  BY <1>1, <1>2, <1>5
<1> QED BY <1>1, <1>5, <1>6, <1>7, <1>9, <1>10, <1>11 DEF CallReturns

\* What a call may change: eax, and what is below the frame.
Scratch(E) == {eax} \cup {Mem(o) : o \in {p \in Int : p < E + 8}}

\* What is not scratch.
LEMMA ScratchFacts ==
  ASSUME NEW E \in Int
  PROVE  /\ \A o \in Int : o >= E + 8 => Mem(o) \notin Scratch(E)
         /\ \A r \in FourRegs : r # "eax" => Reg(r) \notin Scratch(E)
         /\ \A o \in Int : o < E + 8 => Mem(o) \in Scratch(E)
         /\ eax \in Scratch(E)
         /\ \A o \in Sources : o \notin Scratch(E) =>
              \/ \E k \in Int : o = Imm(k)
              \/ \E p \in Int : p >= E + 8 /\ o = Mem(p)
              \/ \E r \in {"ebx", "ecx", "edx"} : o = Reg(r)
<1>1. \A o \in Int : o >= E + 8 => Mem(o) \notin Scratch(E)
  <2> SUFFICES ASSUME NEW o \in Int, o >= E + 8, Mem(o) \in Scratch(E) PROVE FALSE
    OBVIOUS
  <2>1. PICK p \in Int : p < E + 8 /\ Mem(o) = Mem(p)
    BY EaxFacts DEF Scratch
  <2> QED BY <2>1, LocationFacts
<1>2. \A r \in FourRegs : r # "eax" => Reg(r) \notin Scratch(E)
  BY LocationFacts DEF Scratch, eax, FourRegs
<1>3. /\ \A o \in Int : o < E + 8 => Mem(o) \in Scratch(E)
      /\ eax \in Scratch(E)
  BY DEF Scratch
<1>4. ASSUME NEW o \in Sources, o \notin Scratch(E)
      PROVE  \/ \E k \in Int : o = Imm(k)
             \/ \E p \in Int : p >= E + 8 /\ o = Mem(p)
             \/ \E r \in {"ebx", "ecx", "edx"} : o = Reg(r)
  <2>1. CASE \E k \in Int : o = Imm(k)
    BY <2>1
  <2>2. CASE \E p \in Int : o = Mem(p)
    BY <2>2, <1>4, <1>3
  <2>3. CASE \E r \in FourRegs : o = Reg(r)
    BY <2>3, <1>4, <1>3 DEF FourRegs, eax
  <2> QED BY <2>1, <2>2, <2>3 DEF Sources, Locations
<1> QED BY <1>1, <1>2, <1>3, <1>4

-----------------------------------------------------------------------------
(***************************************************************************)
(* Calls                                                                   *)
(***************************************************************************)

\* k is ready for a call: A bytes below the saved registers, nothing else lost.
Ready(m, k, A) ==
  /\ Running(k) /\ k.esp = m.esp - 8 - A /\ k.out = m.out /\ k.aligned = m.aligned
  /\ Get(k, Mem(m.esp + 4)) = Get(m, Reg("ecx")) /\ Get(k, Mem(m.esp)) = Get(m, Reg("edx"))
  /\ Keeps(m, k, Scratch(m.esp))

\* ecx and edx saved, and the stack pointer moved down.
LEMMA ReadyEmpty ==
  ASSUME NEW m, Running(m), NEW P \in Nat, NEW decided,
         NEW k, k = Exec(Run(m, SaveRegisters, decided), C("esp", Imm(-P), eax), decided)
  PROVE  Ready(m, k, P)
<1>0. PICK k0 : k0 = Run(m, SaveRegisters, decided)
  OBVIOUS
<1>1. /\ Running(k0) /\ k0.esp = m.esp - 8 /\ k0.out = m.out /\ k0.aligned = m.aligned
      /\ Get(k0, Mem(m.esp + 4)) = Get(m, Reg("ecx")) /\ Get(k0, Mem(m.esp)) = Get(m, Reg("edx"))
      /\ Keeps(m, k0, {Mem(m.esp + 4), Mem(m.esp)})
  BY <1>0, SaveRun
<1>2. k = Exec(k0, C("esp", Imm(-P), eax), decided) /\ -P \in Int
  BY <1>0
<1>3. /\ Running(k) /\ k.esp = k0.esp + (-P) /\ k.out = k0.out /\ k.aligned = k0.aligned
      /\ Keeps(k0, k, {})
  BY <1>1, <1>2, ExecEsp
<1>4. m.esp \in Int
  BY DEF Running
<1>5. Mem(m.esp + 4) \in Scratch(m.esp) /\ Mem(m.esp) \in Scratch(m.esp)
  BY <1>4, ScratchFacts
<1>6. Keeps(m, k, Scratch(m.esp))
  BY <1>1, <1>3, <1>5 DEF Keeps
<1>7. Get(k, Mem(m.esp + 4)) = Get(k0, Mem(m.esp + 4)) /\ Get(k, Mem(m.esp)) = Get(k0, Mem(m.esp))
  <2>1. Mem(m.esp + 4) \in Sources /\ Mem(m.esp) \in Sources
    BY <1>4, EaxFacts
  <2> QED BY <2>1, <1>3 DEF Keeps
<1>8. k.esp = m.esp - 8 - P
  BY <1>1, <1>3, <1>4
<1> QED BY <1>1, <1>3, <1>6, <1>7, <1>8 DEF Ready

\* The argument is pushed below what has been saved.
LEMMA ReadyArgument ==
  ASSUME NEW m, Running(m), NEW P \in Nat, NEW k, Ready(m, k, P), NEW decided,
         NEW src \in Sources, src \notin Scratch(m.esp),
         NEW l, l = Exec(k, C("push", src, eax), decided)
  PROVE  Ready(m, l, 4 + P) /\ Get(l, Mem(l.esp + 8)) = Get(m, src)
<1>1. m.esp \in Int
  BY DEF Running
<1>2. Running(k) /\ k.esp = m.esp - 8 - P
  BY DEF Ready
<1>3. /\ Running(l) /\ l.esp = k.esp - 4 /\ l.out = k.out /\ l.aligned = k.aligned
      /\ Get(l, Mem(k.esp + 4)) = Get(k, src) /\ Keeps(k, l, {Mem(k.esp + 4)})
  BY <1>2, ExecPush
<1>4. k.esp + 4 \in Int /\ k.esp + 4 < m.esp /\ l.esp + 8 = k.esp + 4 /\ l.esp = m.esp - 8 - (4 + P)
  BY <1>1, <1>2, <1>3
<1>5. /\ Mem(k.esp + 4) # Mem(m.esp) /\ Mem(k.esp + 4) # Mem(m.esp + 4)
      /\ Mem(m.esp) \in Sources /\ Mem(m.esp + 4) \in Sources
  BY <1>1, <1>4, LocationFacts, EaxFacts
<1>6. Get(l, Mem(m.esp + 4)) = Get(k, Mem(m.esp + 4)) /\ Get(l, Mem(m.esp)) = Get(k, Mem(m.esp))
  BY <1>3, <1>5 DEF Keeps
<1>7. Mem(k.esp + 4) \in Scratch(m.esp)
  BY <1>1, <1>4, ScratchFacts
<1>8. Keeps(m, l, Scratch(m.esp))
  BY <1>3, <1>7 DEF Keeps, Ready
<1>9. Get(k, src) = Get(m, src)
  BY DEF Keeps, Ready
<1> QED BY <1>3, <1>4, <1>6, <1>8, <1>9 DEF Ready

\* The whole of a call, seen from before the registers are saved.
CallDone(m, n, f, value) ==
  /\ Running(n) /\ n.esp = m.esp /\ n.aligned
  /\ n.out = Append(m.out, IF f = "read" THEN <<"read", junk>> ELSE <<"print", value>>)
  /\ f = "read" => Get(n, eax) = Input(m.out)
  /\ Keeps(m, n, Scratch(m.esp))

LEMMA CallRun ==
  ASSUME NEW m, Running(m), m.aligned, NEW f \in {"read", "print"}, NEW A \in Nat,
         NEW k, Ready(m, k, A), f = "print" => A >= 4, (m.esp - 8 - A) % 16 = 0, NEW decided,
         NEW n, n = Run(Exec(Exec(k, On("call", f, eax), decided), C("esp", Imm(A), eax), decided),
                        RestoreRegisters, decided)
  PROVE  CallDone(m, n, f, Get(k, Mem(k.esp + 8)))
<1>1. PICK E \in Int : E = m.esp
  BY DEF Running
<1>2. Running(k) /\ k.aligned /\ k.esp = E - 8 - A /\ k.esp % 16 = 0 /\ k.out = m.out
  BY <1>1 DEF Ready
<1>3. CallReturns(k, n, f, E)
  BY <1>2, CallCore
<1>4. /\ Get(n, Reg("ecx")) = Get(m, Reg("ecx")) /\ Get(n, Reg("edx")) = Get(m, Reg("edx"))
  BY <1>1, <1>3 DEF CallReturns, Ready
<1>5. Keeps(m, n, Scratch(m.esp))
  <2> SUFFICES ASSUME NEW o \in Sources, o \notin Scratch(E) PROVE Get(n, o) = Get(m, o)
    BY <1>1 DEF Keeps
  <2>1. Get(k, o) = Get(m, o)
    BY <1>1 DEF Ready, Keeps
  <2>2. CASE \E c \in Int : o = Imm(c)
    <3>1. PICK c \in Int : o = Imm(c)
      BY <2>2
    <3>2. Running(n)
      BY <1>3 DEF CallReturns
    <3>3. Get(m, o) = <<"const", c>>
      BY <3>1, GetFacts
    <3>4. Get(n, o) = <<"const", c>>
      BY <3>1, <3>2, GetFacts
    <3> QED BY <3>3, <3>4
  <2>3. CASE \E p \in Int : p >= E + 8 /\ o = Mem(p)
    <3>1. PICK p \in Int : p >= E + 8 /\ o = Mem(p)
      BY <2>3
    <3>2. p >= E
      BY <3>1
    <3> QED BY <3>1, <3>2, <2>1, <1>3 DEF CallReturns
  <2>4. CASE o \in {Reg("ebx"), Reg("ecx"), Reg("edx")}
    BY <2>4, <2>1, <1>3, <1>4 DEF CallReturns
  <2> QED BY <2>2, <2>3, <2>4, ScratchFacts
<1> QED BY <1>1, <1>2, <1>3, <1>5 DEF CallDone, CallReturns

\* The padding makes what is below the caller's frame a multiple of 16.
LEMMA PaddingFacts ==
  ASSUME localMem \in Nat, NEW a \in Nat
  PROVE  Padding(a) \in Nat /\ (-(12 + localMem) - 8 - (a + Padding(a))) % 16 = 0
<1>1. PICK x \in Nat : x = localMem + 20 + a
  OBVIOUS
<1>2. Padding(a) = (16 - (x % 16)) % 16
  BY <1>1 DEF Padding, savedMem
<1>3. (x % 16) \in 0 .. 15
  OBVIOUS
<1>4. Padding(a) \in Nat /\ (x + Padding(a)) % 16 = 0
  BY <1>2, <1>3
<1>5. PICK y \in Nat : y = x + Padding(a)
  BY <1>4
<1>6. y % 16 = 0 => (-y) % 16 = 0
  OBVIOUS
<1>7. -(12 + localMem) - 8 - (a + Padding(a)) = -y
  BY <1>1, <1>4, <1>5
<1> QED BY <1>4, <1>5, <1>6, <1>7

\* How the code of a call is put together.
CallParts(f, P, A, push, move) ==
  SaveRegisters \o <<C("esp", Imm(-P), eax)>> \o push
    \o <<On("call", f, eax), C("esp", Imm(A), eax)>> \o RestoreRegisters \o move

BeforeCall(m, P, push, decided) ==
  Run(Exec(Run(m, SaveRegisters, decided), C("esp", Imm(-P), eax), decided), push, decided)

AfterCall(k, f, A, decided) ==
  Run(Exec(Exec(k, On("call", f, eax), decided), C("esp", Imm(A), eax), decided),
      RestoreRegisters, decided)

LEMMA CallPartsRun ==
  ASSUME NEW m, NEW f, NEW P, NEW A, NEW push, NEW move, Code(push), Code(move), NEW decided
  PROVE  Run(m, CallParts(f, P, A, push, move), decided)
           = Run(AfterCall(BeforeCall(m, P, push, decided), f, A, decided), move, decided)
<1> DEFINE s1 == SaveRegisters
           s2 == s1 \o <<C("esp", Imm(-P), eax)>>
           s3 == s2 \o push
           call == <<On("call", f, eax), C("esp", Imm(A), eax)>>
           s4 == s3 \o call
           s5 == s4 \o RestoreRegisters
<1>1. Code(s1) /\ Code(call) /\ Code(RestoreRegisters)
  BY CodeFacts DEF SaveRegisters, RestoreRegisters
<1>2. Code(s2) /\ Run(m, s2, decided) = Exec(Run(m, s1, decided), C("esp", Imm(-P), eax), decided)
  BY <1>1, CodeFacts, RunLast
<1>3. Code(s3) /\ Run(m, s3, decided) = BeforeCall(m, P, push, decided)
  <2>1. Run(m, s3, decided) = Run(Run(m, s2, decided), push, decided)
    <3> HIDE DEF s2
    <3> QED BY <1>2, RunBoth
  <2>2. Code(s3)
    <3> HIDE DEF s2
    <3> QED BY <1>2, CodeFacts
  <2> QED BY <2>1, <2>2, <1>2 DEF BeforeCall
<1>4. PICK k : k = BeforeCall(m, P, push, decided)
  OBVIOUS
<1>5. Code(s4) /\ Run(m, s4, decided) = Run(k, call, decided)
  <2> HIDE DEF s3, call
  <2> QED BY <1>1, <1>3, <1>4, RunBoth, CodeFacts
<1>6. Run(k, call, decided) =
        Exec(Exec(k, On("call", f, eax), decided), C("esp", Imm(A), eax), decided)
  BY RunTwo
<1>7. Code(s5) /\ Run(m, s5, decided) = AfterCall(k, f, A, decided)
  <2>1. Run(m, s5, decided) = Run(Run(m, s4, decided), RestoreRegisters, decided)
    <3> HIDE DEF s4
    <3> QED BY <1>1, <1>5, RunBoth
  <2>2. Code(s5)
    <3> HIDE DEF s4
    <3> QED BY <1>1, <1>5, CodeFacts
  <2> QED BY <2>1, <2>2, <1>5, <1>6 DEF AfterCall
<1>8. CallParts(f, P, A, push, move) = s5 \o move
  BY DEF CallParts
<1>9. Run(m, s5 \o move, decided) = Run(Run(m, s5, decided), move, decided)
  <2> HIDE DEF s5
  <2> QED BY <1>7, RunBoth
<1> QED BY <1>4, <1>7, <1>8, <1>9

\* print(x): the argument is passed on, nothing but scratch is lost.
LEMMA PrintRun ==
  ASSUME NEW m, Running(m), m.aligned, localMem \in Nat, m.esp = -(12 + localMem),
         NEW i, fn[i].op = "print", Len(fn[i].args) = 1,
         ArgPlace(i, 1) \in Sources, ArgPlace(i, 1) \notin Scratch(m.esp), NEW decided,
         NEW n, n = Run(m, CallCode(i), decided)
  PROVE  CallDone(m, n, "print", Get(m, ArgPlace(i, 1)))
<1>1. PICK P \in Nat : P = Padding(4) /\ (m.esp - 8 - (4 + P)) % 16 = 0
  BY PaddingFacts
<1>2. PICK k0 : k0 = Exec(Run(m, SaveRegisters, decided), C("esp", Imm(-P), eax), decided)
  OBVIOUS
<1>3. PICK src : src = ArgPlace(i, 1)
  OBVIOUS
<1>4. PICK k : k = Exec(k0, C("push", src, eax), decided)
  OBVIOUS
<1>5. Ready(m, k0, P)
  BY <1>2, ReadyEmpty
<1>6. Ready(m, k, 4 + P) /\ Get(k, Mem(k.esp + 8)) = Get(m, src)
  BY <1>3, <1>4, <1>5, ReadyArgument
<1>7. PICK l : l = AfterCall(k, "print", 4 + P, decided)
  OBVIOUS
<1>8. n = Run(l, <<>>, decided)
  <2>1. Code(<<C("push", src, eax)>>) /\ Code(<<>>) /\ 4 * Len(fn[i].args) = 4 /\ 4 # 0
    BY CodeFacts
  <2>2. CallCode(i) = CallParts("print", P, 4 + P, <<C("push", src, eax)>>, <<>>)
    BY <2>1, <1>1, <1>3 DEF CallCode, CallParts
  <2>3. k = BeforeCall(m, P, <<C("push", src, eax)>>, decided)
    BY <1>2, <1>4, RunOne DEF BeforeCall
  <2> QED BY <2>1, <2>2, <2>3, <1>7, CallPartsRun
<1>9. CallDone(m, l, "print", Get(k, Mem(k.esp + 8)))
  <2>1. 4 + P \in Nat /\ 4 + P >= 4 /\ "print" \in {"read", "print"}
    OBVIOUS
  <2> QED BY <2>1, <1>1, <1>6, <1>7, CallRun DEF AfterCall
<1> QED BY <1>3, <1>6, <1>8, <1>9, RunNothing

\* x = read(): the input gets to the place of the value.
LEMMA ReadRun ==
  ASSUME NEW m, Running(m), m.aligned, localMem \in Nat, m.esp = -(12 + localMem),
         NEW i, fn[i].op = "read", Len(fn[i].args) = 0, Place(i) \in Locations, NEW decided,
         NEW n, n = Run(m, CallCode(i), decided)
  PROVE  /\ Running(n) /\ n.esp = m.esp /\ n.aligned
         /\ n.out = Append(m.out, <<"read", junk>>)
         /\ Get(n, Place(i)) = Input(m.out)
         /\ Keeps(m, n, Scratch(m.esp) \cup {Place(i)})
<1>1. PICK P \in Nat : P = Padding(0) /\ (m.esp - 8 - P) % 16 = 0
  <2>1. Padding(0) \in Nat /\ 0 + Padding(0) = Padding(0)
    BY PaddingFacts
  <2> QED BY <2>1, PaddingFacts
<1>2. PICK k : k = Exec(Run(m, SaveRegisters, decided), C("esp", Imm(-P), eax), decided)
  OBVIOUS
<1>3. PICK dst \in Locations : dst = Place(i)
  OBVIOUS
<1>4. Ready(m, k, P)
  BY <1>2, ReadyEmpty
<1>5. PICK l : l = AfterCall(k, "read", P, decided)
  OBVIOUS
<1>6. n = Run(l, <<Mov(eax, dst)>>, decided)
  <2>1. Code(<<Mov(eax, dst)>>) /\ Code(<<>>) /\ 4 * Len(fn[i].args) = 0 /\ 0 + P = P
    BY CodeFacts
  <2>2. CallCode(i) = CallParts("read", P, P, <<>>, <<Mov(eax, dst)>>)
    BY <2>1, <1>1, <1>3 DEF CallCode, CallParts
  <2>3. k = BeforeCall(m, P, <<>>, decided)
    BY <1>2, RunNothing DEF BeforeCall
  <2> QED BY <2>1, <2>2, <2>3, <1>5, CallPartsRun
<1>7. CallDone(m, l, "read", Get(k, Mem(k.esp + 8)))
  <2>1. "read" \in {"read", "print"} /\ "read" # "print"
    OBVIOUS
  <2> QED BY <2>1, <1>1, <1>4, <1>5, CallRun DEF AfterCall
<1>8. /\ Running(l) /\ l.esp = m.esp /\ l.aligned /\ l.out = Append(m.out, <<"read", junk>>)
      /\ Get(l, eax) = Input(m.out) /\ Keeps(m, l, Scratch(m.esp))
  BY <1>7 DEF CallDone
<1>9. n = Exec(l, Mov(eax, dst), decided)
  BY <1>6, RunOne
<1>10. /\ Running(n) /\ SameButData(l, n) /\ Get(n, dst) = Get(l, eax) /\ Keeps(l, n, {dst})
  BY <1>8, <1>9, ExecMov
<1> QED BY <1>3, <1>8, <1>10 DEF SameButData, Keeps

-----------------------------------------------------------------------------
(***************************************************************************)
(* Arithmetic and comparisons                                              *)
(***************************************************************************)

\* The first operand gets to the register the instruction works in.
LEMMA FirstOperandRun ==
  ASSUME NEW m, Running(m), NEW i, ArgPlace(i, 1) \in Sources, WorksIn(i) \in Locations,
         NEW decided, NEW n, n = Run(m, FirstOperand(i), decided)
  PROVE  /\ Running(n) /\ SameButData(m, n) /\ Get(n, WorksIn(i)) = Get(m, ArgPlace(i, 1))
         /\ Keeps(m, n, {WorksIn(i)}) /\ (ArgPlace(i, 1) = WorksIn(i) => n = m)
         /\ Code(FirstOperand(i))
<1>1. CASE ArgPlace(i, 1) = WorksIn(i)
  <2>1. FirstOperand(i) = <<>>
    BY <1>1 DEF FirstOperand
  <2>2. n = m
    BY <2>1, RunNothing
  <2> QED BY <1>1, <2>1, <2>2, CodeFacts DEF SameButData, Keeps
<1>2. CASE ArgPlace(i, 1) # WorksIn(i)
  <2>1. FirstOperand(i) = <<Mov(ArgPlace(i, 1), WorksIn(i))>>
    BY <1>2 DEF FirstOperand
  <2>2. PICK src \in Sources, dst \in Locations : src = ArgPlace(i, 1) /\ dst = WorksIn(i)
    OBVIOUS
  <2>3. n = Exec(m, Mov(src, dst), decided)
    BY <2>1, <2>2, RunOne
  <2>4. Running(n) /\ SameButData(m, n) /\ Get(n, dst) = Get(m, src) /\ Keeps(m, n, {dst})
    BY <2>3, ExecMov
  <2> QED BY <1>2, <2>1, <2>2, <2>4, CodeFacts
<1> QED BY <1>1, <1>2

\* The second operand is still what it was when it is read.
LEMMA SecondOperand ==
  ASSUME NEW m, Running(m), NEW i, ArgPlace(i, 1) \in Sources, WorksIn(i) \in Locations,
         ArgPlace(i, 2) \in Sources, ArgPlace(i, 2) = WorksIn(i) => ArgPlace(i, 1) = WorksIn(i),
         NEW decided, NEW n, n = Run(m, FirstOperand(i), decided)
  PROVE  Get(n, ArgPlace(i, 2)) = Get(m, ArgPlace(i, 2))
<1>1. Keeps(m, n, {WorksIn(i)}) /\ (ArgPlace(i, 1) = WorksIn(i) => n = m)
  BY FirstOperandRun
<1>2. CASE ArgPlace(i, 2) = WorksIn(i)
  BY <1>1, <1>2
<1>3. CASE ArgPlace(i, 2) # WorksIn(i)
  BY <1>1, <1>3 DEF Keeps
<1> QED BY <1>2, <1>3

LEMMA ICmpRun ==
  ASSUME NEW m, Running(m), NEW i, ArgPlace(i, 1) \in Sources, WorksIn(i) \in Locations,
         ArgPlace(i, 2) \in Sources, ArgPlace(i, 2) = WorksIn(i) => ArgPlace(i, 1) = WorksIn(i),
         NEW decided, NEW n, n = Run(m, ICmpCode(i), decided)
  PROVE  /\ Running(n) /\ SameButData(m, n) /\ Keeps(m, n, {WorksIn(i)})
         /\ n.flags = <<Get(m, ArgPlace(i, 1)), Get(m, ArgPlace(i, 2))>>
<1>1. PICK k : k = Run(m, FirstOperand(i), decided)
  OBVIOUS
<1>2. /\ Running(k) /\ SameButData(m, k) /\ Get(k, WorksIn(i)) = Get(m, ArgPlace(i, 1))
      /\ Keeps(m, k, {WorksIn(i)}) /\ Code(FirstOperand(i))
  BY <1>1, FirstOperandRun
<1>3. Get(k, ArgPlace(i, 2)) = Get(m, ArgPlace(i, 2))
  BY <1>1, SecondOperand
<1>4. PICK src, dst : src = ArgPlace(i, 2) /\ dst = WorksIn(i)
  OBVIOUS
<1>5. n = Exec(k, C("cmp", src, dst), decided)
  BY <1>1, <1>2, <1>4, RunLast DEF ICmpCode
<1>6. /\ Running(n) /\ SameButData(k, n) /\ n.flags = <<Get(k, dst), Get(k, src)>>
      /\ Keeps(k, n, {})
  BY <1>2, <1>5, ExecCmp
<1> QED BY <1>2, <1>3, <1>4, <1>6 DEF SameButData, Keeps

LEMMA ArithRun ==
  ASSUME NEW m, Running(m), NEW i, ArgPlace(i, 1) \in Sources, WorksIn(i) \in Locations,
         ArgPlace(i, 2) \in Sources, ArgPlace(i, 2) = WorksIn(i) => ArgPlace(i, 1) = WorksIn(i),
         Place(i) \in Locations, reg_map[i] = nullreg \/ Place(i) = WorksIn(i),
         NEW decided, NEW n, n = Run(m, ArithCode(i), decided)
  PROVE  /\ Running(n) /\ SameButData(m, n) /\ Keeps(m, n, {WorksIn(i), Place(i)})
         /\ Get(n, Place(i)) = Apply(fn[i].sym, Get(m, ArgPlace(i, 1)), Get(m, ArgPlace(i, 2)))
<1>1. PICK k : k = Run(m, FirstOperand(i), decided)
  OBVIOUS
<1>2. /\ Running(k) /\ SameButData(m, k) /\ Get(k, WorksIn(i)) = Get(m, ArgPlace(i, 1))
      /\ Keeps(m, k, {WorksIn(i)}) /\ Code(FirstOperand(i))
  BY <1>1, FirstOperandRun
<1>3. Get(k, ArgPlace(i, 2)) = Get(m, ArgPlace(i, 2))
  BY <1>1, SecondOperand
<1>4. PICK src \in Sources, dst \in Locations : src = ArgPlace(i, 2) /\ dst = WorksIn(i)
  OBVIOUS
<1>0. PICK sym : sym = fn[i].sym
  OBVIOUS
<1>5. PICK c : c = [C("arith", src, dst) EXCEPT !.sym = sym]
  OBVIOUS
<1>6. PICK l : l = Exec(k, [C("arith", src, dst) EXCEPT !.sym = sym], decided)
  OBVIOUS
<1>7. /\ Running(l) /\ SameButData(k, l) /\ Get(l, dst) = Apply(sym, Get(k, dst), Get(k, src))
      /\ Keeps(k, l, {dst})
  <2>1. Worked(k, l, sym, src, dst)
    <3>1. Running(k)
      BY <1>2
    <3> QED BY <3>1, <1>6, ExecArith
  <2> QED BY <2>1 DEF Worked
<1>8. /\ Running(l) /\ SameButData(m, l) /\ Keeps(m, l, {WorksIn(i)})
      /\ Get(l, WorksIn(i)) = Apply(fn[i].sym, Get(m, ArgPlace(i, 1)), Get(m, ArgPlace(i, 2)))
  BY <1>0, <1>2, <1>3, <1>4, <1>7 DEF SameButData, Keeps
<1>9. PICK s : s = FirstOperand(i) \o <<c>> /\ Code(s) /\ Run(m, s, decided) = l
  <2>1. Code(FirstOperand(i) \o <<c>>)
    BY <1>2, CodeFacts
  <2>2. Run(m, FirstOperand(i) \o <<c>>, decided) = Exec(k, c, decided)
    BY <1>1, <1>2, RunLast
  <2> QED BY <2>1, <2>2, <1>5, <1>6
<1>10. CASE reg_map[i] = nullreg
  <2>1. WorksIn(i) = eax
    BY <1>10 DEF WorksIn
  <2>2. PICK to \in Locations : to = Place(i)
    OBVIOUS
  <2>3. ArithCode(i) = s \o <<Mov(eax, to)>>
    BY <1>0, <1>4, <1>5, <1>9, <1>10, <2>2 DEF ArithCode
  <2>4. n = Exec(l, Mov(eax, to), decided)
    BY <1>9, <2>3, RunLast
  <2>5. Running(n) /\ SameButData(l, n) /\ Get(n, to) = Get(l, eax) /\ Keeps(l, n, {to})
    BY <1>8, <2>4, ExecMov
  <2> QED BY <1>8, <2>1, <2>2, <2>5 DEF SameButData, Keeps
<1>11. CASE reg_map[i] # nullreg
  <2>1. ArithCode(i) = s \o <<>>
    BY <1>0, <1>4, <1>5, <1>9, <1>11 DEF ArithCode
  <2>2. n = Run(l, <<>>, decided)
    <3>1. Code(s) => s \o <<>> = s
      BY DEF Code
    <3> QED BY <3>1, <1>9, <2>1, RunNothing
  <2>3. n = l
    BY <2>2, RunNothing
  <2> QED BY <1>8, <1>11, <2>3 DEF Keeps
<1> QED BY <1>10, <1>11

-----------------------------------------------------------------------------
(***************************************************************************)
(* Jumps                                                                   *)
(***************************************************************************)

\* Nothing but where the machine goes on.
Jumped(m, n, target) ==
  /\ DOMAIN n = Fields /\ n.goto = target /\ n.reg = m.reg /\ n.stack = m.stack /\ n.ebp = m.ebp
  /\ n.esp = m.esp /\ n.out = m.out /\ n.aligned = m.aligned

LEMMA GotoFacts ==
  ASSUME NEW m, DOMAIN m = Fields, NEW target
  PROVE  Jumped(m, [m EXCEPT !.goto = target], target)
BY DEF Jumped, Fields

LEMMA JumpRun ==
  ASSUME NEW m, Running(m), NEW k, NEW decided,
         NEW n, n = Run(m, <<C("jmp", Label(k), eax)>>, decided)
  PROVE  Jumped(m, n, Label(k))
<1>0. n = Exec(m, C("jmp", Label(k), eax), decided)
  BY RunOne
<1>1. n = [m EXCEPT !.goto = Label(k)]
  BY <1>0 DEF Exec, C, Running
<1> QED BY <1>1, GotoFacts DEF Running, IsMachine

LEMMA CondJumpRun ==
  ASSUME NEW m, Running(m), NEW k, NEW l, NEW jcc, NEW decided,
         NEW n, n = Run(m, <<On("jcc", jcc, Label(k)), C("jmp", Label(l), eax)>>, decided)
  PROVE  Jumped(m, n, IF Jumps(m, jcc, decided) THEN Label(k) ELSE Label(l))
<1>1. PICK h : h = Exec(m, On("jcc", jcc, Label(k)), decided)
  OBVIOUS
<1>2. n = Exec(h, C("jmp", Label(l), eax), decided)
  BY <1>1, RunTwo
<1>3. h = IF Jumps(m, jcc, decided) THEN [m EXCEPT !.goto = Label(k)] ELSE m
  BY <1>1 DEF Exec, On, Running
<1>4. CASE Jumps(m, jcc, decided)
  <2>1. Jumped(m, h, Label(k))
    BY <1>3, <1>4, GotoFacts DEF Running, IsMachine
  <2>2. h.goto # next
    BY <2>1 DEF Jumped, Label, next
  <2>3. n = h
    BY <1>2, <2>2 DEF Exec
  <2> QED BY <1>4, <2>1, <2>3
<1>5. CASE ~Jumps(m, jcc, decided)
  <2>1. n = [m EXCEPT !.goto = Label(l)]
    BY <1>2, <1>3, <1>5 DEF Exec, C, Running
  <2> QED BY <1>5, <2>1, GotoFacts DEF Running, IsMachine
<1> QED BY <1>4, <1>5

-----------------------------------------------------------------------------
(***************************************************************************)
(* Entering and leaving the function                                       *)
(***************************************************************************)

\* The frame between prologue and epilogue: what the epilogue will look for is there.
InFrame(m) ==
  /\ Running(m) /\ m.esp = -(12 + localMem) /\ m.aligned
  /\ Get(m, Mem(4)) = retAddr /\ Get(m, Mem(0)) = oldEbp /\ Get(m, Mem(ParamOffset)) = param
  /\ Get(m, Mem(-(4 + localMem))) = oldEbx

LEMMA PrologueRun ==
  ASSUME localMem \in Nat, NEW decided, NEW n, n = Run(Entered, Prologue, decided)
  PROVE  /\ InFrame(n) /\ n.out = <<>>
         /\ \A o \in Int : o <= -8 /\ o # -(4 + localMem) => Get(n, Mem(o)) = junk
<1>1. PICK m1 : m1 = Exec(Entered, C("push", ebp, eax), decided)
  OBVIOUS
<1>2. PICK m2 : m2 = Exec(m1, C("frame", eax, eax), decided)
  OBVIOUS
<1>3. PICK m3 : m3 = Exec(m2, C("esp", Imm(-localMem), eax), decided)
  OBVIOUS
<1>4. n = Exec(m3, C("push", Reg("ebx"), eax), decided)
  <2> DEFINE a == C("push", ebp, eax)
             b == C("frame", eax, eax)
             c == C("esp", Imm(-localMem), eax)
             d == C("push", Reg("ebx"), eax)
  <2>1. Prologue = <<a, b>> \o <<c, d>>
    BY DEF Prologue
  <2> HIDE DEF a, b, c, d
  <2>2. Run(Entered, Prologue, decided) = Run(Run(Entered, <<a, b>>, decided), <<c, d>>, decided)
    BY <2>1, CodeFacts, RunBoth
  <2>3. Run(Entered, <<a, b>>, decided) = m2
    BY <1>1, <1>2, RunTwo DEF a, b
  <2>4. Run(m2, <<c, d>>, decided) = Exec(m3, d, decided)
    BY <1>3, RunTwo DEF c
  <2> QED BY <2>2, <2>3, <2>4 DEF d
<1>5. /\ DOMAIN m1 = Fields /\ m1.reg = Entered.reg /\ m1.esp = -8 /\ m1.goto = next
      /\ m1.out = <<>> /\ m1.aligned = TRUE
      /\ m1.stack = [b \in {-8, -4, 0} |->
                       IF b = -8 THEN oldEbp ELSE IF b = 0 THEN param ELSE retAddr]
  <2>1. Get(Entered, ebp) = oldEbp
    BY DEF Get, ebp, Entered
  <2>2. m1 = PushOn(Entered, oldEbp)
    BY <1>1, <2>1 DEF Exec, C, Entered
  <2>3. m1 = [[Entered EXCEPT !.stack = [b \in {-8} \cup DOMAIN @ |->
                                            IF b = -8 THEN oldEbp ELSE @[b]]]
                 EXCEPT !.esp = -8]
    BY <2>2 DEF PushOn, Poke, Entered
  <2>4. /\ DOMAIN m1 = Fields /\ m1.reg = Entered.reg /\ m1.esp = -8 /\ m1.goto = next
        /\ m1.out = <<>> /\ m1.aligned = TRUE
    BY <2>3 DEF Entered, Fields
  <2>5. m1.stack = [b \in {-8} \cup DOMAIN Entered.stack |->
                      IF b = -8 THEN oldEbp ELSE Entered.stack[b]]
    BY <2>3 DEF Entered
  <2>6. Entered.stack = [a \in {-4, 0} |-> IF a = 0 THEN param ELSE retAddr]
    BY DEF Entered
  <2> QED BY <2>4, <2>5, <2>6
<1>6. /\ DOMAIN m2 = Fields /\ m2.reg = Entered.reg /\ m2.esp = -8 /\ m2.goto = next
      /\ m2.out = <<>> /\ m2.aligned = TRUE /\ m2.ebp = <<"address", -8>> /\ m2.stack = m1.stack
  <2>1. m2 = [m1 EXCEPT !.ebp = <<"address", m1.esp>>]
    BY <1>2, <1>5 DEF Exec, C
  <2> QED BY <2>1, <1>5 DEF Fields
<1>7. Running(m2)
  BY <1>6 DEF Running, IsMachine, Entered, FourRegs
<1>8. /\ Get(m2, Mem(4)) = retAddr /\ Get(m2, Mem(0)) = oldEbp /\ Get(m2, Mem(8)) = param
      /\ \A o \in Int : o <= -8 => Get(m2, Mem(o)) = junk
      /\ Get(m2, Reg("ebx")) = oldEbx
  <2>1. \A o \in Int : Get(m2, Mem(o)) = Peek(m2, o - 8)
    BY <1>7, GetFacts
  <2>2. Peek(m2, -4) = retAddr /\ Peek(m2, -8) = oldEbp /\ Peek(m2, 0) = param
    BY <1>5, <1>6 DEF Peek
  <2>3. ASSUME NEW o \in Int, o <= -8 PROVE Peek(m2, o - 8) = junk
    BY <1>5, <1>6, <2>3 DEF Peek
  <2>4. Get(m2, Reg("ebx")) = m2.reg["ebx"]
    BY <1>7, GetFacts
  <2>5. Entered.reg["ebx"] = oldEbx
    BY DEF Entered
  <2>6. /\ Get(m2, Mem(4)) = Peek(m2, -4) /\ Get(m2, Mem(0)) = Peek(m2, -8)
        /\ Get(m2, Mem(8)) = Peek(m2, 0)
    <3>1. 4 - 8 = -4 /\ 0 - 8 = -8 /\ 8 - 8 = 0
      OBVIOUS
    <3> QED BY <3>1, <2>1
  <2>7. \A o \in Int : o <= -8 => Get(m2, Mem(o)) = junk
    BY <2>1, <2>3
  <2>8. Get(m2, Reg("ebx")) = oldEbx
    BY <2>4, <2>5, <1>6
  <2> QED BY <2>2, <2>6, <2>7, <2>8
<1>9. /\ Running(m3) /\ m3.esp = m2.esp + (-localMem) /\ m3.out = m2.out /\ m3.aligned = m2.aligned
      /\ Keeps(m2, m3, {})
  <2>1. -localMem \in Int
    OBVIOUS
  <2> QED BY <2>1, <1>3, <1>7, ExecEsp
<1>10. /\ Running(n) /\ n.esp = m3.esp - 4 /\ n.out = m3.out /\ n.aligned = m3.aligned
       /\ Get(n, Mem(m3.esp + 4)) = Get(m3, Reg("ebx")) /\ Keeps(m3, n, {Mem(m3.esp + 4)})
  BY <1>4, <1>9, ExecPush
<1>11. m3.esp + 4 = -(4 + localMem) /\ n.esp = -(12 + localMem)
  BY <1>6, <1>9, <1>10
<1>12. ASSUME NEW o \in Int, o # -(4 + localMem) PROVE Get(n, Mem(o)) = Get(m2, Mem(o))
  <2>1. Mem(o) \in Sources /\ Mem(o) # Mem(-(4 + localMem))
    BY <1>12, EaxFacts, LocationFacts
  <2> QED BY <2>1, <1>9, <1>10, <1>11 DEF Keeps
<1>13. Get(n, Mem(-(4 + localMem))) = oldEbx
  <2>1. Reg("ebx") \in Sources
    BY DEF Sources, Locations, FourRegs
  <2> QED BY <2>1, <1>8, <1>9, <1>10, <1>11 DEF Keeps
<1>14. /\ Get(n, Mem(4)) = retAddr /\ Get(n, Mem(0)) = oldEbp /\ Get(n, Mem(8)) = param
  <2>1. 4 # -(4 + localMem) /\ 0 # -(4 + localMem) /\ 8 # -(4 + localMem)
    OBVIOUS
  <2> QED BY <2>1, <1>8, <1>12
<1> QED BY <1>6, <1>8, <1>9, <1>10, <1>11, <1>12, <1>13, <1>14 DEF InFrame, ParamOffset

LEMMA RetRun ==
  ASSUME localMem \in Nat, NEW m, InFrame(m), NEW i, NEW decided,
         fn[i].args # <<>> => ArgPlace(i, 1) \in Sources,
         NEW n, n = Run(m, RetCode(i), decided)
  PROVE  /\ DOMAIN n = Fields /\ DOMAIN n.reg = FourRegs /\ n.goto = retAddr
         /\ n.esp = 0 /\ n.ebp = oldEbp /\ n.reg["ebx"] = oldEbx
         /\ n.out = m.out /\ n.aligned /\ n.stack = m.stack
         /\ fn[i].args # <<>> => n.reg["eax"] = Get(m, ArgPlace(i, 1))
<1>0. Running(m) /\ m.esp \in Int
  BY DEF InFrame, Running
<1>1. PICK move : move = (IF fn[i].args = <<>> THEN <<>> ELSE <<Mov(ArgPlace(i, 1), eax)>>)
  OBVIOUS
<1>2. PICK m1 : m1 = Run(m, move, decided)
  OBVIOUS
<1>3. PICK m2 : m2 = Exec(m1, C("pop", eax, Reg("ebx")), decided)
  OBVIOUS
<1>4. PICK m3 : m3 = Exec(m2, C("leave", eax, eax), decided)
  OBVIOUS
<1>5. n = Exec(m3, C("ret", eax, eax), decided)
  <2> DEFINE a == C("pop", eax, Reg("ebx"))
             b == C("leave", eax, eax)
             c == C("ret", eax, eax)
  <2>1. Epilogue = <<a, b>> \o <<c>> /\ RetCode(i) = move \o Epilogue
    BY <1>1 DEF Epilogue, RetCode
  <2> HIDE DEF a, b, c
  <2>2. Code(move) /\ Code(Epilogue)
    BY <1>1, <2>1, CodeFacts
  <2>3. n = Run(m1, Epilogue, decided)
    <3>1. Run(m, move \o Epilogue, decided) = Run(Run(m, move, decided), Epilogue, decided)
      BY <2>2, RunBoth
    <3> QED BY <3>1, <1>2, <2>1
  <2>4. Run(m1, Epilogue, decided) = Exec(Run(m1, <<a, b>>, decided), c, decided)
    BY <2>1, CodeFacts, RunLast
  <2>5. Run(m1, <<a, b>>, decided) = m3
    BY <1>3, <1>4, RunTwo DEF a, b
  <2> QED BY <2>3, <2>4, <2>5 DEF c
<1>6. /\ Running(m1) /\ SameButData(m, m1) /\ Keeps(m, m1, {eax}) /\ m1.stack = m.stack
      /\ fn[i].args # <<>> => Get(m1, eax) = Get(m, ArgPlace(i, 1))
  <2>1. CASE fn[i].args = <<>>
    <3>1. m1 = m
      BY <1>1, <1>2, <2>1, RunNothing
    <3> QED BY <1>0, <2>1, <3>1 DEF SameButData, Keeps
  <2>2. CASE fn[i].args # <<>>
    <3>1. PICK src : src = ArgPlace(i, 1)
      OBVIOUS
    <3>2. m1 = Exec(m, Mov(src, eax), decided)
      BY <1>1, <1>2, <2>2, <3>1, RunOne
    <3>3. /\ Running(m1) /\ SameButData(m, m1) /\ Get(m1, eax) = Get(m, src)
          /\ Keeps(m, m1, {eax})
      BY <1>0, <3>2, ExecMov, EaxFacts
    <3>4. m1.stack = m.stack
      <4>1. m1 = [m EXCEPT !.reg["eax"] = Get(m, src)]
        BY <3>2, <1>0 DEF Exec, Mov, C, Put, eax, Reg, Running
      <4> QED BY <4>1, <1>0 DEF Running, IsMachine, Fields
    <3> QED BY <3>1, <3>3, <3>4
  <2> QED BY <2>1, <2>2
<1>7. /\ Get(m1, Mem(4)) = retAddr /\ Get(m1, Mem(0)) = oldEbp
      /\ Get(m1, Mem(-(4 + localMem))) = oldEbx
  <2>1. \A o \in Int : Mem(o) \in Sources /\ Mem(o) # eax
    BY EaxFacts
  <2>2. \A o \in Int : Get(m1, Mem(o)) = Get(m, Mem(o))
    BY <2>1, <1>6 DEF Keeps
  <2> QED BY <2>2 DEF InFrame
<1>8. /\ m2.ebp = m1.ebp /\ m2.goto = m1.goto /\ m2.out = m1.out /\ m2.aligned = m1.aligned
      /\ m2.stack = m1.stack /\ DOMAIN m2 = Fields /\ DOMAIN m2.reg = FourRegs
      /\ m2.reg["ebx"] = oldEbx /\ m2.reg["eax"] = m1.reg["eax"]
  <2>1. Peek(m1, m1.esp) = oldEbx
    <3>1. m1.esp = -(4 + localMem) - 8
      BY <1>6 DEF InFrame, SameButData
    <3> QED BY <3>1, <1>6, <1>7, GetFacts
  <2>2. m2 = [[m1 EXCEPT !.reg["ebx"] = oldEbx] EXCEPT !.esp = m1.esp + 4]
    BY <1>3, <1>6, <2>1 DEF Exec, C, Put, Reg, Running
  <2>3. DOMAIN m1 = Fields /\ DOMAIN m1.reg = FourRegs
    BY <1>6 DEF Running, IsMachine
  <2>4. m2.reg = [m1.reg EXCEPT !["ebx"] = oldEbx]
    BY <2>2, <2>3 DEF Fields
  <2>5. DOMAIN m2.reg = FourRegs /\ m2.reg["ebx"] = oldEbx /\ m2.reg["eax"] = m1.reg["eax"]
    BY <2>3, <2>4 DEF FourRegs
  <2> QED BY <2>2, <2>3, <2>5 DEF Fields
<1>9. m1.ebp = <<"address", -8>> /\ m1.goto = next
  BY <1>6 DEF Running
<1>10. Peek(m1, -8) = oldEbp /\ Peek(m1, -4) = retAddr
  <2>1. 0 - 8 = -8 /\ 4 - 8 = -4
    OBVIOUS
  <2> QED BY <2>1, <1>6, <1>7, GetFacts
<1>11. /\ m3.ebp = oldEbp /\ m3.esp = -4 /\ m3.goto = next /\ m3.out = m1.out
       /\ m3.aligned = m1.aligned /\ m3.stack = m1.stack /\ DOMAIN m3 = Fields /\ m3.reg = m2.reg
  <2>1. m3 = [m2 EXCEPT !.esp = -4, !.ebp = oldEbp]
    <3>1. m2.goto = next /\ m2.ebp[2] = -8 /\ Peek(m2, -8) = oldEbp
      BY <1>8, <1>9, <1>10 DEF Peek
    <3>2. m3 = [m2 EXCEPT !.esp = m2.ebp[2] + 4, !.ebp = Peek(m2, m2.ebp[2])]
      BY <3>1, <1>4 DEF Exec, C
    <3>3. m2.ebp[2] + 4 = -4
      BY <3>1
    <3> QED BY <3>1, <3>2, <3>3
  <2> QED BY <2>1, <1>8, <1>9 DEF Fields
<1>12. n = [m3 EXCEPT !.goto = retAddr, !.esp = 0]
  <2>1. Peek(m3, m3.esp) = retAddr
    BY <1>10, <1>11 DEF Peek
  <2>2. n = [m3 EXCEPT !.goto = Peek(m3, m3.esp), !.esp = @ + 4]
    BY <1>5, <1>11 DEF Exec, C
  <2>3. m3.esp + 4 = 0
    BY <1>11
  <2> QED BY <2>1, <2>2, <2>3
<1>13. Get(m1, eax) = m1.reg["eax"]
  BY <1>6, GetFacts DEF eax
<1> QED BY <1>6, <1>8, <1>11, <1>12, <1>13 DEF Fields, SameButData, InFrame

-----------------------------------------------------------------------------
(***************************************************************************)
(* Layout of frame and labels                                              *)
(***************************************************************************)

LEMMA AllocaFacts ==
  /\ Len(AllocaSeq) \in Nat
  /\ \A x \in Allocas : /\ AllocaOffset(x) \in Int
                        /\ -(4 + 4 * Len(AllocaSeq)) <= AllocaOffset(x) /\ AllocaOffset(x) <= -8
  /\ \A x, y \in Allocas : AllocaOffset(x) = AllocaOffset(y) => x = y
<1> DEFINE Position(x) == CHOOSE k \in DOMAIN AllocaSeq : AllocaSeq[k] = x
<1>1. AllocaSeq \in Seq(Syms) /\ Len(AllocaSeq) \in Nat /\ DOMAIN AllocaSeq = 1 .. Len(AllocaSeq)
  BY AllocasAssumption
<1>2. \A x \in Allocas : Position(x) \in 1 .. Len(AllocaSeq) /\ AllocaSeq[Position(x)] = x
  BY <1>1 DEF Allocas, ToSet
<1>3. \A x : AllocaOffset(x) = -(4 + 4 * Position(x))
  BY DEF AllocaOffset
<1> HIDE DEF Position
<1>4. \A x \in Allocas : Position(x) \in Nat /\ 1 <= Position(x) /\ Position(x) <= Len(AllocaSeq)
  BY <1>1, <1>2
<1>5. \A x \in Allocas : /\ AllocaOffset(x) \in Int
                         /\ -(4 + 4 * Len(AllocaSeq)) <= AllocaOffset(x) /\ AllocaOffset(x) <= -8
  BY <1>1, <1>3, <1>4
<1>6. ASSUME NEW x \in Allocas, NEW y \in Allocas, AllocaOffset(x) = AllocaOffset(y) PROVE x = y
  <2>1. Position(x) = Position(y)
    BY <1>3, <1>4, <1>6
  <2> QED BY <2>1, <1>2
<1> QED BY <1>1, <1>5, <1>6

\* The frame has been laid out.
FrameOK ==
  phase = "done" /\ localMem = FrameSize /\ offset_map = [i \in Slotted |-> SlotOffset(i)]

LEMMA SlotFacts ==
  ASSUME WellFormed(fn), FrameOK
  PROVE  /\ localMem \in Nat /\ localMem >= 4 + 4 * Len(AllocaSeq) /\ DOMAIN offset_map = Slotted
         /\ \A i \in Slotted : /\ offset_map[i] \in Int /\ -localMem <= offset_map[i]
                               /\ offset_map[i] <= -(8 + 4 * Len(AllocaSeq))
         /\ \A i, j \in Slotted : offset_map[i] = offset_map[j] => i = j
<1> DEFINE Upto(i) == {j \in Slotted : j <= i}
           c(i) == Cardinality(Upto(i))
<1>1. DOMAIN fn = 1 .. Len(fn) /\ Len(fn) \in Nat /\ Slotted \subseteq DOMAIN fn
  BY FunctionFacts DEF Slotted
<1>2. IsFiniteSet(Slotted) /\ Cardinality(Slotted) \in Nat
  <2>1. IsFiniteSet(1 .. Len(fn))
    BY <1>1, FS_Interval
  <2> QED BY <2>1, <1>1, FS_Subset, FS_CardinalityType
<1>3. \A i : IsFiniteSet(Upto(i)) /\ c(i) \in Nat /\ c(i) <= Cardinality(Slotted)
  <2> SUFFICES ASSUME NEW i
               PROVE  IsFiniteSet(Upto(i)) /\ c(i) \in Nat /\ c(i) <= Cardinality(Slotted)
    OBVIOUS
  <2>1. Upto(i) \in SUBSET Slotted
    OBVIOUS
  <2> QED BY <2>1, <1>2, FS_Subset, FS_CardinalityType
<1>4. ASSUME NEW i \in Slotted PROVE c(i) >= 1
  <2>1. i \in Upto(i)
    BY <1>1
  <2>2. c(i) # 0
    BY <2>1, <1>3, FS_EmptySet
  <2> QED BY <2>2, <1>3
<1>5. ASSUME NEW i \in Slotted, NEW j \in Slotted, i < j PROVE c(i) < c(j)
  <2>1. i \in Int /\ j \in Int /\ \A k \in Slotted : k \in Int
    BY <1>1
  <2>2. Upto(i) \in SUBSET Upto(j) /\ j \in Upto(j) /\ j \notin Upto(i)
    <3>1. \A k \in Slotted : k <= i => k <= j
      BY <1>5, <2>1
    <3>2. j <= j /\ ~(j <= i)
      BY <1>5, <2>1
    <3> QED BY <3>1, <3>2
  <2>3. c(i) <= c(j) /\ (c(i) = c(j) => Upto(i) = Upto(j))
    <3>1. IsFiniteSet(Upto(j))
      BY <1>3
    <3> QED BY <3>1, <2>2, FS_Subset
  <2> QED BY <2>2, <2>3, <1>3
<1>6. \A i : SlotOffset(i) = -(4 + 4 * Len(AllocaSeq) + 4 * c(i))
  BY DEF SlotOffset
<1> HIDE DEF c, Upto
<1>7. Len(AllocaSeq) \in Nat
  BY AllocaFacts
<1>8. localMem = 4 + 4 * Len(AllocaSeq) + 4 * Cardinality(Slotted)
  BY DEF FrameOK, FrameSize
<1>9. /\ DOMAIN offset_map = Slotted
      /\ \A i \in Slotted : offset_map[i] = -(4 + 4 * Len(AllocaSeq) + 4 * c(i))
  BY <1>6 DEF FrameOK
<1>10. localMem \in Nat /\ localMem >= 4 + 4 * Len(AllocaSeq)
  BY <1>2, <1>7, <1>8
<1>11. ASSUME NEW i \in Slotted
       PROVE  /\ offset_map[i] \in Int /\ -localMem <= offset_map[i]
              /\ offset_map[i] <= -(8 + 4 * Len(AllocaSeq))
  BY <1>2, <1>3, <1>4, <1>7, <1>8, <1>9
<1>12. ASSUME NEW i \in Slotted, NEW j \in Slotted, offset_map[i] = offset_map[j] PROVE i = j
  <2>1. c(i) = c(j)
    BY <1>3, <1>7, <1>9, <1>12
  <2>2. i \in Int /\ j \in Int
    BY <1>1
  <2>3. ~(i < j) /\ ~(j < i)
    BY <2>1, <1>3, <1>5
  <2> QED BY <2>2, <2>3
<1> QED BY <1>9, <1>10, <1>11, <1>12

\* Different blocks have different labels.
LEMMA LabelFacts ==
  ASSUME WellFormed(fn), NEW i \in DOMAIN fn, NEW j \in DOMAIN fn,
         LabelOf(fn[i].bb) = LabelOf(fn[j].bb)
  PROVE  fn[i].bb = fn[j].bb
<1> DEFINE Below(b) == {fn[k].bb : k \in {l \in DOMAIN fn : fn[l].bb < b}}
<1>1. \A k \in DOMAIN fn : fn[k].bb \in Nat
  BY FunctionFacts
<1>2. ASSUME NEW k \in DOMAIN fn
      PROVE  IsFiniteSet(Below(fn[k].bb)) /\ Cardinality(Below(fn[k].bb)) \in Nat
  <2>1. Below(fn[k].bb) \in SUBSET Nat /\ \A b \in Below(fn[k].bb) : b <= fn[k].bb
    BY <1>1
  <2>2. fn[k].bb \in Nat
    BY <1>1
  <2> HIDE DEF Below
  <2> QED BY <2>1, <2>2, FS_BoundedSetOfNaturals, FS_CardinalityType
<1>3. ASSUME NEW k \in DOMAIN fn, NEW l \in DOMAIN fn, fn[k].bb < fn[l].bb
      PROVE  Cardinality(Below(fn[k].bb)) # Cardinality(Below(fn[l].bb))
  <2>1. Below(fn[k].bb) \in SUBSET Below(fn[l].bb)
    BY <1>1, <1>3
  <2>2. fn[k].bb \in Below(fn[l].bb) /\ fn[k].bb \notin Below(fn[k].bb)
    BY <1>1, <1>3
  <2> HIDE DEF Below
  <2> QED BY <2>1, <2>2, <1>2, FS_Subset
<1>4. Cardinality(Below(fn[i].bb)) = Cardinality(Below(fn[j].bb))
  BY DEF LabelOf, Label
<1> HIDE DEF Below
<1>5. ~(fn[i].bb < fn[j].bb) /\ ~(fn[j].bb < fn[i].bb)
  BY <1>3, <1>4
<1> QED BY <1>1, <1>5

\* Where the code goes on after a jump to a label.
LEMMA StartFacts ==
  ASSUME WellFormed(fn), NEW j \in DOMAIN fn
  PROVE  \E s \in DOMAIN fn :
           /\ fn[s].bb = fn[j].bb /\ \A k \in 1 .. s - 1 : fn[k].bb # fn[s].bb
           /\ s = IR!StartOf(fn[j].bb)
           /\ s = CHOOSE i \in DOMAIN fn : /\ LabelOf(fn[i].bb) = LabelOf(fn[j].bb)
                                           /\ \A k \in 1 .. i - 1 : fn[k].bb # fn[i].bb
<1>1. DOMAIN fn = 1 .. Len(fn) /\ Len(fn) \in Nat
  BY FunctionFacts
<1> DEFINE Same == {i \in DOMAIN fn : fn[i].bb = fn[j].bb}
<1>2. Same \in SUBSET Nat /\ Same # {}
  BY <1>1
<1>3. PICK s \in Same : \A i \in Same : s <= i
  <2> HIDE DEF Same
  <2> QED BY <1>2, LeastExists
<1>4. s \in DOMAIN fn /\ fn[s].bb = fn[j].bb
  OBVIOUS
<1>5. \A k \in 1 .. s - 1 : fn[k].bb # fn[s].bb
  BY <1>1, <1>3
<1>6. ASSUME NEW i \in DOMAIN fn, fn[i].bb = fn[j].bb, \A k \in 1 .. i - 1 : fn[k].bb # fn[i].bb
      PROVE  i = s
  <2>1. s <= i /\ i \in Int /\ s \in Int /\ s >= 1
    BY <1>1, <1>3, <1>6
  <2>2. ~(s < i)
    BY <2>1, <1>4, <1>6
  <2> QED BY <2>1, <2>2
<1> HIDE DEF Same
<1>7. s = IR!StartOf(fn[j].bb)
  <2>1. \A k \in 1 .. s - 1 : fn[k].bb # fn[j].bb
    BY <1>4, <1>5
  <2> DEFINE P(i) == fn[i].bb = fn[j].bb /\ \A k \in 1 .. i - 1 : fn[k].bb # fn[j].bb
  <2>2. \A i \in DOMAIN fn : P(i) => i = s
    BY <1>6
  <2>3. P(s)
    BY <2>1, <1>4
  <2>4. IR!StartOf(fn[j].bb) = CHOOSE i \in DOMAIN fn : P(i)
    BY DEF IR!StartOf
  <2> HIDE DEF P
  <2> QED BY <2>2, <2>3, <2>4, <1>4
<1>8. s = CHOOSE i \in DOMAIN fn : /\ LabelOf(fn[i].bb) = LabelOf(fn[j].bb)
                                   /\ \A k \in 1 .. i - 1 : fn[k].bb # fn[i].bb
  <2> DEFINE P(i) == /\ LabelOf(fn[i].bb) = LabelOf(fn[j].bb)
                     /\ \A k \in 1 .. i - 1 : fn[k].bb # fn[i].bb
  <2>1. \A i \in DOMAIN fn : P(i) => i = s
    BY <1>6, LabelFacts
  <2>2. P(s)
    BY <1>4, <1>5
  <2>3. (CHOOSE i \in DOMAIN fn : P(i)) = s
    <3> HIDE DEF P
    <3> QED BY <2>1, <2>2, <1>4
  <2> QED BY <2>3
<1> QED BY <1>4, <1>5, <1>7, <1>8

-----------------------------------------------------------------------------
(***************************************************************************)
(* Where the values of a function that has been laid out are               *)
(***************************************************************************)

\* Registers have been allocated and the frame has been laid out.
LaidOut == fn \in Functions /\ IInv /\ Mapped /\ FrameOK

\* What the function looks like, in the form the steps below use.
LEMMA CodeShape ==
  ASSUME fn \in Functions
  PROVE  /\ WellFormed(fn) /\ Translatable(fn)
         /\ Len(fn) \in Nat /\ Len(fn) >= 1 /\ DOMAIN fn = 1 .. Len(fn)
         /\ \A i \in DOMAIN fn : fn[i].op \in {"load", "store"} => fn[i].sym \in Allocas
BY CodeAssumption, FunctionsAssumption, FunctionFacts

LEMMA OperandFacts ==
  ASSUME fn \in Functions, NEW i \in DOMAIN fn, NEW k \in DOMAIN fn[i].args,
         NEW v, v = fn[i].args[k]
  PROVE  /\ v \in Int /\ v \in Operands(i)
         /\ v = 0 => fn[i].op = "store"
         /\ v > 0 => /\ v \in DOMAIN fn /\ v < i /\ fn[v].bb = fn[i].bb /\ fn[v].op \in ValueOps
                     /\ fn[v].op = "icmp" => fn[i].op = "condbr"
<1>1. v \in Operands(i) /\ v \in ArgsOf(fn, i)
  BY DEF Operands, ArgsOf
<1>2. WellFormed(fn) /\ Translatable(fn)
  BY CodeShape
<1>3. /\ v \in Int
      /\ v > 0 => v \in DOMAIN fn /\ v < i /\ fn[v].bb = fn[i].bb /\ fn[v].op \in ValueOps
  BY <1>1, <1>2, FunctionFacts
<1>4. v = 0 => fn[i].op = "store"
  BY <1>1, <1>2 DEF Translatable
<1>5. v > 0 /\ fn[v].op = "icmp" => fn[i].op = "condbr"
  BY <1>1, <1>2, <1>3 DEF Translatable
<1> QED BY <1>1, <1>3, <1>4, <1>5

\* The cells of the frame that stay what they are.
Held == {Mem(4), Mem(0), Mem(ParamOffset), Mem(-(4 + localMem))}

Bottom == -(12 + localMem)

LEMMA HeldFacts ==
  ASSUME localMem \in Nat
  PROVE  /\ Held \subseteq Locations /\ Held \cap Scratch(Bottom) = {}
         /\ \A o \in Int : -localMem <= o /\ o <= -8 => Mem(o) \notin Held
         /\ \A o \in Int : -localMem <= o => Mem(o) \notin Scratch(Bottom)
         /\ \A r \in Regs : Reg(r) \notin Held /\ Reg(r) \notin Scratch(Bottom)
<1>1. Bottom \in Int /\ Bottom + 8 = -(4 + localMem)
  BY DEF Bottom
<1>2. \A o \in Int : o >= -(4 + localMem) => Mem(o) \notin Scratch(Bottom)
  BY <1>1, ScratchFacts
<1>3. Held \subseteq Locations
  BY EaxFacts DEF Held, ParamOffset
<1>4. Held \cap Scratch(Bottom) = {}
  <2>1. 4 >= -(4 + localMem) /\ 0 >= -(4 + localMem) /\ 8 >= -(4 + localMem)
    OBVIOUS
  <2> QED BY <2>1, <1>2 DEF Held, ParamOffset
<1>5. ASSUME NEW o \in Int, -localMem <= o, o <= -8 PROVE Mem(o) \notin Held
  <2>1. o # 4 /\ o # 0 /\ o # 8 /\ o # -(4 + localMem)
    BY <1>5
  <2> QED BY <2>1, LocationFacts DEF Held, ParamOffset
<1>6. ASSUME NEW r \in Regs PROVE Reg(r) \notin Held /\ Reg(r) \notin Scratch(Bottom)
  <2>1. r \in FourRegs /\ r # "eax"
    BY MachineRegisters DEF FourRegs
  <2>2. Reg(r) \notin Held
    BY <2>1, LocationFacts DEF Held, ParamOffset
  <2> QED BY <2>1, <2>2, <1>1, ScratchFacts
<1> QED BY <1>2, <1>3, <1>4, <1>5, <1>6

\* Values, other than comparisons, and where they are.
Valued(v) == v \in DOMAIN fn /\ fn[v].op \in ValueOps /\ fn[v].op # "icmp"

LEMMA PlaceFacts ==
  ASSUME LaidOut, NEW v, Valued(v)
  PROVE  /\ Place(v) \in Locations /\ Place(v) \notin Scratch(Bottom) /\ Place(v) \notin Held
         /\ \A x \in Allocas : Place(v) # Mem(AllocaOffset(x))
         /\ \/ reg_map[v] = nullreg /\ v \in Slotted /\ Place(v) = Mem(offset_map[v])
               /\ offset_map[v] \in Int
            \/ reg_map[v] \in Regs /\ Place(v) = Reg(reg_map[v])
<1>1. WellFormed(fn) /\ DOMAIN fn = 1 .. Len(fn) /\ Len(fn) \in Nat
  BY CodeShape DEF LaidOut
<1>2. v \in DOMAIN fn /\ v > 0 /\ ~(v < 0) /\ v # 0 /\ fn[v].op \in ValueOps /\ fn[v].op # "icmp"
  BY <1>1 DEF Valued
<1>3. reg_map[v] \in Regs \cup {nullreg}
  <2>1. v < Frontier
    BY <1>1, <1>2 DEF LaidOut, FrameOK, IInv, CursorOK, Frontier
  <2> QED BY <2>1, <1>2 DEF LaidOut, Mapped, IInv, TypeOK
<1>4. localMem \in Nat
  BY <1>1, SlotFacts DEF LaidOut
<1>5. CASE reg_map[v] = nullreg
  <2>0. Place(v) = Mem(offset_map[v])
    BY <1>2, <1>5 DEF Place
  <2>1. v \in Slotted /\ Place(v) = Mem(offset_map[v])
    BY <2>0, <1>2, <1>5 DEF Slotted
  <2>2. /\ offset_map[v] \in Int /\ -localMem <= offset_map[v]
        /\ offset_map[v] <= -(8 + 4 * Len(AllocaSeq))
    BY <2>1, <1>1, SlotFacts DEF LaidOut
  <2>3. ASSUME NEW x \in Allocas PROVE Mem(offset_map[v]) # Mem(AllocaOffset(x))
    <3>1. offset_map[v] # AllocaOffset(x)
      BY <2>2, AllocaFacts
    <3> QED BY <3>1, <2>2, AllocaFacts, LocationFacts
  <2>4. offset_map[v] <= -8
    BY <2>2, AllocaFacts
  <2>5. Mem(offset_map[v]) \in Locations
    BY <2>2, EaxFacts
  <2> QED BY <1>4, <1>5, <2>1, <2>2, <2>3, <2>4, <2>5, HeldFacts
<1>6. CASE reg_map[v] \in Regs
  <2>0. reg_map[v] # nullreg
    BY <1>6, RegistersAssumption
  <2>1. Place(v) = Reg(reg_map[v])
    BY <2>0, <1>2 DEF Place
  <2>2. reg_map[v] \in FourRegs
    BY <1>6, MachineRegisters DEF FourRegs
  <2>3. ASSUME NEW x \in Allocas PROVE Reg(reg_map[v]) # Mem(AllocaOffset(x))
    BY <2>2, AllocaFacts, LocationFacts
  <2> QED BY <1>4, <1>6, <2>1, <2>2, <2>3, HeldFacts, EaxFacts
<1> QED BY <1>3, <1>5, <1>6

\* Two values are in the same place only if it is a register.
LEMMA PlacesDiffer ==
  ASSUME LaidOut, NEW u, NEW v, Valued(u), Valued(v), u # v, Place(u) = Place(v)
  PROVE  reg_map[u] \in Regs /\ reg_map[u] = reg_map[v]
<1>1. WellFormed(fn)
  BY CodeShape DEF LaidOut
<1>2. CASE reg_map[u] = nullreg
  <2>1. u \in Slotted /\ Place(u) = Mem(offset_map[u]) /\ offset_map[u] \in Int
    BY <1>2, PlaceFacts, RegistersAssumption
  <2>2. reg_map[v] \notin Regs
    <3> SUFFICES ASSUME reg_map[v] \in Regs PROVE FALSE
      OBVIOUS
    <3>1. Place(v) = Reg(reg_map[v]) /\ reg_map[v] \in FourRegs
      BY PlaceFacts, RegistersAssumption, MachineRegisters DEF FourRegs
    <3> QED BY <2>1, <3>1, LocationFacts
  <2>3. v \in Slotted /\ Place(v) = Mem(offset_map[v]) /\ offset_map[v] \in Int
    BY <2>2, PlaceFacts
  <2>4. offset_map[u] = offset_map[v]
    BY <2>1, <2>3, LocationFacts
  <2> QED BY <2>1, <2>3, <2>4, <1>1, SlotFacts DEF LaidOut
<1>3. CASE reg_map[u] \in Regs
  <2>1. Place(u) = Reg(reg_map[u]) /\ reg_map[u] \in FourRegs
    BY <1>3, PlaceFacts, RegistersAssumption, MachineRegisters DEF FourRegs
  <2>2. reg_map[v] \in Regs
    <3> SUFFICES ASSUME reg_map[v] \notin Regs PROVE FALSE
      OBVIOUS
    <3>1. Place(v) = Mem(offset_map[v]) /\ offset_map[v] \in Int
      BY PlaceFacts
    <3> QED BY <2>1, <3>1, LocationFacts
  <2>3. Place(v) = Reg(reg_map[v]) /\ reg_map[v] \in FourRegs
    BY <2>2, PlaceFacts, RegistersAssumption, MachineRegisters DEF FourRegs
  <2> QED BY <1>3, <2>1, <2>3, LocationFacts
<1>4. reg_map[u] = nullreg \/ reg_map[u] \in Regs
  BY PlaceFacts
<1> QED BY <1>2, <1>3, <1>4

-----------------------------------------------------------------------------
(***************************************************************************)
(* The inductive invariant                                                 *)
(***************************************************************************)

\* Before a conditional branch, what the comparison before it found.
Compared ==
  fn[ip].op = "condbr" =>
    val[ip - 1] = IR!Compare(fn[ip - 1].sym, IR!Arg(ip - 1, 1), IR!Arg(ip - 1, 2))

Before == localMem = 0 /\ ip = notStarted /\ offset_map = [i \in {} |-> 0]

CGIInv ==
  /\ fn \in Functions /\ IInv /\ Mapped /\ (FrameOK \/ Before)
  /\ ip \in {notStarted} \cup 0 .. Len(fn)
  /\ DOMAIN val = DOMAIN fn
  /\ \A b \in BOOLEAN : <<junk, b>> \notin facts
  /\ IsMachine(cpu) /\ cpu.aligned
  /\ ip = notStarted => cpu = Entered
  /\ ip \in DOMAIN fn => InFrame(cpu) /\ Compared
  /\ ValuesInPlace /\ CalleeSaved

\* Inside the function.
Inside == LaidOut /\ ip \in DOMAIN fn /\ InFrame(cpu) /\ ValuesInPlace

LEMMA InsideFacts ==
  ASSUME CGIInv, ip \in DOMAIN fn
  PROVE  Inside /\ Compared /\ DOMAIN val = DOMAIN fn
<1>1. ip # notStarted
  BY CodeShape DEF CGIInv, notStarted
<1> QED BY <1>1 DEF CGIInv, Inside, LaidOut, Before

\* What an instruction takes is where its code looks for it.
LEMMA OperandInPlace ==
  ASSUME Inside, NEW k \in DOMAIN fn[ip].args, fn[ip].op # "condbr"
  PROVE  /\ ArgPlace(ip, k) \in Sources /\ ArgPlace(ip, k) \notin Scratch(Bottom)
         /\ Get(cpu, ArgPlace(ip, k)) = IR!Arg(ip, k)
<1>1. PICK v : v = fn[ip].args[k]
  OBVIOUS
<1>0. fn \in Functions /\ ip \in DOMAIN fn /\ InFrame(cpu) /\ LaidOut /\ Running(cpu)
  BY DEF Inside, LaidOut, InFrame
<1>2. /\ v \in Int /\ v \in Operands(ip)
      /\ v > 0 => v \in DOMAIN fn /\ v < ip /\ fn[v].bb = fn[ip].bb /\ Valued(v)
  BY <1>0, <1>1, OperandFacts DEF Valued
<1>3. localMem \in Nat
  BY <1>0, CodeShape, SlotFacts DEF LaidOut
<1>4. ArgPlace(ip, k) = Place(v)
  BY <1>1 DEF ArgPlace
<1>5. IR!Arg(ip, k) = IR!Operand(v)
  BY <1>1 DEF IR!Arg
<1>6. CASE v < 0
  <2>1. Place(v) = Imm(v) /\ IR!Operand(v) = <<"const", v>>
    BY <1>2, <1>6 DEF Place, IR!Operand
  <2>2. Imm(v) \in Sources /\ Imm(v) \notin Scratch(Bottom)
    BY <1>2, EaxFacts, LocationFacts DEF Scratch
  <2> QED BY <2>1, <2>2, <1>0, <1>4, <1>5, GetFacts
<1>7. CASE v = 0
  <2>1. Place(v) = Mem(ParamOffset) /\ IR!Operand(v) = param
    BY <1>7 DEF Place, IR!Operand, IR!param, param
  <2>2. Mem(ParamOffset) \in Sources /\ Mem(ParamOffset) \notin Scratch(Bottom)
    BY <1>3, HeldFacts, EaxFacts DEF Held, ParamOffset
  <2> QED BY <2>1, <2>2, <1>0, <1>4, <1>5 DEF InFrame
<1>8. CASE v > 0
  <2>1. v \in DOMAIN fn /\ v < ip /\ fn[v].bb = fn[ip].bb /\ Valued(v)
    BY <1>2, <1>8
  <2>2. UsedLater(v, ip - 1)
    <3>1. ip \in Int /\ ip > ip - 1
      BY <1>0, CodeShape
    <3> QED BY <3>1, <1>0, <1>2 DEF UsedLater
  <2>3. Get(cpu, Place(v)) = val[v]
    BY <2>1, <2>2, <1>0 DEF Inside, ValuesInPlace, StillNeeded, Valued
  <2>4. IR!Operand(v) = val[v]
    BY <1>8 DEF IR!Operand
  <2>5. Place(v) \in Locations /\ Place(v) \notin Scratch(Bottom)
    BY <1>0, <2>1, PlaceFacts
  <2> QED BY <2>3, <2>4, <2>5, <1>4, <1>5, EaxFacts
<1> QED BY <1>2, <1>6, <1>7, <1>8

-----------------------------------------------------------------------------
(***************************************************************************)
(* One instruction that falls through                                      *)
(***************************************************************************)

Straight == {"load", "store", "arith", "icmp", "read", "print"}

\* The location that an instruction is there to write.
Written(i) ==
  CASE fn[i].op \in {"load", "arith", "read"} -> {Place(i)}
    [] fn[i].op = "icmp"  -> {WorksIn(i)}
    [] fn[i].op = "store" -> {Mem(AllocaOffset(fn[i].sym))}
    [] OTHER -> {}

\* The code of instruction i leaves the rest of the frame alone ...
Preserved(m, n, i) ==
  /\ Running(n) /\ n.esp = m.esp /\ n.aligned
  /\ Keeps(m, n, Scratch(Bottom) \cup Written(i))

\* ... and computes what the instruction means.
Computed(m, n, i) ==
  /\ fn[i].op \in {"load", "arith", "read"} => Get(n, Place(i)) = IR!Result(i)
  /\ fn[i].op = "icmp" => n.flags = <<IR!Arg(i, 1), IR!Arg(i, 2)>>
  /\ fn[i].op = "store" => Get(n, Mem(AllocaOffset(fn[i].sym))) = IR!Arg(i, 1)
  /\ fn[i].op = "read" => n.out = Append(m.out, <<"read", junk>>)
  /\ fn[i].op = "print" => n.out = Append(m.out, <<"print", IR!Arg(i, 1)>>)
  /\ fn[i].op \notin {"read", "print"} => n.out = m.out

LEMMA ArgCount ==
  ASSUME fn \in Functions, NEW i \in DOMAIN fn
  PROVE  /\ DOMAIN fn[i].args = 1 .. Len(fn[i].args) /\ Len(fn[i].args) \in Nat
         /\ fn[i].op \in {"load", "read", "br", "constbr"} => Len(fn[i].args) = 0
         /\ fn[i].op \in {"store", "print", "condbr"} => Len(fn[i].args) = 1
         /\ fn[i].op \in {"arith", "icmp"} => Len(fn[i].args) = 2
         /\ fn[i].op = "ret" /\ fn[i].args # <<>> => Len(fn[i].args) = 1
<1>1. WellFormed(fn) /\ Translatable(fn)
  BY CodeShape
<1>2. fn[i] \in Instr
  BY <1>1 DEF WellFormed
<1>3. fn[i].args \in Seq(Int)
  BY <1>2 DEF Instr
<1>4. Len(fn[i].args) \in CASE fn[i].op \in {"load", "read", "br", "constbr"} -> {0}
                            [] fn[i].op \in {"store", "print", "condbr"} -> {1}
                            [] fn[i].op \in {"arith", "icmp"} -> {2}
                            [] fn[i].op = "ret" -> {0, 1}
  BY <1>1 DEF Translatable
<1>5. DOMAIN fn[i].args = 1 .. Len(fn[i].args) /\ Len(fn[i].args) \in Nat
  BY <1>3
<1>6. Len(fn[i].args) = 0 => fn[i].args = <<>>
  BY <1>3
<1>7. fn[i].op = "ret" => Len(fn[i].args) \in {0, 1}
  BY <1>4
<1>8. fn[i].op = "ret" /\ fn[i].args # <<>> => Len(fn[i].args) = 1
  BY <1>6, <1>7
<1> QED BY <1>4, <1>5, <1>8

\* A variable is in its cell of the frame.
LEMMA SlotsFacts ==
  ASSUME NEW m, Running(m), NEW x \in Allocas
  PROVE  /\ Get(m, Mem(AllocaOffset(x))) = Peek(m, -8 + AllocaOffset(x))
         /\ m = cpu => Slots[x] = Get(m, Mem(AllocaOffset(x)))
<1>1. AllocaOffset(x) \in Int
  BY AllocaFacts
<1>2. Get(m, Mem(AllocaOffset(x))) = Peek(m, AllocaOffset(x) - 8)
  BY <1>1, GetFacts
<1>3. AllocaOffset(x) - 8 = -8 + AllocaOffset(x)
  BY <1>1
<1> QED BY <1>2, <1>3 DEF Slots

LEMMA InsideShape ==
  ASSUME Inside
  PROVE  /\ fn \in Functions /\ LaidOut /\ IInv /\ ip \in DOMAIN fn /\ ip \in Int /\ ip > 0
         /\ Running(cpu) /\ cpu.aligned /\ cpu.esp = Bottom
         /\ localMem \in Nat /\ Bottom = -(12 + localMem)
         /\ (fn[ip].op \in {"load", "store"} => fn[ip].sym \in Allocas)
<1>1. WellFormed(fn) /\ DOMAIN fn = 1 .. Len(fn) /\ Len(fn) \in Nat
  BY CodeShape DEF Inside, LaidOut
<1>2. localMem \in Nat
  BY <1>1, SlotFacts DEF Inside, LaidOut
<1> QED BY <1>1, <1>2, CodeShape DEF Inside, LaidOut, InFrame, Bottom

LEMMA LoadStep ==
  ASSUME Inside, fn[ip].op = "load", NEW d, NEW n, n = Run(cpu, CodeOf(ip), d)
  PROVE  Preserved(cpu, n, ip) /\ Computed(cpu, n, ip)
<1>1. PICK x \in Allocas : x = fn[ip].sym
  BY InsideShape
<1>2. PICK src \in Sources, dst \in Locations : src = Mem(AllocaOffset(x)) /\ dst = Place(ip)
  <2>1. Valued(ip)
    BY InsideShape DEF Valued, ValueOps
  <2>2. Place(ip) \in Locations
    BY <2>1, InsideShape, PlaceFacts
  <2> QED BY <2>2, AllocaFacts, EaxFacts
<1>3. n = Run(cpu, Transfer(src, dst), d)
  BY <1>1, <1>2 DEF CodeOf, LoadCode
<1>4. /\ Running(n) /\ SameButData(cpu, n)
      /\ Get(n, dst) = Get(cpu, src) /\ Keeps(cpu, n, {dst, eax})
  BY <1>3, InsideShape, TransferRun
<1>5. IR!Result(ip) = Get(cpu, src)
  <2>1. IR!Result(ip) = Slots[x]
    BY <1>1 DEF IR!Result
  <2> QED BY <2>1, <1>2, InsideShape, SlotsFacts
<1>6. Written(ip) = {dst} /\ eax \in Scratch(Bottom)
  BY <1>2 DEF Written, Scratch
<1>7. Preserved(cpu, n, ip)
  BY <1>4, <1>6, InsideShape DEF Preserved, SameButData, Keeps
<1> QED BY <1>2, <1>4, <1>5, <1>7 DEF Computed, SameButData

LEMMA StoreStep ==
  ASSUME Inside, fn[ip].op = "store", NEW d, NEW n, n = Run(cpu, CodeOf(ip), d)
  PROVE  Preserved(cpu, n, ip) /\ Computed(cpu, n, ip)
<1>1. PICK x \in Allocas : x = fn[ip].sym
  BY InsideShape
<1>2. ArgPlace(ip, 1) \in Sources /\ Get(cpu, ArgPlace(ip, 1)) = IR!Arg(ip, 1)
  <2>1. 1 \in DOMAIN fn[ip].args
    BY InsideShape, ArgCount
  <2> QED BY <2>1, OperandInPlace
<1>3. PICK src \in Sources, dst \in Locations : src = ArgPlace(ip, 1) /\ dst = Mem(AllocaOffset(x))
  BY <1>2, AllocaFacts, EaxFacts
<1>4. n = Run(cpu, Transfer(src, dst), d)
  BY <1>1, <1>3 DEF CodeOf, StoreCode
<1>5. /\ Running(n) /\ SameButData(cpu, n)
      /\ Get(n, dst) = Get(cpu, src) /\ Keeps(cpu, n, {dst, eax})
  <2>1. Running(cpu)
    BY InsideShape
  <2> QED BY <2>1, <1>4, TransferRun
<1>6. Written(ip) = {dst} /\ eax \in Scratch(Bottom)
  BY <1>1, <1>3 DEF Written, Scratch
<1>7. Preserved(cpu, n, ip)
  BY <1>5, <1>6, InsideShape DEF Preserved, SameButData, Keeps
<1> QED BY <1>1, <1>2, <1>3, <1>5, <1>7 DEF Computed, SameButData

LEMMA PrintStep ==
  ASSUME Inside, fn[ip].op = "print", NEW d, NEW n, n = Run(cpu, CodeOf(ip), d)
  PROVE  Preserved(cpu, n, ip) /\ Computed(cpu, n, ip)
<1>1. 1 \in DOMAIN fn[ip].args /\ Len(fn[ip].args) = 1
  BY InsideShape, ArgCount
<1>2. /\ ArgPlace(ip, 1) \in Sources /\ ArgPlace(ip, 1) \notin Scratch(Bottom)
      /\ Get(cpu, ArgPlace(ip, 1)) = IR!Arg(ip, 1)
  BY <1>1, OperandInPlace
<1>3. n = Run(cpu, CallCode(ip), d)
  BY DEF CodeOf
<1>4. CallDone(cpu, n, "print", IR!Arg(ip, 1))
  BY <1>1, <1>2, <1>3, InsideShape, PrintRun
<1>5. Written(ip) = {}
  BY DEF Written
<1> QED BY <1>4, <1>5, InsideShape DEF CallDone, Preserved, Computed

LEMMA ReadStep ==
  ASSUME Inside, fn[ip].op = "read", NEW d, NEW n, n = Run(cpu, CodeOf(ip), d)
  PROVE  Preserved(cpu, n, ip) /\ Computed(cpu, n, ip)
<1>1. Len(fn[ip].args) = 0
  BY InsideShape, ArgCount
<1>2. Place(ip) \in Locations
  <2>1. Valued(ip)
    BY InsideShape DEF Valued, ValueOps
  <2> QED BY <2>1, InsideShape, PlaceFacts
<1>3. n = Run(cpu, CallCode(ip), d)
  BY DEF CodeOf
<1>4. /\ Running(n) /\ n.esp = cpu.esp /\ n.aligned
      /\ n.out = Append(cpu.out, <<"read", junk>>)
      /\ Get(n, Place(ip)) = Input(cpu.out)
      /\ Keeps(cpu, n, Scratch(cpu.esp) \cup {Place(ip)})
  BY <1>1, <1>2, <1>3, InsideShape, ReadRun
<1>5. Written(ip) = {Place(ip)} /\ IR!Result(ip) = Input(cpu.out)
  BY DEF Written, IR!Result, IR!Input, Input
<1>6. Preserved(cpu, n, ip)
  BY <1>4, <1>5, InsideShape DEF Preserved
<1> QED BY <1>4, <1>5, <1>6 DEF Computed

\* Where the second operand is when the first one is moved to the result's register.
LEMMA OperandsKept ==
  ASSUME Inside, fn[ip].op \in {"arith", "icmp"}
  PROVE  /\ ArgPlace(ip, 1) \in Sources /\ Get(cpu, ArgPlace(ip, 1)) = IR!Arg(ip, 1)
         /\ ArgPlace(ip, 2) \in Sources /\ Get(cpu, ArgPlace(ip, 2)) = IR!Arg(ip, 2)
         /\ WorksIn(ip) = eax \/ (reg_map[ip] \in Regs /\ WorksIn(ip) = Reg(reg_map[ip]))
         /\ WorksIn(ip) \in Locations
         /\ ArgPlace(ip, 2) = WorksIn(ip) => ArgPlace(ip, 1) = WorksIn(ip)
<1>0. /\ fn \in Functions /\ LaidOut /\ IInv /\ ip \in DOMAIN fn /\ ip > 0 /\ Len(fn) \in Nat
      /\ DOMAIN fn = 1 .. Len(fn) /\ WellFormed(fn)
  BY InsideShape, CodeShape
<1>1. 1 \in DOMAIN fn[ip].args /\ 2 \in DOMAIN fn[ip].args /\ fn[ip].op # "condbr"
  BY <1>0, ArgCount
<1>2. /\ ArgPlace(ip, 1) \in Sources /\ Get(cpu, ArgPlace(ip, 1)) = IR!Arg(ip, 1)
      /\ ArgPlace(ip, 2) \in Sources /\ Get(cpu, ArgPlace(ip, 2)) = IR!Arg(ip, 2)
      /\ ArgPlace(ip, 2) \notin Scratch(Bottom)
  BY <1>1, OperandInPlace
<1>3. reg_map[ip] \in Regs \cup {nullreg}
  <2>1. ip < Frontier
    BY <1>0 DEF LaidOut, FrameOK, IInv, CursorOK, Frontier
  <2>2. fn[ip].op \in ValueOps
    BY DEF ValueOps
  <2> QED BY <2>1, <2>2, <1>0 DEF LaidOut, Mapped, IInv, TypeOK
<1>4. WorksIn(ip) = eax \/ (reg_map[ip] \in Regs /\ WorksIn(ip) = Reg(reg_map[ip]))
  BY <1>3 DEF WorksIn
<1>5. WorksIn(ip) \in Locations
  BY <1>4, EaxFacts
<1>6. ASSUME ArgPlace(ip, 2) = WorksIn(ip) PROVE ArgPlace(ip, 1) = WorksIn(ip)
  <2>1. reg_map[ip] \in Regs /\ ArgPlace(ip, 2) = Reg(reg_map[ip])
    BY <1>2, <1>4, <1>6 DEF Scratch
  <2>2. PICK v : v = fn[ip].args[2]
    OBVIOUS
  <2>3. /\ v \in Int /\ v \in Operands(ip)
        /\ v = 0 => fn[ip].op = "store"
        /\ v > 0 => v \in DOMAIN fn /\ v < ip /\ fn[v].bb = fn[ip].bb /\ Valued(v)
    BY <1>0, <1>1, <2>2, OperandFacts DEF Valued
  <2>4. Place(v) = Reg(reg_map[ip]) /\ reg_map[ip] \in FourRegs
    BY <2>1, <2>2, MachineRegisters DEF ArgPlace, FourRegs
  <2>5. ~(v < 0)
    <3> SUFFICES ASSUME v < 0 PROVE FALSE
      OBVIOUS
    <3>1. Place(v) = Imm(v)
      BY DEF Place
    <3> QED BY <3>1, <2>3, <2>4, LocationFacts
  <2>6. v > 0
    BY <2>3, <2>5
  <2>7. reg_map[v] = reg_map[ip]
    <3>1. \/ reg_map[v] = nullreg /\ Place(v) = Mem(offset_map[v]) /\ offset_map[v] \in Int
          \/ reg_map[v] \in Regs /\ Place(v) = Reg(reg_map[v])
      BY <1>0, <2>3, <2>6, PlaceFacts
    <3>2. reg_map[v] \in Regs => reg_map[v] \in FourRegs
      BY MachineRegisters DEF FourRegs
    <3> QED BY <3>1, <3>2, <2>4, LocationFacts
  <2>8. fn[ip].args[1] = v
    BY <1>0, <2>1, <2>3, <2>6, <2>7 DEF IInv, NoClobber
  <2> QED BY <1>6, <2>2, <2>8 DEF ArgPlace
<1> QED BY <1>2, <1>4, <1>5, <1>6

LEMMA ArithStep ==
  ASSUME Inside, fn[ip].op = "arith", NEW d, NEW n, n = Run(cpu, CodeOf(ip), d)
  PROVE  Preserved(cpu, n, ip) /\ Computed(cpu, n, ip)
<1>1. Valued(ip) /\ Running(cpu)
  BY InsideShape DEF Valued, ValueOps
<1>2. Place(ip) \in Locations /\ (reg_map[ip] = nullreg \/ Place(ip) = WorksIn(ip))
  BY <1>1, InsideShape, PlaceFacts DEF WorksIn
<1>3. n = Run(cpu, ArithCode(ip), d)
  BY DEF CodeOf
<1>4. /\ Running(n) /\ SameButData(cpu, n) /\ Keeps(cpu, n, {WorksIn(ip), Place(ip)})
      /\ Get(n, Place(ip)) = Apply(fn[ip].sym, IR!Arg(ip, 1), IR!Arg(ip, 2))
  BY <1>1, <1>2, <1>3, OperandsKept, ArithRun
<1>5. Written(ip) = {Place(ip)} /\ WorksIn(ip) \in Scratch(Bottom) \cup {Place(ip)}
  BY <1>2 DEF Written, WorksIn, Scratch
<1>6. IR!Result(ip) = Apply(fn[ip].sym, IR!Arg(ip, 1), IR!Arg(ip, 2))
  BY DEF IR!Result, IR!Apply, Apply, IR!junk, junk
<1>7. Preserved(cpu, n, ip)
  BY <1>4, <1>5, InsideShape DEF Preserved, SameButData, Keeps
<1> QED BY <1>4, <1>6, <1>7 DEF Computed, SameButData

LEMMA ICmpStep ==
  ASSUME Inside, fn[ip].op = "icmp", NEW d, NEW n, n = Run(cpu, CodeOf(ip), d)
  PROVE  Preserved(cpu, n, ip) /\ Computed(cpu, n, ip)
<1>1. n = Run(cpu, ICmpCode(ip), d) /\ Running(cpu)
  BY InsideShape DEF CodeOf
<1>2. /\ Running(n) /\ SameButData(cpu, n) /\ Keeps(cpu, n, {WorksIn(ip)})
      /\ n.flags = <<IR!Arg(ip, 1), IR!Arg(ip, 2)>>
  BY <1>1, OperandsKept, ICmpRun
<1>3. Written(ip) = {WorksIn(ip)}
  BY DEF Written
<1>4. Preserved(cpu, n, ip)
  BY <1>2, <1>3, InsideShape DEF Preserved, SameButData, Keeps
<1> QED BY <1>2, <1>4 DEF Computed, SameButData

LEMMA StraightStep ==
  ASSUME Inside, fn[ip].op \in Straight, NEW d, NEW n, n = Run(cpu, CodeOf(ip), d)
  PROVE  Preserved(cpu, n, ip) /\ Computed(cpu, n, ip)
BY LoadStep, StoreStep, PrintStep, ReadStep, ArithStep, ICmpStep DEF Straight

\* A comparison is only used by the branch right behind it.
LEMMA ComparisonFacts ==
  ASSUME fn \in Functions, NEW u \in DOMAIN fn, fn[u].op = "icmp", NEW j \in DOMAIN fn,
         u \in Operands(j)
  PROVE  j = u + 1 /\ fn[j].op = "condbr"
<1>1. Translatable(fn) /\ WellFormed(fn) /\ DOMAIN fn = 1 .. Len(fn) /\ Len(fn) \in Nat
  BY CodeShape
<1>2. fn[j].op = "condbr"
  BY <1>1 DEF Translatable, Operands
<1>3. j > 1 /\ fn[j].args = <<j - 1>>
  BY <1>1, <1>2 DEF Translatable
<1>4. u \in {fn[j].args[k] : k \in DOMAIN fn[j].args}
  BY DEF Operands, ArgsOf
<1>5. u = j - 1
  BY <1>3, <1>4
<1> QED BY <1>1, <1>2, <1>5

\* What an instruction writes is nothing that is still needed.
LEMMA WrittenFacts ==
  ASSUME Inside, fn[ip].op \in Straight
  PROVE  /\ Held \cap (Scratch(Bottom) \cup Written(ip)) = {}
         /\ \A x \in Allocas : fn[ip].op # "store" \/ fn[ip].sym # x =>
              Mem(AllocaOffset(x)) \notin Scratch(Bottom) \cup Written(ip)
         /\ \A u : Valued(u) /\ u < ip /\ fn[u].bb = fn[ip].bb /\ UsedLater(u, ip) =>
              Place(u) \in Sources /\ Place(u) \notin Scratch(Bottom) \cup Written(ip)
<1>1. /\ fn \in Functions /\ LaidOut /\ IInv /\ ip \in DOMAIN fn /\ localMem \in Nat
      /\ WellFormed(fn) /\ FrameOK
  BY InsideShape, CodeShape DEF LaidOut
<1>2. \A x \in Allocas : /\ AllocaOffset(x) \in Int /\ -localMem <= AllocaOffset(x)
                         /\ AllocaOffset(x) <= -8
  BY <1>1, SlotFacts, AllocaFacts
<1>3. \A x \in Allocas :
        Mem(AllocaOffset(x)) \notin Held /\ Mem(AllocaOffset(x)) \notin Scratch(Bottom)
  BY <1>1, <1>2, HeldFacts
<1>4. Held \cap Scratch(Bottom) = {} /\ eax \in Scratch(Bottom)
  BY <1>1, HeldFacts DEF Scratch
<1>5. CASE fn[ip].op \in {"load", "arith", "read"}
  <2>1. Valued(ip) /\ Written(ip) = {Place(ip)}
    BY <1>1, <1>5 DEF Valued, ValueOps, Written
  <2>2. Place(ip) \notin Held /\ \A x \in Allocas : Place(ip) # Mem(AllocaOffset(x))
    BY <2>1, <1>1, PlaceFacts
  <2>3. ASSUME NEW u, Valued(u), u < ip, fn[u].bb = fn[ip].bb, UsedLater(u, ip)
        PROVE  Place(u) \in Sources /\ Place(u) \notin Scratch(Bottom) /\ Place(u) # Place(ip)
    <3>1. Place(u) \in Sources /\ Place(u) \notin Scratch(Bottom)
      BY <2>3, <1>1, PlaceFacts, EaxFacts
    <3>2. u # ip /\ u \in DOMAIN fn
      BY <2>3, <1>1, CodeShape DEF Valued
    <3>3. ~(reg_map[u] \in Regs /\ reg_map[u] = reg_map[ip])
      BY <2>3, <3>2, <1>1 DEF IInv, NoClobber
    <3> QED BY <3>1, <3>2, <3>3, <2>1, <2>3, <1>1, PlacesDiffer
  <2> QED BY <2>1, <2>2, <2>3, <1>3, <1>4
<1>6. CASE fn[ip].op = "store"
  <2>1. PICK y \in Allocas : y = fn[ip].sym
    BY <1>6, InsideShape
  <2>2. Written(ip) = {Mem(AllocaOffset(y))}
    BY <2>1, <1>6 DEF Written
  <2>3. ASSUME NEW x \in Allocas, x # y PROVE Mem(AllocaOffset(x)) # Mem(AllocaOffset(y))
    BY <2>3, <1>2, AllocaFacts, LocationFacts
  <2>4. ASSUME NEW u, Valued(u)
        PROVE  /\ Place(u) \in Sources /\ Place(u) \notin Scratch(Bottom)
               /\ Place(u) # Mem(AllocaOffset(y))
    BY <2>4, <1>1, PlaceFacts, EaxFacts
  <2> QED BY <2>1, <2>2, <2>3, <2>4, <1>3, <1>4, <1>6
<1>7. CASE fn[ip].op = "icmp"
  <2>1. Written(ip) = {WorksIn(ip)}
    BY <1>7 DEF Written
  <2>2. WorksIn(ip) = eax \/ (reg_map[ip] \in Regs /\ WorksIn(ip) = Reg(reg_map[ip]))
    BY <1>7, OperandsKept
  <2>3. reg_map[ip] \in Regs => reg_map[ip] \in FourRegs
    BY MachineRegisters DEF FourRegs
  <2>4. WorksIn(ip) \notin Held
    BY <2>2, <1>1, <1>4, HeldFacts
  <2>5. \A x \in Allocas : Mem(AllocaOffset(x)) # WorksIn(ip)
    BY <2>2, <2>3, <1>2, EaxFacts, LocationFacts
  <2>6. ASSUME NEW u, Valued(u), u < ip, fn[u].bb = fn[ip].bb, UsedLater(u, ip)
        PROVE  Place(u) \in Sources /\ Place(u) \notin Scratch(Bottom) /\ Place(u) # WorksIn(ip)
    <3>1. Place(u) \in Sources /\ Place(u) \notin Scratch(Bottom)
      BY <2>6, <1>1, PlaceFacts, EaxFacts
    <3>2. u \in DOMAIN fn
      BY <2>6 DEF Valued
    <3>3. ~(reg_map[u] \in Regs /\ reg_map[u] = reg_map[ip])
      BY <2>6, <3>2, <1>1 DEF IInv, NoClobber
    <3>4. CASE WorksIn(ip) = eax
      BY <3>1, <3>4, <1>4
    <3>5. CASE reg_map[ip] \in Regs /\ WorksIn(ip) = Reg(reg_map[ip])
      <4>1. \/ reg_map[u] = nullreg /\ Place(u) = Mem(offset_map[u]) /\ offset_map[u] \in Int
            \/ reg_map[u] \in Regs /\ Place(u) = Reg(reg_map[u])
        BY <2>6, <1>1, PlaceFacts
      <4>2. reg_map[u] \in Regs => reg_map[u] \in FourRegs
        BY MachineRegisters DEF FourRegs
      <4> QED BY <4>1, <4>2, <3>1, <3>3, <3>5, <2>3, LocationFacts
    <3> QED BY <3>1, <3>4, <3>5, <2>2
  <2> QED BY <2>1, <2>4, <2>5, <2>6, <1>3, <1>4
<1>8. CASE fn[ip].op = "print"
  <2>1. Written(ip) = {}
    BY <1>8 DEF Written
  <2>2. ASSUME NEW u, Valued(u) PROVE Place(u) \in Sources /\ Place(u) \notin Scratch(Bottom)
    BY <2>2, <1>1, PlaceFacts, EaxFacts
  <2> QED BY <2>1, <2>2, <1>3, <1>4
<1> QED BY <1>5, <1>6, <1>7, <1>8 DEF Straight

\* Setting the machine's goto changes no location.
LEMMA LandFacts ==
  ASSUME NEW n, DOMAIN n = Fields, NEW l, l = [n EXCEPT !.goto = next]
  PROVE  /\ DOMAIN l = Fields /\ l.goto = next /\ l.reg = n.reg /\ l.stack = n.stack
         /\ l.ebp = n.ebp
         /\ l.esp = n.esp /\ l.out = n.out /\ l.aligned = n.aligned /\ l.flags = n.flags
         /\ \A a : Peek(l, a) = Peek(n, a)
         /\ \A o : Get(l, o) = Get(n, o)
<1>1. /\ DOMAIN l = Fields /\ l.goto = next /\ l.reg = n.reg /\ l.stack = n.stack /\ l.ebp = n.ebp
      /\ l.esp = n.esp /\ l.out = n.out /\ l.aligned = n.aligned /\ l.flags = n.flags
  BY DEF Fields
<1>2. \A a : Peek(l, a) = Peek(n, a)
  BY <1>1 DEF Peek
<1>3. \A o : Get(l, o) = Get(n, o)
  BY <1>1, <1>2 DEF Get
<1> QED BY <1>1, <1>2, <1>3

\* The last instruction is no straight one.
LEMMA NotLast ==
  ASSUME fn \in Functions, NEW i \in DOMAIN fn, fn[i].op \in Straight
  PROVE  i + 1 \in DOMAIN fn
<1>1. Translatable(fn) /\ Len(fn) \in Nat /\ DOMAIN fn = 1 .. Len(fn)
  BY CodeShape
<1>2. i # Len(fn)
  BY <1>1 DEF Translatable, Straight
<1> QED BY <1>1, <1>2

LEMMA StraightRuns ==
  ASSUME Inside, fn[ip].op \in Straight, NEW d, Runs(d)
  PROVE  /\ ip' = ip + 1 /\ ip + 1 \in DOMAIN fn /\ UNCHANGED <<vars, offset_map, localMem>>
         /\ Preserved(cpu, cpu', ip) /\ Computed(cpu, cpu', ip)
<1>1. PICK n : n = Run(cpu, CodeOf(ip), d)
  OBVIOUS
<1>2. Preserved(cpu, n, ip) /\ Computed(cpu, n, ip)
  BY <1>1, StraightStep
<1>3. n.goto = next /\ DOMAIN n = Fields
  BY <1>2 DEF Preserved, Running, IsMachine
<1>4. PICK l : l = cpu'
  OBVIOUS
<1>5. l = [n EXCEPT !.goto = next]
  BY <1>1, <1>4 DEF Runs
<1>6. /\ DOMAIN l = Fields /\ l.goto = next /\ l.reg = n.reg /\ l.ebp = n.ebp
      /\ l.esp = n.esp /\ l.out = n.out /\ l.aligned = n.aligned /\ l.flags = n.flags
      /\ \A o : Get(l, o) = Get(n, o)
  BY <1>3, <1>5, LandFacts
<1>7. Preserved(cpu, l, ip)
  BY <1>2, <1>6 DEF Preserved, Running, IsMachine, Keeps
<1>8. Computed(cpu, l, ip)
  BY <1>2, <1>6 DEF Computed
<1>9. ip' = ip + 1 /\ UNCHANGED <<vars, offset_map, localMem>>
  <2>1. next[1] # "label" /\ next # retAddr
    BY DEF next, retAddr
  <2>2. ip' = CASE n.goto = next -> ip + 1
               [] n.goto[1] = "label" ->
                    CHOOSE i \in DOMAIN fn : /\ LabelOf(fn[i].bb) = n.goto
                                             /\ \A j \in 1 .. i - 1 : fn[j].bb # fn[i].bb
               [] n.goto = retAddr -> 0
               [] OTHER -> Len(fn) + 1
    BY <1>1 DEF Runs
  <2>3. ip' = ip + 1
    BY <2>1, <2>2, <1>3
  <2> QED BY <2>3 DEF Runs
<1>10. ip + 1 \in DOMAIN fn
  BY InsideShape, NotLast
<1> QED BY <1>4, <1>7, <1>8, <1>9, <1>10

\* No step recomputes what an operand of an earlier instruction is.
LEMMA ArgKept ==
  ASSUME fn \in Functions, fn' = fn, ip \in DOMAIN fn, DOMAIN val = DOMAIN fn,
         val' = val \/ \E r : val' = [val EXCEPT ![ip] = r],
         NEW u \in DOMAIN fn, u <= ip, NEW k \in DOMAIN fn[u].args
  PROVE  IR!Arg(u, k)' = IR!Arg(u, k)
<1>1. PICK v : v = fn[u].args[k]
  OBVIOUS
<1>2. v > 0 => v \in DOMAIN fn /\ v < u
  BY <1>1, OperandFacts
<1>3. v > 0 => v # ip /\ v \in DOMAIN val
  BY <1>2, CodeShape
<1>4. v > 0 => val'[v] = val[v]
  BY <1>3
<1>5. IR!Arg(u, k) = IR!Operand(v) /\ IR!Arg(u, k)' = IR!Operand(v)'
  BY <1>1 DEF IR!Arg
<1>6. IR!Operand(v)' = IR!Operand(v)
  BY <1>4 DEF IR!Operand
<1> QED BY <1>5, <1>6

Laid == <<vars, offset_map, localMem>>

\* While the code runs the layout stays what it is.
LEMMA LayoutKept ==
  ASSUME CGIInv, UNCHANGED Laid
  PROVE  /\ fn' = fn /\ reg_map' = reg_map /\ (fn \in Functions /\ IInv /\ Mapped)'
         /\ (FrameOK => FrameOK') /\ (localMem = 0 /\ offset_map = [i \in {} |-> 0]
                                        => (localMem = 0 /\ offset_map = [i \in {} |-> 0])')
         /\ \A u : Place(u)' = Place(u)
         /\ \A m : InFrame(m)' <=> InFrame(m)
<1>1. UNCHANGED vars /\ offset_map' = offset_map /\ localMem' = localMem
  BY DEF Laid
<1>2. [Next]_vars /\ fn' = fn /\ reg_map' = reg_map /\ phase' = phase
  BY <1>1 DEF vars
<1>3. (fn \in Functions /\ IInv /\ Mapped)'
  BY <1>2, NextIInv, MappedNext DEF CGIInv
<1>4. FrameOK => FrameOK'
  <2>1. Slotted' = Slotted
    BY <1>2 DEF Slotted
  <2>2. FrameSize' = FrameSize /\ \A i : SlotOffset(i)' = SlotOffset(i)
    BY <2>1 DEF FrameSize, SlotOffset
  <2> QED BY <2>1, <2>2, <1>1, <1>2 DEF FrameOK
<1>5. \A u : Place(u)' = Place(u)
  BY <1>1, <1>2 DEF Place
<1>6. \A m : InFrame(m)' <=> InFrame(m)
  BY <1>1 DEF InFrame
<1> QED BY <1>1, <1>2, <1>3, <1>4, <1>5, <1>6

\* What a straight instruction leaves in val.
Recorded == val' = IF fn[ip].op \in ValueOps THEN [val EXCEPT ![ip] = IR!Result(ip)] ELSE val

LEMMA RecordedFacts ==
  ASSUME CGIInv, ip \in DOMAIN fn, fn' = fn, Recorded
  PROVE  /\ DOMAIN val' = DOMAIN fn
         /\ \A u \in DOMAIN fn : u # ip => val'[u] = val[u]
         /\ fn[ip].op \in ValueOps => val'[ip] = IR!Result(ip)
         /\ \A u \in DOMAIN fn : \A k \in DOMAIN fn[u].args :
              u <= ip => IR!Arg(u, k)' = IR!Arg(u, k)
<1>1. DOMAIN val = DOMAIN fn /\ fn \in Functions
  BY DEF CGIInv
<1>2. val' = val \/ \E r : val' = [val EXCEPT ![ip] = r]
  BY DEF Recorded
<1>3. DOMAIN val' = DOMAIN fn /\ \A u \in DOMAIN fn : u # ip => val'[u] = val[u]
  BY <1>1 DEF Recorded
<1>4. fn[ip].op \in ValueOps => val'[ip] = IR!Result(ip)
  BY <1>1 DEF Recorded
<1>5. \A u \in DOMAIN fn : \A k \in DOMAIN fn[u].args : u <= ip => IR!Arg(u, k)' = IR!Arg(u, k)
  BY <1>1, <1>2, ArgKept
<1> QED BY <1>3, <1>4, <1>5

LEMMA StraightValues ==
  ASSUME CGIInv, ip \in DOMAIN fn, fn[ip].op \in Straight, NEW d, Runs(d), Recorded
  PROVE  ValuesInPlace'
<1>1. Inside /\ fn \in Functions /\ LaidOut
  BY InsideFacts DEF Inside, LaidOut
<1>2. /\ ip' = ip + 1 /\ ip + 1 \in DOMAIN fn /\ UNCHANGED Laid
      /\ Preserved(cpu, cpu', ip) /\ Computed(cpu, cpu', ip)
  BY <1>1, StraightRuns DEF Laid
<1>3. fn' = fn /\ \A u : Place(u)' = Place(u)
  BY <1>2, LayoutKept
<1>4. WellFormed(fn) /\ DOMAIN fn = 1 .. Len(fn) /\ Len(fn) \in Nat /\ ip \in Int
  BY <1>1, CodeShape
<1> SUFFICES ASSUME NEW u \in DOMAIN fn, StillNeeded(u)'
             PROVE  IF fn[u].op = "icmp" THEN cpu'.flags = <<IR!Arg(u, 1)', IR!Arg(u, 2)'>>
                                         ELSE Get(cpu', Place(u)) = val'[u]
  BY <1>3 DEF ValuesInPlace
<1>5. u < ip + 1 /\ fn[u].bb = fn[ip + 1].bb /\ UsedLater(u, ip)
  <2>1. StillNeeded(u)' <=> u < ip' /\ fn'[u].bb = fn'[ip'].bb /\ UsedLater(u, ip - 1)'
    BY DEF StillNeeded
  <2>2. UsedLater(u, ip - 1)' <=> \E j \in DOMAIN fn' : j > ip' - 1 /\ u \in Operands(j)'
    BY DEF UsedLater
  <2>3. \A j : Operands(j)' = Operands(j)
    BY <1>3 DEF Operands
  <2>4. ip' - 1 = ip
    BY <1>2, <1>4
  <2> QED BY <2>1, <2>2, <2>3, <2>4, <1>2, <1>3 DEF UsedLater
<1>6. fn[u].bb = fn[ip].bb
  <2>1. u <= ip /\ ip <= ip + 1
    BY <1>4, <1>5
  <2>2. fn[u].bb <= fn[ip].bb /\ fn[ip].bb <= fn[ip + 1].bb
    BY <2>1, <1>1, <1>2, <1>4 DEF WellFormed, Inside
  <2>3. fn[u].bb \in Nat /\ fn[ip].bb \in Nat
    BY <1>1, <1>4, FunctionFacts DEF Inside
  <2> QED BY <2>2, <2>3, <1>5
<1>7. PICK j \in DOMAIN fn : j > ip /\ u \in Operands(j)
  BY <1>5 DEF UsedLater
<1>8. fn[u].op \in ValueOps
  <2>1. u > 0 /\ u \in Operands(j)
    BY <1>4, <1>7
  <2> QED BY <2>1, <1>4, FunctionFacts
<1>9. /\ \A w \in DOMAIN fn : w # ip => val'[w] = val[w]
      /\ fn[ip].op \in ValueOps => val'[ip] = IR!Result(ip)
      /\ \A w \in DOMAIN fn : \A k \in DOMAIN fn[w].args : w <= ip => IR!Arg(w, k)' = IR!Arg(w, k)
  BY <1>3, RecordedFacts
<1>10. CASE u = ip /\ fn[u].op = "icmp"
  <2>1. 1 \in DOMAIN fn[u].args /\ 2 \in DOMAIN fn[u].args
    BY <1>1, <1>10, ArgCount
  <2>2. IR!Arg(u, 1)' = IR!Arg(u, 1) /\ IR!Arg(u, 2)' = IR!Arg(u, 2)
    BY <2>1, <1>4, <1>9, <1>10
  <2>3. cpu'.flags = <<IR!Arg(u, 1), IR!Arg(u, 2)>>
    BY <1>2, <1>10 DEF Computed
  <2> QED BY <2>2, <2>3, <1>10
<1>11. CASE u = ip /\ fn[u].op # "icmp"
  <2>1. fn[ip].op \in {"load", "arith", "read"}
    BY <1>8, <1>11 DEF ValueOps
  <2> QED BY <2>1, <1>2, <1>8, <1>9, <1>11 DEF Computed
<1>12. CASE u # ip
  <2>1. u < ip
    BY <1>4, <1>5, <1>12
  <2>2. UsedLater(u, ip - 1)
    BY <1>4, <1>7 DEF UsedLater
  <2>3. fn[u].op # "icmp"
    <3> SUFFICES ASSUME fn[u].op = "icmp" PROVE FALSE
      OBVIOUS
    <3>1. j = u + 1
      BY <1>1, <1>7, ComparisonFacts
    <3> QED BY <3>1, <2>1, <1>4, <1>7
  <2>4. Get(cpu, Place(u)) = val[u]
    BY <2>1, <2>2, <2>3, <1>1, <1>6 DEF Inside, ValuesInPlace, StillNeeded
  <2>5. Place(u) \in Sources /\ Place(u) \notin Scratch(Bottom) \cup Written(ip)
    BY <2>1, <2>3, <1>1, <1>5, <1>6, <1>8, WrittenFacts DEF Valued
  <2>6. Get(cpu', Place(u)) = Get(cpu, Place(u))
    BY <2>5, <1>2 DEF Preserved, Keeps
  <2> QED BY <2>3, <2>4, <2>6, <1>9, <1>12
<1> QED BY <1>10, <1>11, <1>12

LEMMA StraightInv ==
  ASSUME CGIInv, ip \in DOMAIN fn, fn[ip].op \in Straight, NEW d, Runs(d), Recorded,
         facts' = facts
  PROVE  CGIInv'
<1>1. Inside /\ fn \in Functions /\ LaidOut
  BY InsideFacts DEF Inside, LaidOut
<1>2. /\ ip' = ip + 1 /\ ip + 1 \in DOMAIN fn /\ UNCHANGED Laid
      /\ Preserved(cpu, cpu', ip) /\ Computed(cpu, cpu', ip)
  BY <1>1, StraightRuns DEF Laid
<1>3. /\ fn' = fn /\ (fn \in Functions /\ IInv /\ Mapped)' /\ FrameOK'
      /\ \A m : InFrame(m)' <=> InFrame(m)
  BY <1>1, <1>2, LayoutKept DEF LaidOut
<1>4. Translatable(fn) /\ DOMAIN fn = 1 .. Len(fn) /\ Len(fn) \in Nat /\ ip \in Int /\ ip > 0
  BY <1>1, CodeShape
<1>5. ip' \in 1 .. Len(fn) /\ ip' # notStarted /\ ip' # 0 /\ ip' \in DOMAIN fn'
  BY <1>2, <1>3, <1>4 DEF notStarted
<1>6. /\ DOMAIN val' = DOMAIN fn
      /\ fn[ip].op \in ValueOps => val'[ip] = IR!Result(ip)
      /\ \A w \in DOMAIN fn : \A k \in DOMAIN fn[w].args : w <= ip => IR!Arg(w, k)' = IR!Arg(w, k)
  BY <1>3, RecordedFacts
<1>7. InFrame(cpu')
  <2>1. Held \subseteq Sources /\ Held \cap (Scratch(Bottom) \cup Written(ip)) = {}
    BY <1>1, InsideShape, HeldFacts, EaxFacts, WrittenFacts
  <2>2. \A o \in Held : Get(cpu', o) = Get(cpu, o)
    BY <2>1, <1>2 DEF Preserved, Keeps
  <2>3. Running(cpu') /\ cpu'.esp = cpu.esp /\ cpu'.aligned
    BY <1>2 DEF Preserved
  <2> QED BY <2>2, <2>3, <1>1 DEF Inside, InFrame, Held
<1>8. InFrame(cpu)'
  <2>1. \A m : InFrame(m)' <=> InFrame(m)
    BY <1>3
  <2>2. InFrame(cpu)' <=> InFrame(cpu')
    BY <1>2 DEF InFrame, Laid
  <2> QED BY <2>2, <1>7
<1>9. Compared'
  <2>0. PICK c : c = ip
    OBVIOUS
  <2> SUFFICES ASSUME fn[c + 1].op = "condbr"
               PROVE  val'[c] = IR!Compare(fn[c].sym, IR!Arg(c, 1)', IR!Arg(c, 2)')
    <3>1. Compared' <=> (fn'[ip'].op = "condbr" =>
            val'[ip' - 1] = IR!Compare(fn'[ip' - 1].sym, IR!Arg(ip - 1, 1)', IR!Arg(ip - 1, 2)'))
      BY DEF Compared, IR!Compare, IR!junk
    <3>2. ip' - 1 = c /\ ip' = c + 1
      BY <2>0, <1>2, <1>4
    <3>3. IR!Arg(ip - 1, 1)' = IR!Arg(c, 1)' /\ IR!Arg(ip - 1, 2)' = IR!Arg(c, 2)'
      BY <3>2 DEF IR!Arg, IR!Operand
    <3> QED BY <3>1, <3>2, <3>3, <1>2, <1>3
  <2>1. fn[c].op = "icmp"
    <3>1. c + 1 \in DOMAIN fn /\ (c + 1) - 1 = c
      BY <2>0, <1>2, <1>4
    <3>2. fn[(c + 1) - 1].op = "icmp"
      BY <3>1, <1>4 DEF Translatable
    <3> QED BY <3>1, <3>2
  <2>2. 1 \in DOMAIN fn[c].args /\ 2 \in DOMAIN fn[c].args
    BY <2>0, <2>1, <1>1, ArgCount
  <2>3. IR!Arg(c, 1)' = IR!Arg(c, 1) /\ IR!Arg(c, 2)' = IR!Arg(c, 2)
    BY <2>0, <2>2, <1>4, <1>6
  <2>4. val'[c] = IR!Result(c)
    BY <2>0, <2>1, <1>6 DEF ValueOps
  <2>5. IR!Result(c) = IR!Compare(fn[c].sym, IR!Arg(c, 1), IR!Arg(c, 2))
    BY <2>1 DEF IR!Result
  <2> QED BY <2>3, <2>4, <2>5
<1>10. IsMachine(cpu') /\ cpu'.aligned
  BY <1>2 DEF Preserved, Running
<1>11. CalleeSaved'
  BY <1>5 DEF CalleeSaved
<1>12. \A b \in BOOLEAN : <<junk, b>> \notin facts'
  BY DEF CGIInv
<1>13. ValuesInPlace'
  BY StraightValues
<1>14. ip' \in {notStarted} \cup 0 .. Len(fn') /\ DOMAIN val' = DOMAIN fn'
  BY <1>3, <1>4, <1>5, <1>6
<1>15. (IsMachine(cpu) /\ cpu.aligned)'
  BY <1>10 DEF IsMachine
<1> QED BY <1>3, <1>5, <1>8, <1>9, <1>11, <1>12, <1>13, <1>14, <1>15 DEF CGIInv

-----------------------------------------------------------------------------
(***************************************************************************)
(* The instruction of IRExec that each step of the code implements         *)
(***************************************************************************)

\* What ip and ret of IRExec are in terms of the machine.
IRip == IF ip = notStarted THEN 1 ELSE ip
IRret == IF ip = 0 THEN cpu.reg["eax"] ELSE junk

LEMMA SlotsKept ==
  ASSUME Inside, fn[ip].op \in Straight, Preserved(cpu, cpu', ip), Computed(cpu, cpu', ip)
  PROVE  /\ fn[ip].op # "store" => Slots' = Slots
         /\ fn[ip].op = "store" => Slots' = [Slots EXCEPT ![fn[ip].sym] = IR!Arg(ip, 1)]
<1>1. PICK l : l = cpu'
  OBVIOUS
<1>2. Running(l) /\ Running(cpu)
  BY <1>1, InsideShape DEF Preserved
<1>3. Slots = [x \in Allocas |-> Get(cpu, Mem(AllocaOffset(x)))]
  BY <1>2, SlotsFacts DEF Slots
<1>4. Slots' = [x \in Allocas |-> Get(l, Mem(AllocaOffset(x)))]
  <2>1. Slots' = [x \in Allocas |-> Peek(l, -8 + AllocaOffset(x))]
    BY <1>1 DEF Slots, AllocaOffset, Peek
  <2> QED BY <2>1, <1>2, SlotsFacts
<1>5. ASSUME NEW x \in Allocas, fn[ip].op # "store" \/ fn[ip].sym # x
      PROVE  Get(l, Mem(AllocaOffset(x))) = Get(cpu, Mem(AllocaOffset(x)))
  <2>1. Mem(AllocaOffset(x)) \in Sources
    BY AllocaFacts, EaxFacts
  <2>2. Mem(AllocaOffset(x)) \notin Scratch(Bottom) \cup Written(ip)
    BY <1>5, WrittenFacts
  <2> QED BY <2>1, <2>2, <1>1 DEF Preserved, Keeps
<1>6. fn[ip].op # "store" => Slots' = Slots
  BY <1>3, <1>4, <1>5
<1>7. ASSUME fn[ip].op = "store" PROVE Slots' = [Slots EXCEPT ![fn[ip].sym] = IR!Arg(ip, 1)]
  <2>1. Get(l, Mem(AllocaOffset(fn[ip].sym))) = IR!Arg(ip, 1)
    BY <1>1, <1>7 DEF Computed
  <2> QED BY <2>1, <1>3, <1>4, <1>5
<1> QED BY <1>6, <1>7

LEMMA StraightImplements ==
  ASSUME CGIInv, ip \in DOMAIN fn, fn[ip].op \in Straight, NEW d, Runs(d), Recorded,
         facts' = facts
  PROVE  IR!Next
<1>1. Inside /\ fn \in Functions
  BY InsideFacts DEF Inside, LaidOut
<1>2. /\ ip' = ip + 1 /\ ip + 1 \in DOMAIN fn /\ UNCHANGED Laid
      /\ Preserved(cpu, cpu', ip) /\ Computed(cpu, cpu', ip)
  BY <1>1, StraightRuns DEF Laid
<1>3. fn' = fn
  BY <1>2, LayoutKept
<1>4. ip # notStarted /\ ip # 0 /\ ip + 1 # notStarted /\ ip + 1 # 0
  BY <1>1, <1>2, CodeShape DEF notStarted
<1>5. IRip = ip /\ IRip' = ip + 1 /\ IRret = junk /\ IRret' = junk
  BY <1>2, <1>4 DEF IRip, IRret
<1>6. /\ fn[ip].op # "store" => Slots' = Slots
      /\ fn[ip].op = "store" => Slots' = [Slots EXCEPT ![fn[ip].sym] = IR!Arg(ip, 1)]
  BY <1>1, <1>2, SlotsKept
<1>7. CASE fn[ip].op \in {"load", "arith", "icmp"}
  <2>1. val' = [val EXCEPT ![ip] = IR!Result(ip)]
    BY <1>7 DEF Recorded, ValueOps
  <2>2. cpu'.out = cpu.out /\ Slots' = Slots
    BY <1>2, <1>6, <1>7 DEF Computed
  <2>3. IR!Compute
    BY <2>1, <2>2, <1>2, <1>3, <1>4, <1>5, <1>7 DEF IR!Compute, IR!At, IRip, IRret
  <2> QED BY <2>3 DEF IR!Next
<1>8. CASE fn[ip].op = "read"
  <2>1. val' = [val EXCEPT ![ip] = IR!Result(ip)]
    BY <1>8 DEF Recorded, ValueOps
  <2>2. cpu'.out = Append(cpu.out, <<"read", junk>>) /\ Slots' = Slots
    BY <1>2, <1>6, <1>8 DEF Computed
  <2>3. IR!Read
    BY <2>1, <2>2, <1>2, <1>3, <1>4, <1>5, <1>8 DEF IR!Read, IR!At, IRip, IRret, IR!junk, junk
  <2> QED BY <2>3 DEF IR!Next
<1>9. CASE fn[ip].op = "print"
  <2>1. val' = val
    BY <1>9 DEF Recorded, ValueOps
  <2>2. cpu'.out = Append(cpu.out, <<"print", IR!Arg(ip, 1)>>) /\ Slots' = Slots
    BY <1>2, <1>6, <1>9 DEF Computed
  <2>3. IR!PrintArg
    BY <2>1, <2>2, <1>2, <1>3, <1>4, <1>5, <1>9 DEF IR!PrintArg, IR!At, IRip, IRret
  <2> QED BY <2>3 DEF IR!Next
<1>10. CASE fn[ip].op = "store"
  <2>1. val' = val
    BY <1>10 DEF Recorded, ValueOps
  <2>2. cpu'.out = cpu.out /\ Slots' = [Slots EXCEPT ![fn[ip].sym] = IR!Arg(ip, 1)]
    BY <1>2, <1>6, <1>10 DEF Computed
  <2>3. IR!Store
    BY <2>1, <2>2, <1>2, <1>3, <1>4, <1>5, <1>10 DEF IR!Store, IR!At, IRip, IRret
  <2> QED BY <2>3 DEF IR!Next
<1> QED BY <1>7, <1>8, <1>9, <1>10 DEF Straight

-----------------------------------------------------------------------------
(***************************************************************************)
(* Jumps and the return                                                    *)
(***************************************************************************)

\* The code has gone on at the start of the block of instruction j.
Landed(j) ==
  /\ ip' \in DOMAIN fn /\ ip' = IR!StartOf(fn[j].bb)
  /\ \A k \in 1 .. ip' - 1 : fn[k].bb # fn[ip'].bb
  /\ UNCHANGED Laid
  /\ IsMachine(cpu') /\ InFrame(cpu') /\ cpu'.out = cpu.out /\ cpu'.stack = cpu.stack

LEMMA JumpLands ==
  ASSUME Inside, NEW d, Runs(d), NEW j \in DOMAIN fn,
         Jumped(cpu, Run(cpu, CodeOf(ip), d), LabelOf(fn[j].bb))
  PROVE  Landed(j)
<1>1. PICK n : n = Run(cpu, CodeOf(ip), d)
  OBVIOUS
<1>2. PICK l : l = cpu'
  OBVIOUS
<1>3. l = [n EXCEPT !.goto = next]
  BY <1>1, <1>2 DEF Runs
<1>4. Jumped(cpu, n, LabelOf(fn[j].bb))
  BY <1>1
<1>5. /\ DOMAIN l = Fields /\ l.goto = next /\ l.reg = cpu.reg /\ l.stack = cpu.stack
      /\ l.ebp = cpu.ebp
      /\ l.esp = cpu.esp /\ l.out = cpu.out /\ l.aligned = cpu.aligned
  BY <1>3, <1>4, LandFacts DEF Jumped
<1>6. IsMachine(l) /\ Running(l)
  BY <1>5, InsideShape DEF IsMachine, Running
<1>7. \A o : Get(l, o) = Get(cpu, o)
  BY <1>5 DEF Get, Peek
<1>8. InFrame(l)
  BY <1>5, <1>6, <1>7 DEF Inside, InFrame
<1>9. PICK s \in DOMAIN fn :
        /\ fn[s].bb = fn[j].bb /\ \A k \in 1 .. s - 1 : fn[k].bb # fn[s].bb
        /\ s = IR!StartOf(fn[j].bb)
        /\ s = CHOOSE i \in DOMAIN fn : /\ LabelOf(fn[i].bb) = LabelOf(fn[j].bb)
                                        /\ \A k \in 1 .. i - 1 : fn[k].bb # fn[i].bb
  BY InsideShape, CodeShape, StartFacts
<1>10. n.goto # next /\ n.goto[1] = "label" /\ n.goto # retAddr /\ n.goto = LabelOf(fn[j].bb)
  BY <1>4 DEF Jumped, LabelOf, Label, next, retAddr
<1>11. ip' = s
  <2>1. ip' = CASE n.goto = next -> ip + 1
               [] n.goto[1] = "label" ->
                    CHOOSE i \in DOMAIN fn : /\ LabelOf(fn[i].bb) = n.goto
                                             /\ \A k \in 1 .. i - 1 : fn[k].bb # fn[i].bb
               [] n.goto = retAddr -> 0
               [] OTHER -> Len(fn) + 1
    BY <1>1 DEF Runs
  <2>2. ip' = CHOOSE i \in DOMAIN fn : /\ LabelOf(fn[i].bb) = n.goto
                                       /\ \A k \in 1 .. i - 1 : fn[k].bb # fn[i].bb
    BY <2>1, <1>10
  <2> QED BY <2>2, <1>9, <1>10
<1>12. UNCHANGED Laid
  BY DEF Runs, Laid
<1> QED BY <1>2, <1>5, <1>6, <1>8, <1>9, <1>11, <1>12 DEF Landed

\* No branch on a comparison starts a block.
LEMMA LandedInv ==
  ASSUME CGIInv, ip \in DOMAIN fn, NEW j \in DOMAIN fn, Landed(j), val' = val,
         \A b \in BOOLEAN : <<junk, b>> \notin facts'
  PROVE  CGIInv'
<1>1. Inside /\ fn \in Functions /\ LaidOut
  BY InsideFacts DEF Inside, LaidOut
<1>2. fn' = fn /\ (fn \in Functions /\ IInv /\ Mapped)' /\ FrameOK'
  BY <1>1, LayoutKept DEF LaidOut, Landed
<1>3. Translatable(fn) /\ DOMAIN fn = 1 .. Len(fn) /\ Len(fn) \in Nat /\ WellFormed(fn)
  BY <1>1, CodeShape
<1>4. PICK s \in DOMAIN fn : s = ip' /\ \A k \in 1 .. s - 1 : fn[k].bb # fn[s].bb
  BY DEF Landed
<1>5. s \in 1 .. Len(fn) /\ s # notStarted /\ s # 0
  BY <1>3, <1>4 DEF notStarted
<1>6. InFrame(cpu)'
  BY DEF Landed, InFrame, Laid
<1>7. Compared'
  <2>1. fn[s].op # "condbr"
    <3> SUFFICES ASSUME fn[s].op = "condbr" PROVE FALSE
      OBVIOUS
    <3>1. s > 1 /\ fn[s].args = <<s - 1>>
      BY <1>3 DEF Translatable
    <3>2. 1 \in DOMAIN fn[s].args /\ fn[s].args[1] = s - 1 /\ s - 1 > 0
      BY <3>1, <1>5
    <3>3. fn[s - 1].bb = fn[s].bb
      BY <3>2, <1>1, OperandFacts
    <3>4. s - 1 \in 1 .. s - 1
      BY <3>2, <1>5
    <3> QED BY <3>3, <3>4, <1>4
  <2> QED BY <2>1, <1>2, <1>4 DEF Compared
<1>8. ValuesInPlace'
  <2> SUFFICES ASSUME NEW u \in DOMAIN fn, StillNeeded(u)' PROVE FALSE
    BY <1>2 DEF ValuesInPlace
  <2>1. u < s /\ fn[u].bb = fn[s].bb
    BY <1>2, <1>4 DEF StillNeeded
  <2>2. u \in 1 .. s - 1
    BY <2>1, <1>3, <1>5
  <2> QED BY <2>1, <2>2, <1>4
<1>9. CalleeSaved'
  BY <1>4, <1>5 DEF CalleeSaved
<1>10. (IsMachine(cpu) /\ cpu.aligned)'
  BY <1>6 DEF Landed, InFrame, IsMachine
<1>11. ip' \in {notStarted} \cup 0 .. Len(fn') /\ ip' # notStarted
  BY <1>2, <1>4, <1>5
<1>12. DOMAIN val' = DOMAIN fn'
  BY <1>2 DEF CGIInv
<1> QED BY <1>2, <1>6, <1>7, <1>8, <1>9, <1>10, <1>11, <1>12 DEF CGIInv

\* What IRExec sees of a jump.
LEMMA LandedFacts ==
  ASSUME CGIInv, ip \in DOMAIN fn, NEW j \in DOMAIN fn, Landed(j)
  PROVE  /\ IRip = ip /\ IRip' = IR!StartOf(fn[j].bb) /\ IRret = junk /\ IRret' = junk
         /\ fn' = fn /\ Slots' = Slots /\ cpu'.out = cpu.out
<1>1. DOMAIN fn = 1 .. Len(fn) /\ Len(fn) \in Nat
  BY CodeShape DEF CGIInv
<1>2. ip # notStarted /\ ip # 0 /\ ip' # notStarted /\ ip' # 0
  BY <1>1 DEF notStarted, Landed
<1>3. fn' = fn
  BY LayoutKept DEF Landed
<1>4. cpu'.stack = cpu.stack /\ cpu'.out = cpu.out
  BY DEF Landed
<1>5. Slots' = Slots
  BY <1>4 DEF Slots, AllocaOffset, Peek
<1> QED BY <1>2, <1>3, <1>4, <1>5 DEF IRip, IRret, Landed

\* The targets of a jump are blocks of the function.
LEMMA TargetFacts ==
  ASSUME fn \in Functions, NEW i \in DOMAIN fn, NEW k \in DOMAIN fn[i].succ
  PROVE  \E j \in DOMAIN fn : fn[j].bb = fn[i].succ[k]
BY CodeShape DEF Translatable

LEMMA SuccCount ==
  ASSUME fn \in Functions, NEW i \in DOMAIN fn
  PROVE  /\ fn[i].op = "br" => 1 \in DOMAIN fn[i].succ
         /\ fn[i].op \in {"condbr", "constbr"} => 1 \in DOMAIN fn[i].succ /\ 2 \in DOMAIN fn[i].succ
<1>1. WellFormed(fn) /\ Translatable(fn)
  BY CodeShape
<1>2. fn[i] \in Instr
  BY <1>1 DEF WellFormed
<1>3. fn[i].succ \in Seq(Nat)
  BY <1>2 DEF Instr
<1>4. DOMAIN fn[i].succ = 1 .. Len(fn[i].succ)
  BY <1>3
<1>5. fn[i].op = "br" => Len(fn[i].succ) = 1
  BY <1>1 DEF Translatable
<1>6. fn[i].op \in {"condbr", "constbr"} => Len(fn[i].succ) = 2
  BY <1>1 DEF Translatable
<1>7. fn[i].op = "br" => DOMAIN fn[i].succ = 1 .. 1
  BY <1>4, <1>5
<1>8. fn[i].op \in {"condbr", "constbr"} => DOMAIN fn[i].succ = 1 .. 2
  BY <1>4, <1>6
<1> QED BY <1>7, <1>8

LEMMA BrStep ==
  ASSUME CGIInv, ip \in DOMAIN fn, fn[ip].op = "br", NEW d, Runs(d), UNCHANGED <<val, facts>>
  PROVE  CGIInv' /\ IR!Next
<1>1. Inside /\ fn \in Functions /\ Running(cpu)
  BY InsideFacts DEF Inside, LaidOut, InFrame
<1>2. PICK j \in DOMAIN fn : fn[j].bb = fn[ip].succ[1]
  BY <1>1, SuccCount, TargetFacts
<1>3. PICK n : n = Run(cpu, CodeOf(ip), d)
  OBVIOUS
<1>4. PICK k : LabelOf(fn[j].bb) = Label(k)
  BY DEF LabelOf
<1>5. n = Run(cpu, <<C("jmp", Label(k), eax)>>, d)
  BY <1>2, <1>3, <1>4 DEF CodeOf, BrCode
<1>6. Jumped(cpu, n, LabelOf(fn[j].bb))
  BY <1>1, <1>4, <1>5, JumpRun
<1>7. Landed(j)
  BY <1>1, <1>3, <1>6, JumpLands
<1>8. CGIInv'
  BY <1>7, LandedInv DEF CGIInv
<1>9. IR!Br
  BY <1>2, <1>7, LandedFacts DEF IR!Br, IR!At, IRip, IRret
<1> QED BY <1>8, <1>9 DEF IR!Next

LEMMA ConstBrStep ==
  ASSUME CGIInv, ip \in DOMAIN fn, fn[ip].op = "constbr", NEW d, Runs(d), UNCHANGED <<val, facts>>
  PROVE  CGIInv' /\ IR!Next
<1>1. Inside /\ fn \in Functions /\ Running(cpu)
  BY InsideFacts DEF Inside, LaidOut, InFrame
<1>2. PICK b \in {1, 2} : b = IF fn[ip].sym = "true" THEN 1 ELSE 2
  OBVIOUS
<1>3. PICK j \in DOMAIN fn : fn[j].bb = fn[ip].succ[b]
  BY <1>1, SuccCount, TargetFacts
<1>4. PICK n : n = Run(cpu, CodeOf(ip), d)
  OBVIOUS
<1>5. PICK k : LabelOf(fn[j].bb) = Label(k)
  BY DEF LabelOf
<1>6. n = Run(cpu, <<C("jmp", Label(k), eax)>>, d)
  BY <1>2, <1>3, <1>4, <1>5 DEF CodeOf, ConstBrCode
<1>7. Jumped(cpu, n, LabelOf(fn[j].bb))
  BY <1>1, <1>5, <1>6, JumpRun
<1>8. Landed(j)
  BY <1>1, <1>4, <1>7, JumpLands
<1>9. CGIInv'
  BY <1>8, LandedInv DEF CGIInv
<1>10. IR!ConstBr
  BY <1>2, <1>3, <1>8, LandedFacts DEF IR!ConstBr, IR!At, IRip, IRret
<1> QED BY <1>9, <1>10 DEF IR!Next

\* Which way a branch goes: as decided, unless its condition is computed from junk.
LEMMA BranchTaken ==
  ASSUME CGIInv, ip \in DOMAIN fn, fn[ip].op = "condbr", NEW b \in BOOLEAN, NEW q,
         q = IR!Arg(ip, 1)
  PROVE  /\ fn[ip].args[1] \in DOMAIN fn
         /\ Jumps(cpu, JccOf[fn[fn[ip].args[1]].sym], <<q, b>>) <=> (IF q = junk THEN ~b ELSE b)
<1>1. /\ Inside /\ Compared /\ fn \in Functions /\ Translatable(fn) /\ DOMAIN fn = 1 .. Len(fn)
      /\ Len(fn) \in Nat /\ ValuesInPlace
  BY InsideFacts, CodeShape DEF Inside, LaidOut
<1>2. PICK u : u = ip - 1
  OBVIOUS
<1>3. u \in DOMAIN fn /\ u < ip /\ u > 0 /\ fn[u].op = "icmp" /\ fn[ip].args = <<u>>
  BY <1>1, <1>2 DEF Translatable
<1>4. 1 \in DOMAIN fn[ip].args /\ fn[ip].args[1] = u
  BY <1>3
<1>5. fn[u].bb = fn[ip].bb /\ u \in Operands(ip)
  BY <1>1, <1>3, <1>4, OperandFacts
<1>6. UsedLater(u, ip - 1)
  <2>1. ip > ip - 1
    BY <1>1
  <2> QED BY <2>1, <1>5 DEF UsedLater
<1>7. cpu.flags = <<IR!Arg(u, 1), IR!Arg(u, 2)>>
  BY <1>1, <1>3, <1>5, <1>6 DEF ValuesInPlace, StillNeeded
<1>8. PICK a1, a2 : a1 = IR!Arg(u, 1) /\ a2 = IR!Arg(u, 2)
  OBVIOUS
<1>9. q = IR!Compare(fn[u].sym, a1, a2)
  <2>1. val[u] = IR!Compare(fn[u].sym, a1, a2)
    BY <1>1, <1>2, <1>8 DEF Compared
  <2>2. IR!Arg(ip, 1) = val[u]
    BY <1>3, <1>4 DEF IR!Arg, IR!Operand
  <2> QED BY <2>1, <2>2
<1>10. PICK s \in Predicates : s = fn[u].sym
  BY <1>1, <1>3 DEF Translatable
<1>11. Tests[JccOf[s]] = s
  BY DEF Predicates, Tests, JccOf
<1>12. Jumps(cpu, JccOf[s], <<q, b>>) <=> ((<<"icmp", s, a1, a2>> = q) <=> b)
  BY <1>7, <1>8, <1>11 DEF Jumps
<1>13. CASE q = junk
  <2>1. <<"icmp", s, a1, a2>> # q
    BY <1>13 DEF junk
  <2> QED BY <2>1, <1>3, <1>4, <1>10, <1>12, <1>13
<1>14. CASE q # junk
  <2>1. <<"icmp", s, a1, a2>> = q
    BY <1>9, <1>10, <1>14 DEF IR!Compare, IR!junk, junk
  <2> QED BY <2>1, <1>3, <1>4, <1>10, <1>12, <1>14
<1> QED BY <1>13, <1>14

LEMMA CondBrStep ==
  ASSUME CGIInv, RunCondBr
  PROVE  CGIInv' /\ IR!Next
<1>1. ip \in DOMAIN fn /\ fn[ip].op = "condbr" /\ val' = val
  BY DEF RunCondBr, At
<1>2. PICK q : q = IR!Arg(ip, 1)
  OBVIOUS
<1>3. PICK b \in BOOLEAN : /\ <<q, ~b>> \notin facts /\ Runs(<<q, b>>)
                           /\ facts' = facts \cup IR!Found(q, b)
  BY <1>2 DEF RunCondBr
<1>4. Inside /\ fn \in Functions /\ Running(cpu) /\ \A c \in BOOLEAN : <<junk, c>> \notin facts
  BY <1>1, InsideFacts DEF Inside, LaidOut, InFrame, CGIInv
<1>5. PICK way \in BOOLEAN : way = IF q = junk THEN ~b ELSE b
  BY <1>3
<1>6. Jumps(cpu, JccOf[fn[fn[ip].args[1]].sym], <<q, b>>) <=> way
  BY <1>1, <1>2, <1>5, BranchTaken
<1>7. PICK j1 \in DOMAIN fn, j2 \in DOMAIN fn :
        fn[j1].bb = fn[ip].succ[1] /\ fn[j2].bb = fn[ip].succ[2]
  BY <1>1, <1>4, SuccCount, TargetFacts
<1>8. PICK j \in DOMAIN fn : j = IF way THEN j1 ELSE j2
  OBVIOUS
<1>9. fn[j].bb = fn[ip].succ[IF way THEN 1 ELSE 2]
  BY <1>7, <1>8
<1>10. PICK k, l : LabelOf(fn[j1].bb) = Label(k) /\ LabelOf(fn[j2].bb) = Label(l)
  BY DEF LabelOf
<1>11. PICK jcc : jcc = JccOf[fn[fn[ip].args[1]].sym]
  OBVIOUS
<1>12. PICK n : n = Run(cpu, CodeOf(ip), <<q, b>>)
  OBVIOUS
<1>13. n = Run(cpu, <<On("jcc", jcc, Label(k)), C("jmp", Label(l), eax)>>, <<q, b>>)
  BY <1>1, <1>7, <1>10, <1>11, <1>12 DEF CodeOf, CondBrCode
<1>14. Jumped(cpu, n, IF Jumps(cpu, jcc, <<q, b>>) THEN Label(k) ELSE Label(l))
  BY <1>4, <1>13, CondJumpRun
<1>15. Jumped(cpu, n, LabelOf(fn[j].bb))
  BY <1>6, <1>8, <1>10, <1>11, <1>14
<1>16. Landed(j)
  BY <1>3, <1>4, <1>12, <1>15, JumpLands
<1>17. IR!Found(q, b) = IR!Found(q, way)
  BY <1>5 DEF IR!Found, IR!junk, junk
<1>18. \A c \in BOOLEAN : <<junk, c>> \notin facts'
  <2>1. \A c \in BOOLEAN : <<junk, c>> \notin IR!Found(q, b)
    BY DEF IR!Found, IR!junk, junk
  <2> QED BY <2>1, <1>3, <1>4
<1>19. CGIInv'
  BY <1>1, <1>16, <1>18, LandedInv
<1>20. <<q, ~way>> \notin facts
  BY <1>3, <1>4, <1>5
<1>21. facts' = facts \cup IR!Found(q, way)
  BY <1>3, <1>17
<1>22. /\ IRip = ip /\ IRip' = IR!StartOf(fn[j].bb) /\ IRret = junk /\ IRret' = junk
       /\ fn' = fn /\ Slots' = Slots /\ cpu'.out = cpu.out
  BY <1>1, <1>16, LandedFacts
<1>23. IR!CondBr
  <2>1. IRip' = IR!StartOf(fn[ip].succ[IF way THEN 1 ELSE 2])
    BY <1>9, <1>22
  <2>2. <<IR!Arg(ip, 1), ~way>> \notin facts /\ facts' = facts \cup IR!Found(IR!Arg(ip, 1), way)
    BY <1>2, <1>20, <1>21
  <2>3. IR!At("condbr")
    BY <1>1, <1>22 DEF IR!At, IRip
  <2>4. \E c \in BOOLEAN :
          /\ facts' = facts \cup IR!Found(IR!Arg(IRip, 1), c)
          /\ <<IR!Arg(IRip, 1), ~c>> \notin facts
          /\ IRip' = IR!StartOf(fn[IRip].succ[IF c THEN 1 ELSE 2])
    BY <2>1, <2>2, <1>22
  <2> QED BY <2>3, <2>4, <1>1, <1>22 DEF IR!CondBr, IRip, IRret
<1> QED BY <1>19, <1>23 DEF IR!Next

LEMMA RetStep ==
  ASSUME CGIInv, ip \in DOMAIN fn, fn[ip].op = "ret", NEW d, Runs(d), UNCHANGED <<val, facts>>
  PROVE  CGIInv' /\ IR!Next
<1>1. Inside /\ fn \in Functions /\ InFrame(cpu) /\ LaidOut /\ localMem \in Nat /\ Len(fn) \in Nat
      /\ DOMAIN fn = 1 .. Len(fn)
  BY InsideFacts, InsideShape, CodeShape DEF Inside, LaidOut
<1>2. PICK n : n = Run(cpu, CodeOf(ip), d)
  OBVIOUS
<1>3. n = Run(cpu, RetCode(ip), d)
  BY <1>2 DEF CodeOf
<1>4. fn[ip].args # <<>> => 1 \in DOMAIN fn[ip].args
  BY <1>1, ArgCount
<1>5. fn[ip].args # <<>> => ArgPlace(ip, 1) \in Sources /\ Get(cpu, ArgPlace(ip, 1)) = IR!Arg(ip, 1)
  BY <1>1, <1>4, OperandInPlace
<1>6. /\ DOMAIN n = Fields /\ DOMAIN n.reg = FourRegs /\ n.goto = retAddr
      /\ n.esp = 0 /\ n.ebp = oldEbp /\ n.reg["ebx"] = oldEbx
      /\ n.out = cpu.out /\ n.aligned /\ n.stack = cpu.stack
      /\ fn[ip].args # <<>> => n.reg["eax"] = IR!Arg(ip, 1)
  BY <1>1, <1>3, <1>5, RetRun
<1>7. PICK l : l = cpu'
  OBVIOUS
<1>8. l = [n EXCEPT !.goto = next]
  BY <1>2, <1>7 DEF Runs
<1>9. /\ IsMachine(l) /\ l.aligned /\ l.esp = 0 /\ l.ebp = oldEbp /\ l.reg["ebx"] = oldEbx
      /\ l.out = cpu.out /\ l.stack = cpu.stack
      /\ fn[ip].args # <<>> => l.reg["eax"] = IR!Arg(ip, 1)
  BY <1>6, <1>8, LandFacts DEF IsMachine
<1>10. ip' = 0
  <2>1. n.goto # next /\ n.goto[1] # "label" /\ n.goto = retAddr
    BY <1>6 DEF next, retAddr
  <2>2. ip' = CASE n.goto = next -> ip + 1
               [] n.goto[1] = "label" ->
                    CHOOSE i \in DOMAIN fn : /\ LabelOf(fn[i].bb) = n.goto
                                             /\ \A k \in 1 .. i - 1 : fn[k].bb # fn[i].bb
               [] n.goto = retAddr -> 0
               [] OTHER -> Len(fn) + 1
    BY <1>2 DEF Runs
  <2> QED BY <2>1, <2>2
<1>11. UNCHANGED Laid
  BY DEF Runs, Laid
<1>12. fn' = fn /\ (fn \in Functions /\ IInv /\ Mapped)' /\ FrameOK'
  BY <1>1, <1>11, LayoutKept DEF LaidOut
<1>13. ip' \notin DOMAIN fn' /\ ip' # notStarted /\ ip' \in {notStarted} \cup 0 .. Len(fn')
  BY <1>1, <1>10, <1>12 DEF notStarted
<1>14. CGIInv'
  <2>1. ValuesInPlace'
    BY <1>13 DEF ValuesInPlace
  <2>2. CalleeSaved'
    BY <1>7, <1>9 DEF CalleeSaved
  <2>3. (IsMachine(cpu) /\ cpu.aligned)'
    BY <1>7, <1>9 DEF IsMachine
  <2>4. DOMAIN val' = DOMAIN fn' /\ \A b \in BOOLEAN : <<junk, b>> \notin facts'
    BY <1>12 DEF CGIInv
  <2> QED BY <2>1, <2>2, <2>3, <2>4, <1>12, <1>13 DEF CGIInv
<1>15. IRip = ip /\ IRip' = 0 /\ IRret = junk /\ IRret' = l.reg["eax"]
  BY <1>1, <1>7, <1>10 DEF IRip, IRret, notStarted
<1>16. Slots' = Slots
  <2>1. cpu'.stack = cpu.stack
    BY <1>7, <1>9
  <2> QED BY <2>1 DEF Slots, AllocaOffset, Peek
<1>17. IR!Ret
  <2>1. IR!At("ret")
    BY <1>15 DEF IR!At, IRip
  <2>2. fn[IRip].args # <<>> => IRret' = IR!Arg(IRip, 1)
    BY <1>9, <1>15
  <2>3. cpu'.out = cpu.out
    BY <1>7, <1>9
  <2> QED BY <2>1, <2>2, <2>3, <1>12, <1>15, <1>16 DEF IR!Ret, IRip, IRret
<1> QED BY <1>14, <1>17 DEF IR!Next

-----------------------------------------------------------------------------
(***************************************************************************)
(* All steps                                                               *)
(***************************************************************************)

LEMMA CGInitInv == CGInit => CGIInv /\ IR!Init
<1> SUFFICES ASSUME CGInit PROVE CGIInv /\ IR!Init
  OBVIOUS
<1>1. /\ Init /\ offset_map = [i \in {} |-> 0] /\ localMem = 0 /\ cpu = Entered /\ ip = notStarted
      /\ val = [i \in DOMAIN fn |-> junk] /\ facts = {}
  BY DEF CGInit
<1>2. fn \in Functions /\ IInv /\ Mapped
  BY <1>1, InitIInv, MappedInit DEF Init
<1>3. DOMAIN fn = 1 .. Len(fn) /\ Len(fn) \in Nat
  BY <1>2, CodeShape
<1>4. ip \notin DOMAIN fn /\ ip # 0
  BY <1>1, <1>3 DEF notStarted
<1>5. IsMachine(cpu) /\ cpu.aligned /\ cpu.out = <<>>
  BY <1>1 DEF IsMachine, Entered, Fields, FourRegs
<1>6. CGIInv
  BY <1>1, <1>2, <1>4, <1>5 DEF CGIInv, Before, ValuesInPlace, CalleeSaved
<1>7. \A x \in Allocas : Peek(cpu, -8 + AllocaOffset(x)) = junk
  <2> SUFFICES ASSUME NEW x \in Allocas PROVE -8 + AllocaOffset(x) \notin DOMAIN cpu.stack
    BY DEF Peek
  <2>1. AllocaOffset(x) \in Int /\ AllocaOffset(x) <= -8
    BY AllocaFacts
  <2>2. DOMAIN cpu.stack = {-4, 0}
    BY <1>1 DEF Entered
  <2>3. -8 + AllocaOffset(x) # -4 /\ -8 + AllocaOffset(x) # 0
    BY <2>1
  <2> QED BY <2>2, <2>3
<1>8. IR!Init
  <2>1. Slots = [x \in Allocas |-> junk]
    BY <1>7 DEF Slots
  <2>2. IRip = 1 /\ IRret = junk
    BY <1>1, <1>4 DEF IRip, IRret
  <2> QED BY <2>1, <2>2, <1>1, <1>5 DEF IR!Init, IRip, IRret, IR!junk, junk
<1> QED BY <1>6, <1>8

LEMMA PrologueStep ==
  ASSUME CGIInv, RunPrologue
  PROVE  CGIInv' /\ UNCHANGED IR!irvars
<1>1. /\ localMem > 0 /\ ip = notStarted /\ cpu' = Run(cpu, Prologue, <<junk, TRUE>>) /\ ip' = 1
      /\ UNCHANGED Laid /\ val' = val /\ facts' = facts
  BY DEF RunPrologue, Laid
<1>2. FrameOK /\ fn \in Functions /\ cpu = Entered
  BY <1>1 DEF CGIInv, Before
<1>3. DOMAIN fn = 1 .. Len(fn) /\ Len(fn) \in Nat /\ Len(fn) >= 1 /\ Translatable(fn)
  BY <1>2, CodeShape
<1>4. localMem \in Nat /\ localMem >= 4 + 4 * Len(AllocaSeq)
  BY <1>2, CodeShape, SlotFacts
<1>5. PICK n : n = cpu'
  OBVIOUS
<1>6. /\ InFrame(n) /\ n.out = <<>>
      /\ \A o \in Int : o <= -8 /\ o # -(4 + localMem) => Get(n, Mem(o)) = junk
  BY <1>1, <1>2, <1>4, <1>5, PrologueRun
<1>7. fn' = fn /\ (fn \in Functions /\ IInv /\ Mapped)' /\ FrameOK'
  BY <1>1, <1>2, LayoutKept
<1>8. InFrame(cpu)'
  BY <1>1, <1>5, <1>6 DEF InFrame, Laid
<1>9. IsMachine(n) /\ n.aligned
  BY <1>6 DEF InFrame, Running
<1>10. CGIInv'
  <2>1. ip' \in DOMAIN fn /\ ip' # notStarted /\ ip' # 0 /\ ip' \in 0 .. Len(fn)
    BY <1>1, <1>3 DEF notStarted
  <2>2. Compared'
    <3>1. fn[1].op # "condbr"
      BY <1>3 DEF Translatable
    <3> QED BY <3>1, <1>1, <1>7 DEF Compared
  <2>3. ValuesInPlace'
    <3> SUFFICES ASSUME NEW u \in DOMAIN fn, StillNeeded(u)' PROVE FALSE
      BY <1>7 DEF ValuesInPlace
    <3>1. u < 1
      BY <1>1 DEF StillNeeded
    <3> QED BY <3>1, <1>3
  <2>4. CalleeSaved'
    BY <2>1 DEF CalleeSaved
  <2>5. (IsMachine(cpu) /\ cpu.aligned)'
    BY <1>5, <1>9 DEF IsMachine
  <2>6. DOMAIN val' = DOMAIN fn' /\ \A b \in BOOLEAN : <<junk, b>> \notin facts'
    BY <1>1, <1>7 DEF CGIInv
  <2> QED BY <2>1, <2>2, <2>3, <2>4, <2>5, <2>6, <1>7, <1>8 DEF CGIInv
<1>11. Slots = [x \in Allocas |-> junk]
  <2> SUFFICES ASSUME NEW x \in Allocas PROVE Peek(cpu, -8 + AllocaOffset(x)) = junk
    BY DEF Slots
  <2>1. AllocaOffset(x) \in Int /\ AllocaOffset(x) <= -8
    BY AllocaFacts
  <2>2. DOMAIN cpu.stack = {-4, 0}
    BY <1>2 DEF Entered
  <2>3. -8 + AllocaOffset(x) \notin DOMAIN cpu.stack
    BY <2>1, <2>2
  <2> QED BY <2>3 DEF Peek
<1>12. Slots' = [x \in Allocas |-> junk]
  <2>1. Slots' = [x \in Allocas |-> Peek(n, -8 + AllocaOffset(x))]
    BY <1>5 DEF Slots, AllocaOffset, Peek
  <2> SUFFICES ASSUME NEW x \in Allocas PROVE Peek(n, -8 + AllocaOffset(x)) = junk
    BY <2>1
  <2>2. /\ AllocaOffset(x) \in Int /\ AllocaOffset(x) <= -8
        /\ -(4 + 4 * Len(AllocaSeq)) <= AllocaOffset(x) /\ Len(AllocaSeq) \in Nat
    BY AllocaFacts
  <2>3. AllocaOffset(x) # -(4 + localMem)
    BY <2>2, <1>1, <1>4
  <2>4. Get(n, Mem(AllocaOffset(x))) = junk
    BY <2>2, <2>3, <1>6
  <2>5. Running(n)
    BY <1>6 DEF InFrame
  <2> QED BY <2>4, <2>5, SlotsFacts
<1>13. UNCHANGED IR!irvars
  <2>1. IRip' = IRip /\ IRret = junk /\ IRret' = junk
    BY <1>1 DEF IRip, IRret, notStarted
  <2>2. cpu.out = <<>> /\ cpu'.out = <<>>
    BY <1>2, <1>5, <1>6 DEF Entered
  <2> QED BY <2>1, <2>2, <1>1, <1>7, <1>11, <1>12 DEF IR!irvars, IRip, IRret
<1> QED BY <1>10, <1>13

LEMMA GetOffsetMapStep ==
  ASSUME CGIInv, GetOffsetMap
  PROVE  CGIInv' /\ UNCHANGED IR!irvars
<1>1. /\ phase = "done" /\ localMem = 0 /\ UNCHANGED <<vars, cpu, ip, val, facts>>
      /\ offset_map' = [i \in Slotted |-> SlotOffset(i)] /\ localMem' = FrameSize
  BY DEF GetOffsetMap
<1>2. fn \in Functions /\ IInv /\ Mapped /\ DOMAIN fn = 1 .. Len(fn) /\ Len(fn) \in Nat
  BY CodeShape DEF CGIInv
<1>3. ~FrameOK
  <2> SUFFICES ASSUME FrameOK PROVE FALSE
    OBVIOUS
  <2>1. localMem >= 4 + 4 * Len(AllocaSeq) /\ Len(AllocaSeq) \in Nat
    BY <1>2, CodeShape, SlotFacts, AllocaFacts
  <2> QED BY <2>1, <1>1
<1>4. ip = notStarted
  BY <1>3 DEF CGIInv, Before
<1>5. fn' = fn /\ phase' = phase /\ reg_map' = reg_map /\ (fn \in Functions /\ IInv /\ Mapped)'
  <2>1. [Next]_vars /\ fn' = fn /\ phase' = phase /\ reg_map' = reg_map
    BY <1>1 DEF vars
  <2> QED BY <2>1, <1>2, NextIInv, MappedNext
<1>6. FrameOK'
  <2>1. Slotted' = Slotted
    BY <1>5 DEF Slotted
  <2>2. FrameSize' = FrameSize /\ \A i : SlotOffset(i)' = SlotOffset(i)
    BY <2>1 DEF FrameSize, SlotOffset
  <2> QED BY <2>1, <2>2, <1>1, <1>5 DEF FrameOK
<1>7. CGIInv'
  <2>1. ip' = notStarted /\ ip' \notin DOMAIN fn' /\ ip' # 0
    BY <1>1, <1>2, <1>4, <1>5 DEF notStarted
  <2>2. ValuesInPlace' /\ CalleeSaved'
    BY <2>1 DEF ValuesInPlace, CalleeSaved
  <2>3. (IsMachine(cpu) /\ cpu.aligned /\ cpu = Entered)'
    BY <1>1, <1>4 DEF CGIInv, IsMachine, Entered
  <2>4. DOMAIN val' = DOMAIN fn' /\ \A b \in BOOLEAN : <<junk, b>> \notin facts'
    BY <1>1, <1>5 DEF CGIInv
  <2> QED BY <2>1, <2>2, <2>3, <2>4, <1>5, <1>6 DEF CGIInv
<1>8. UNCHANGED IR!irvars
  <2>1. Slots' = Slots
    BY <1>1 DEF Slots, AllocaOffset, Peek
  <2> QED BY <2>1, <1>1, <1>5 DEF IR!irvars
<1> QED BY <1>7, <1>8

LEMMA AllocateStep ==
  ASSUME CGIInv, AllocateRegisters
  PROVE  CGIInv' /\ UNCHANGED IR!irvars
<1>1. Allocate /\ UNCHANGED cgvars /\ [Next]_vars
  BY DEF AllocateRegisters, Next
<1>2. /\ offset_map' = offset_map /\ localMem' = localMem /\ cpu' = cpu /\ ip' = ip /\ val' = val
      /\ facts' = facts
  BY <1>1 DEF cgvars
<1>3. phase # "done" /\ fn' = fn
  BY <1>1 DEF Allocate, EnterBlock, ScanUses, ReleaseAtSink, TakeOver, TakeFree, SpillSelf,
              SpillVictim, Spilling, Allocating, NextInstr
<1>4. Before /\ (Before)'
  BY <1>2, <1>3 DEF CGIInv, FrameOK, Before
<1>5. (fn \in Functions /\ IInv /\ Mapped)' /\ fn \in Functions
  BY <1>1, <1>3, NextIInv, MappedNext DEF CGIInv
<1>6. CGIInv'
  <2>1. ip' = notStarted /\ ip' \notin DOMAIN fn' /\ ip' # 0
    BY <1>2, <1>3, <1>4, <1>5, CodeShape DEF notStarted, Before
  <2>2. ValuesInPlace' /\ CalleeSaved'
    BY <2>1 DEF ValuesInPlace, CalleeSaved
  <2>3. (IsMachine(cpu) /\ cpu.aligned /\ cpu = Entered)'
    BY <1>2, <1>4 DEF CGIInv, IsMachine, Entered, Before
  <2>4. DOMAIN val' = DOMAIN fn' /\ \A b \in BOOLEAN : <<junk, b>> \notin facts'
    BY <1>2, <1>3 DEF CGIInv
  <2> QED BY <2>1, <2>2, <2>3, <2>4, <1>4, <1>5 DEF CGIInv
<1>7. UNCHANGED IR!irvars
  <2>1. Slots' = Slots
    BY <1>2 DEF Slots, AllocaOffset, Peek
  <2> QED BY <2>1, <1>2, <1>3 DEF IR!irvars
<1> QED BY <1>6, <1>7

LEMMA StutterStep ==
  ASSUME CGIInv, UNCHANGED allvars
  PROVE  CGIInv' /\ UNCHANGED IR!irvars
<1>1. /\ UNCHANGED vars /\ UNCHANGED Laid
      /\ cpu' = cpu /\ ip' = ip /\ val' = val /\ facts' = facts
      /\ offset_map' = offset_map /\ localMem' = localMem
  BY DEF allvars, cgvars, Laid
<1>2. /\ fn' = fn /\ (fn \in Functions /\ IInv /\ Mapped)'
      /\ (FrameOK => FrameOK') /\ (Before => Before')
  BY <1>1, LayoutKept DEF Before
<1>3. CGIInv'
  <2>1. ValuesInPlace' /\ CalleeSaved'
    <3>1. \A u : StillNeeded(u)' <=> StillNeeded(u)
      BY <1>1, <1>2 DEF StillNeeded, UsedLater, Operands
    <3>2. \A u, k : IR!Arg(u, k)' = IR!Arg(u, k)
      BY <1>1, <1>2 DEF IR!Arg, IR!Operand
    <3>3. \A u : Place(u)' = Place(u)
      BY <1>1, LayoutKept
    <3> QED BY <3>1, <3>2, <3>3, <1>1, <1>2 DEF CGIInv, ValuesInPlace, CalleeSaved
  <2>2. InFrame(cpu)' <=> InFrame(cpu)
    BY <1>1 DEF InFrame
  <2>3. Compared' <=> Compared
    BY <1>1, <1>2 DEF Compared, IR!Arg, IR!Operand
  <2>4. (IsMachine(cpu) /\ cpu.aligned)' /\ (cpu = Entered => (cpu = Entered)')
    BY <1>1 DEF CGIInv, IsMachine, Entered
  <2> QED BY <2>1, <2>2, <2>3, <2>4, <1>1, <1>2 DEF CGIInv
<1>4. UNCHANGED IR!irvars
  <2>1. Slots' = Slots
    BY <1>1 DEF Slots, AllocaOffset, Peek
  <2> QED BY <2>1, <1>1, <1>2 DEF IR!irvars
<1> QED BY <1>3, <1>4

LEMMA CGNextInv == CGIInv /\ [CGNext]_allvars => CGIInv' /\ [IR!Next]_(IR!irvars)
<1> SUFFICES ASSUME CGIInv, [CGNext]_allvars PROVE CGIInv' /\ [IR!Next]_(IR!irvars)
  OBVIOUS
<1>1. CASE AllocateRegisters
  BY <1>1, AllocateStep
<1>2. CASE GetOffsetMap
  BY <1>2, GetOffsetMapStep
<1>3. CASE RunPrologue
  BY <1>3, PrologueStep
<1>4. CASE RunValue
  <2>1. ip \in DOMAIN fn /\ fn[ip].op \in ValueOps /\ Runs(<<junk, TRUE>>) /\ facts' = facts
    BY <1>4 DEF RunValue, At
  <2>2. fn[ip].op \in Straight /\ Recorded
    BY <1>4, <2>1 DEF RunValue, Recorded, ValueOps, Straight
  <2> QED BY <2>1, <2>2, StraightInv, StraightImplements
<1>5. CASE RunEffect
  <2>1. /\ ip \in DOMAIN fn /\ fn[ip].op \in {"store", "print", "br", "constbr", "ret"}
        /\ Runs(<<junk, TRUE>>) /\ val' = val /\ facts' = facts
    BY <1>5 DEF RunEffect, At
  <2>2. CASE fn[ip].op \in {"store", "print"}
    <3>1. fn[ip].op \in Straight /\ Recorded
      BY <2>1, <2>2 DEF Recorded, ValueOps, Straight
    <3> QED BY <3>1, <2>1, StraightInv, StraightImplements
  <2>3. CASE fn[ip].op = "br"
    BY <2>1, <2>3, BrStep
  <2>4. CASE fn[ip].op = "constbr"
    BY <2>1, <2>4, ConstBrStep
  <2>5. CASE fn[ip].op = "ret"
    BY <2>1, <2>5, RetStep
  <2> QED BY <2>1, <2>2, <2>3, <2>4, <2>5
<1>6. CASE RunCondBr
  BY <1>6, CondBrStep
<1>7. CASE UNCHANGED allvars
  BY <1>7, StutterStep
<1> QED BY <1>1, <1>2, <1>3, <1>4, <1>5, <1>6, <1>7 DEF CGNext, Returned

LEMMA CGInductive == CGSpec => []CGIInv
BY CGInitInv, CGNextInv, PTL DEF CGSpec

(***************************************************************************)
(* Wherever a jump, a call or the return leads, the code is at an          *)
(* instruction of the function or has returned to its caller: a label      *)
(* (backend.cpp:171-195) names one block, the return address is still on   *)
(* the stack, and no instruction falls off the end.                        *)
(***************************************************************************)
THEOREM CGTypeOKTheorem == CGSpec => []CGTypeOK
<1>1. CGIInv => CGTypeOK
  <2> SUFFICES ASSUME CGIInv PROVE CGTypeOK
    OBVIOUS
  <2>1. fn \in Functions /\ WellFormed(fn) /\ TypeOK
    BY CodeShape DEF CGIInv, IInv
  <2>2. DOMAIN offset_map \subseteq DOMAIN fn /\ localMem \in Nat
    <3>1. CASE FrameOK
      BY <2>1, <3>1, SlotFacts DEF Slotted
    <3>2. CASE Before
      BY <3>2 DEF Before
    <3> QED BY <3>1, <3>2 DEF CGIInv
  <2> QED BY <2>1, <2>2 DEF CGIInv, CGTypeOK, IsMachine, FourRegs
<1> QED BY <1>1, CGInductive, PTL

(***************************************************************************)
(* Every value still to be used is in the register, the slot or the flags  *)
(* where the rest of the code will look for it (backend.cpp:239-534),      *)
(* however it was allocated and spilled and whatever was called in         *)
(* between.                                                                *)
(***************************************************************************)
THEOREM ValuesInPlaceTheorem == CGSpec => []ValuesInPlace
<1>1. CGIInv => ValuesInPlace
  BY DEF CGIInv
<1> QED BY <1>1, CGInductive, PTL

(***************************************************************************)
(* The padding before a call (backend.cpp:341-386) aligns the stack,       *)
(* whatever the size of the frame and of the argument.                     *)
(***************************************************************************)
THEOREM CallsAlignedTheorem == CGSpec => []CallsAligned
<1>1. CGIInv => CallsAligned
  BY DEF CGIInv, CallsAligned
<1> QED BY <1>1, CGInductive, PTL

(***************************************************************************)
(* ret leaves esp, ebp and ebx as the caller had them: pushes and pops are *)
(* balanced on every way through the function, and nothing is written over *)
(* the saved registers or the return address.                              *)
(***************************************************************************)
THEOREM CalleeSavedTheorem == CGSpec => []CalleeSaved
<1>1. CGIInv => CalleeSaved
  BY DEF CGIInv
<1> QED BY <1>1, CGInductive, PTL

(***************************************************************************)
(* Each step of the emitted code is a step of the function's meaning, or   *)
(* none at all (compiling, the prologue): the same calls with the same     *)
(* arguments, the same stores, the same branches, the same return value.   *)
(***************************************************************************)
THEOREM ImplementsIRTheorem == CGSpec => ImplementsIR
<1>1. CGInit => IR!Init
  BY CGInitInv
<1>2. CGIInv /\ [CGNext]_allvars => [IR!Next]_(IR!irvars)
  BY CGNextInv
<1> QED BY <1>1, <1>2, CGInductive, PTL DEF CGSpec, ImplementsIR, IR!Spec
=============================================================================
