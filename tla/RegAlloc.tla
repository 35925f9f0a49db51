------------------------------ MODULE RegAlloc ------------------------------
(***************************************************************************)
(* The register allocator of the x86 backend: alloc_registers with its     *)
(* helpers compute_liveness, compare_instr and find_spill                  *)
(* (src/src/backend.cpp:12-167).                                           *)
(*                                                                         *)
(* A function is the sequence of its instructions in layout order, without *)
(* the allocas (both loops of the code skip them).  An operand is an       *)
(* integer: i > 0 is the result of instruction i; anything else (0 for the *)
(* parameter, negative for a constant) never has an entry in live_range.   *)
(* The code numbers the instructions of each block from 0; positions in    *)
(* the function are used here, which compare in the same way.              *)
(*                                                                         *)
(* std::sort leaves the order of equal keys open and begin() of an         *)
(* unordered_set yields any element: both are nondeterministic choices.    *)
(***************************************************************************)
EXTENDS Integers, Sequences

CONSTANTS
  Functions,   \* the functions to compile
  Syms,        \* what instructions name besides values: an alloca, a predicate
  Regs,        \* the allocatable registers: ebx, ecx and edx in the code
  nullreg,     \* the value lives in memory
  none         \* no entry in reg_map

ValueOps == {"load", "arith", "icmp", "read"}
SinkOps  == {"store", "print", "br", "condbr", "constbr", "ret"}
ArithOps == {"arith"}

Instr == [op : ValueOps \cup SinkOps, args : Seq(Int), sym : Syms,
          succ : Seq(Nat), bb : Nat]

ArgsOf(f, i) == {f[i].args[k] : k \in DOMAIN f[i].args}

(***************************************************************************)
(* What ir_builder.cpp and optimizer.cpp hand over: blocks are contiguous, *)
(* a value is used only in the block that computes it and only after it,   *)
(* and (dead code being eliminated) every value has a use.                 *)
(***************************************************************************)
WellFormed(f) ==
  /\ f \in Seq(Instr) \ {<<>>}
  /\ \A i, j \in DOMAIN f : i <= j => f[i].bb <= f[j].bb
  /\ \A i \in DOMAIN f : f[i].op \in ArithOps => Len(f[i].args) = 2
  /\ \A i \in DOMAIN f : \A v \in ArgsOf(f, i) :
        v > 0 => v < i /\ f[v].bb = f[i].bb /\ f[v].op \in ValueOps
  /\ \A i \in DOMAIN f :
        f[i].op \in ValueOps => \E j \in DOMAIN f : i \in ArgsOf(f, j)

Predicates == {"eq", "ne", "slt", "sle", "sgt", "sge"}

(***************************************************************************)
(* What generate_code takes for granted besides: only stores take the      *)
(* parameter, a comparison is there for the branch right after it, a       *)
(* branch without one is decided, and the last instruction is a            *)
(* terminator.                                                             *)
(***************************************************************************)
Translatable(f) ==
  /\ \A i \in DOMAIN f : Len(f[i].args) \in
        CASE f[i].op \in {"load", "read", "br", "constbr"} -> {0}
          [] f[i].op \in {"store", "print", "condbr"} -> {1}
          [] f[i].op \in {"arith", "icmp"} -> {2}
          [] f[i].op = "ret" -> {0, 1}
  /\ \A i \in DOMAIN f : 0 \in ArgsOf(f, i) => f[i].op = "store"
  /\ \A i \in DOMAIN f : f[i].op = "icmp" =>
        f[i].sym \in Predicates /\ \A j \in DOMAIN f : i \in ArgsOf(f, j) => f[j].op = "condbr"
  /\ \A i \in DOMAIN f : f[i].op = "condbr" =>
        i > 1 /\ f[i - 1].op = "icmp" /\ f[i].args = <<i - 1>>
  /\ \A i \in DOMAIN f : /\ f[i].op = "br" => Len(f[i].succ) = 1
                         /\ f[i].op \in {"condbr", "constbr"} => Len(f[i].succ) = 2
                         /\ f[i].op = "constbr" => f[i].sym \in {"true", "false"}
  /\ \A i \in DOMAIN f : \A k \in DOMAIN f[i].succ : \E j \in DOMAIN f : f[j].bb = f[i].succ[k]
  /\ f[Len(f)].op \in {"br", "condbr", "constbr", "ret"}

ASSUME FunctionsAssumption == \A f \in Functions : WellFormed(f)
ASSUME RegistersAssumption ==
  Regs # {} /\ nullreg \notin Regs /\ none \notin Regs /\ nullreg # none

VARIABLES
  fn,          \* the function being compiled
  phase,       \* which loop of alloc_registers runs
  first,       \* first instruction of the current block
  pc,          \* the instruction the current loop is at
  live_range,  \* live_range[v].second; live_range[v].first is v itself
  reg_map,     \* value -> register, nullreg or none
  available    \* the free registers of the current block

vars == <<fn, phase, first, pc, live_range, reg_map, available>>

-----------------------------------------------------------------------------

Operands(i) == ArgsOf(fn, i)

BlockOf(i) == {j \in DOMAIN fn : fn[j].bb = fn[i].bb}

LastInBlock(i) == i = Len(fn) \/ fn[i + 1].bb # fn[i].bb

\* Faulty variant: off by one, an operand is dead one instruction late.
DiedBefore(v, i) == v \in DOMAIN live_range /\ live_range[v] < i

\* live_range.count(v) and live_range.at(v).second == inst_index.at(i)
DiesAt(v, i) == v \in DOMAIN live_range /\ live_range[v] = i

\* reg != reg_map.end() && reg->second != nullreg
InRegister(v) == reg_map[v] \in Regs

\* Faulty variant: a register comes back as soon as an operand is used.
FreedEarly(i, kept) ==
  {reg_map[v] : v \in {o \in Operands(i) :
                        o \in DOMAIN live_range /\ InRegister(o)}} \ {kept}

\* Faulty variant: an operand in memory is not told from one in a register.
FreedAnywhere(i, kept) ==
  {reg_map[v] : v \in {o \in Operands(i) : DiesAt(o, i)}} \ {kept}

(***************************************************************************)
(* The registers of the operands whose last use is instruction i, except   *)
(* the one that instruction i keeps for its own result.                    *)
(***************************************************************************)
Freed(i, kept) ==
  {reg_map[v] : v \in {o \in Operands(i) : DiesAt(o, i) /\ InRegister(o)}}
    \ {kept}

\* The values find_spill may return: in a register, and overlapping with i.
Victims(i) ==
  {v \in DOMAIN live_range :
     v <= live_range[i] /\ i <= live_range[v] /\ InRegister(v)}

\* Faulty variant: the list is sorted the other way round.
NearestVictim(i, v) ==
  v \in Victims(i) /\ \A w \in Victims(i) : live_range[v] <= live_range[w]

\* The first of sorted_list (descending by last use) that qualifies.
FindSpill(i, v) ==
  v \in Victims(i) /\ \A w \in Victims(i) : live_range[w] <= live_range[v]

\* compare_instr(a, b)
LaterLastUse(a, b) == live_range[a] > live_range[b]

-----------------------------------------------------------------------------

Init ==
  /\ fn \in Functions
  /\ phase = "enter"
  /\ first = 1
  /\ pc = 1
  /\ live_range = [i \in {} |-> 0]
  /\ reg_map = [i \in DOMAIN fn |-> none]
  /\ available = Regs

\* A new block: the pool is full again and every range starts as one point.
EnterBlock ==
  /\ phase = "enter"
  /\ first \in DOMAIN fn
  /\ phase' = "scan"
  /\ pc' = first
  /\ live_range' = [i \in BlockOf(first) |-> i]
  /\ available' = Regs
  /\ UNCHANGED <<fn, first, reg_map>>

\* One round of the second loop of compute_liveness.
ScanUses ==
  /\ phase = "scan"
  /\ live_range' = [v \in DOMAIN live_range |->
                      IF v \in Operands(pc) THEN pc ELSE live_range[v]]
  /\ IF LastInBlock(pc)
       THEN phase' = "alloc" /\ pc' = first
       ELSE pc' = pc + 1 /\ UNCHANGED phase
  /\ UNCHANGED <<fn, first, reg_map, available>>

\* The loop over the instructions goes on, or the block is done.
NextInstr ==
  /\ pc' = pc + 1
  /\ IF LastInBlock(pc)
       THEN /\ first' = pc + 1
            /\ phase' = IF pc = Len(fn) THEN "done" ELSE "enter"
       ELSE UNCHANGED <<first, phase>>
  /\ UNCHANGED <<fn, live_range>>

Allocating == phase = "alloc"

IsSink(i) == fn[i].op \in SinkOps

\* Faulty variant: a spilled or live operand is not looked for.
CoalesceLive(i) == fn[i].op \in ArithOps
  /\ fn[i].args[1] \in DOMAIN live_range /\ InRegister(fn[i].args[1])

\* An add, sub or mul takes over the register of a first operand dying here.
Coalesces(i) ==
  /\ fn[i].op \in ArithOps
  /\ DiesAt(fn[i].args[1], i)
  /\ InRegister(fn[i].args[1])

\* Store, call of a void function, terminator: no register for the result.
ReleaseAtSink ==
  /\ Allocating
  /\ IsSink(pc)
  /\ available' = available \cup Freed(pc, nullreg)
  /\ UNCHANGED reg_map
  /\ NextInstr

TakeOver ==
  /\ Allocating
  /\ ~IsSink(pc)
  /\ Coalesces(pc)
  /\ LET r == reg_map[fn[pc].args[1]] IN
       /\ reg_map' = [reg_map EXCEPT ![pc] = r]
       /\ available' = available \cup Freed(pc, r)
  /\ NextInstr

TakeFree ==
  /\ Allocating
  /\ ~IsSink(pc)
  /\ ~Coalesces(pc)
  /\ \E r \in available :
       /\ reg_map' = [reg_map EXCEPT ![pc] = r]
       /\ available' = (available \ {r}) \cup Freed(pc, r)
  /\ NextInstr

\* find_spill is consulted when no register is free.
Spilling ==
  /\ Allocating
  /\ ~IsSink(pc)
  /\ ~Coalesces(pc)
  /\ available = {}

\* The value find_spill returns is needed less long than the new one; the
\* same is done when it returns NULL.
SpillSelf ==
  /\ Spilling
  /\ Victims(pc) # {} => \E v \in Victims(pc) : FindSpill(pc, v) /\ LaterLastUse(pc, v)
  /\ reg_map' = [reg_map EXCEPT ![pc] = nullreg]
  /\ available' = available \cup Freed(pc, nullreg)
  /\ NextInstr

\* The victim goes to memory for its whole life, from its definition on.
SpillVictim ==
  /\ Spilling
  /\ \E v \in Victims(pc) :
       /\ FindSpill(pc, v)
       /\ ~LaterLastUse(pc, v)
       /\ reg_map' = [reg_map EXCEPT ![pc] = reg_map[v], ![v] = nullreg]
       /\ available' = available \cup Freed(pc, reg_map[v])
  /\ NextInstr

\* alloc_registers has returned.
Finished == phase = "done" /\ UNCHANGED vars

Allocate == EnterBlock \/ ScanUses \/ ReleaseAtSink \/ TakeOver \/ TakeFree
              \/ SpillSelf \/ SpillVictim

Next == Allocate \/ Finished

Spec == Init /\ [][Next]_vars

-----------------------------------------------------------------------------

(***************************************************************************)
(* Types: the walk stays inside the function, a live range ends inside it, *)
(* and only registers are in the pool (nullreg never gets there).          *)
(***************************************************************************)
TypeOK ==
  /\ WellFormed(fn)
  /\ phase \in {"enter", "scan", "alloc", "done"}
  /\ first \in 1 .. Len(fn) + 1
  /\ pc \in 1 .. Len(fn) + 1
  /\ DOMAIN live_range \subseteq DOMAIN fn
  /\ \A v \in DOMAIN live_range : live_range[v] \in DOMAIN fn
  /\ reg_map \in [DOMAIN fn -> Regs \cup {nullreg, none}]
  /\ available \subseteq Regs

(***************************************************************************)
(* A register holds one value at a time.  If v is computed into the        *)
(* register of an earlier u of its block, then u has no use after v, and   *)
(* v itself may use u only as the first operand of an arithmetic           *)
(* instruction: the emitted code moves the first operand into the result   *)
(* register before it reads the second one (backend.cpp:444-490), so       *)
(* any other overlap would overwrite u before its use.                     *)
(***************************************************************************)
UsedLater(u, v) == \E j \in DOMAIN fn : j > v /\ u \in Operands(j)

NoClobber ==
  \A u, v \in DOMAIN fn :
    (u < v /\ fn[u].bb = fn[v].bb /\ reg_map[u] \in Regs /\ reg_map[u] = reg_map[v])
      => /\ ~UsedLater(u, v)
         /\ u \in Operands(v) => fn[v].op \in ArithOps /\ fn[v].args[1] = u

(***************************************************************************)
(* The pool is exact at every step: a register is out of the pool if and   *)
(* only if it holds a value of this block that is still to be used.  A     *)
(* register freed too early shows up as one direction, a leaked register   *)
(* (never given back, so that later values spill for nothing) as the other.*)
(***************************************************************************)
LiveHolders(r) ==
  {u \in BlockOf(first) : u < pc /\ reg_map[u] = r /\ live_range[u] >= pc}

PoolExact == phase = "alloc" =>
  \A r \in Regs : r \in available <=> LiveHolders(r) = {}

(***************************************************************************)
(* Spilling evicts the value that is needed latest: of the new value and   *)
(* all values held in registers and still needed, the one that ends up in  *)
(* memory has the latest last use ("spill the later last use",             *)
(* src/src/backend.cpp:142).                                               *)
(***************************************************************************)
SpillsLatestStep ==
  \A v \in DOMAIN fn : (reg_map'[v] = nullreg /\ reg_map[v] # nullreg) =>
    \A u \in BlockOf(first) :
      (u <= pc /\ live_range[u] >= pc /\ (u = pc \/ InRegister(u)))
        => live_range[u] <= live_range[v]

SpillsLatest == [][SpillsLatestStep]_vars

(***************************************************************************)
(* find_spill always finds a victim when the pool is empty: the branch     *)
(* that gives up with nullreg (backend.cpp:148-150) is never taken.        *)
(***************************************************************************)
VictimExists == Spilling => \E v \in Victims(pc) : v < pc

=============================================================================
