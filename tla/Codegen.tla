------------------------------- MODULE Codegen -------------------------------
(***************************************************************************)
(* The x86 backend as a whole (backend.cpp): registers are allocated       *)
(* (RegAlloc), createBBLabels and getOffsetMap lay out labels and frame,   *)
(* and generate_code translates one instruction at a time.  The emitted    *)
(* code runs on a model of the machine; every step of the run executes the *)
(* whole sequence emitted for one instruction.                             *)
(*                                                                         *)
(* Values are the terms of IRExec.  Addresses are relative to the caller's *)
(* stack pointer, which the ABI aligns to 16 bytes: the return address is  *)
(* at -4 and the parameter at 0.                                           *)
(***************************************************************************)
EXTENDS RegAlloc, FiniteSets, SequencesExt

CONSTANT AllocaSeq   \* the allocas, in the order the function declares them

VARIABLES
  offset_map,  \* spilled value -> offset from ebp
  localMem,    \* bytes reserved below ebp
  cpu,         \* the machine
  ip,          \* the instruction whose code runs next; 0 when returned
  val, facts   \* history: what IRExec computes and branches on

cgvars == <<offset_map, localMem, cpu, ip, val, facts>>
allvars == <<vars, cgvars>>

Allocas == ToSet(AllocaSeq)

ASSUME AllocasAssumption == AllocaSeq \in Seq(Syms) /\ IsInjective(AllocaSeq)
ASSUME CodeAssumption ==
  \A f \in Functions :
    /\ Translatable(f)
    /\ \A i \in DOMAIN f : f[i].op \in {"load", "store"} => f[i].sym \in Allocas
ASSUME MachineRegisters == Regs \subseteq {"ebx", "ecx", "edx"}

-----------------------------------------------------------------------------
(***************************************************************************)
(* The machine: a record of the registers, ebp, esp, the stack, the        *)
(* operands of the last cmp, the label jumped to, the calls made, and      *)
(* whether every call so far found the stack aligned.                      *)
(***************************************************************************)

junk == <<"junk", 0>>
oldEbx == <<"saved", "ebx">>
oldEbp == <<"address", 400>>
retAddr == <<"return", 0>>
param == <<"param", 0>>

\* The flags of no comparison.
unknown == <<junk, junk>>

Reg(r) == <<"reg", r>>
Imm(k) == <<"imm", k>>
Mem(offset) == <<"mem", offset>>

Peek(m, a) == IF a \in DOMAIN m.stack THEN m.stack[a] ELSE junk
Poke(m, a, v) ==
  [m EXCEPT !.stack = [b \in {a} \cup DOMAIN @ |-> IF b = a THEN v ELSE @[b]]]

Get(m, o) ==
  CASE o[1] = "reg" -> m.reg[o[2]]
    [] o[1] = "imm" -> <<"const", o[2]>>
    [] o[1] = "ebp" -> m.ebp
    [] o[1] = "mem" -> Peek(m, m.ebp[2] + o[2])

Put(m, o, v) ==
  IF o[1] = "reg" THEN [m EXCEPT !.reg[o[2]] = v] ELSE Poke(m, m.ebp[2] + o[2], v)

Apply(sym, a, b) == IF a = junk \/ b = junk THEN junk ELSE <<"arith", sym, a, b>>

Input(events) ==
  <<"in", Len(SelectSeq(events, LAMBDA e : e[1] = "read")) + 1>>

\* read and print follow the C calling convention: ebx and ebp survive a call,
\* eax, ecx, edx, the flags, the argument and what is below it do not.
CallExternal(m, f) ==
  [m EXCEPT
     !.aligned = @ /\ m.esp % 16 = 0,
     !.out = Append(@, IF f = "read" THEN <<"read", junk>> ELSE <<"print", Peek(m, m.esp)>>),
     !.reg = [@ EXCEPT !["eax"] = IF f = "read" THEN Input(m.out) ELSE junk,
                       !["ecx"] = junk, !["edx"] = junk],
     !.stack = [a \in {b \in DOMAIN @ : b > m.esp \/ (f = "read" /\ b = m.esp)} |-> @[a]],
     !.flags = unknown]

PushOn(m, v) == [Poke(m, m.esp - 4, v) EXCEPT !.esp = m.esp - 4]

next == <<"next", 0>>
Label(k) == <<"label", k>>

\* The conditional jumps: which comparison makes each of them jump.
Tests == [je |-> "eq", jne |-> "ne", jl |-> "slt", jle |-> "sle", jg |-> "sgt", jge |-> "sge"]

(***************************************************************************)
(* Whether a conditional jump is taken.  decided is a comparison and how   *)
(* it comes out; any other comparison comes out the other way, so that a   *)
(* jump on wrong flags goes wrong.                                         *)
(***************************************************************************)
Jumps(m, jcc, decided) ==
  (<<"icmp", Tests[jcc], m.flags[1], m.flags[2]>> = decided[1]) <=> decided[2]

\* One machine instruction.  Code after a jump taken is not executed.
Exec(m, c, decided) ==
  IF m.goto # next THEN m ELSE
  CASE c.op = "mov"   -> Put(m, c.dst, Get(m, c.src))
    [] c.op = "arith" -> [Put(m, c.dst, Apply(c.sym, Get(m, c.dst), Get(m, c.src)))
                            EXCEPT !.flags = unknown]
    [] c.op = "cmp"   -> [m EXCEPT !.flags = <<Get(m, c.dst), Get(m, c.src)>>]
    [] c.op = "push"  -> PushOn(m, Get(m, c.src))
    [] c.op = "pop"   -> [Put(m, c.dst, Peek(m, m.esp)) EXCEPT !.esp = m.esp + 4]
    [] c.op = "esp"   -> [m EXCEPT !.esp = @ + c.src[2], !.flags = unknown]
    [] c.op = "frame" -> [m EXCEPT !.ebp = <<"address", m.esp>>]
    [] c.op = "leave" -> [m EXCEPT !.esp = m.ebp[2] + 4, !.ebp = Peek(m, m.ebp[2])]
    [] c.op = "call"  -> CallExternal(m, c.sym)
    [] c.op = "jmp"   -> [m EXCEPT !.goto = c.src]
    [] c.op = "jcc"   -> IF Jumps(m, c.sym, decided) THEN [m EXCEPT !.goto = c.src] ELSE m
    [] c.op = "ret"   -> [m EXCEPT !.goto = Peek(m, m.esp), !.esp = @ + 4]

Run(m, code, decided) ==
  LET after[k \in 0 .. Len(code)] ==
        IF k = 0 THEN m ELSE Exec(after[k - 1], code[k], decided)
  IN  after[Len(code)]

\* The function is about to be entered.
Entered ==
  [reg |-> [r \in {"eax", "ebx", "ecx", "edx"} |-> IF r = "ebx" THEN oldEbx ELSE junk],
   ebp |-> oldEbp, esp |-> -4,
   stack |-> [a \in {-4, 0} |-> IF a = 0 THEN param ELSE retAddr],
   flags |-> unknown, goto |-> next, out |-> <<>>, aligned |-> TRUE]

-----------------------------------------------------------------------------
(***************************************************************************)
(* The frame: getOffsetMap and createBBLabels.                             *)
(***************************************************************************)

ParamOffset == 8

AllocaOffset(x) == -(4 + 4 * (CHOOSE k \in DOMAIN AllocaSeq : AllocaSeq[k] = x))

\* The spilled values that need a slot: a comparison only sets flags.
Slotted == {i \in DOMAIN fn : reg_map[i] = nullreg /\ fn[i].op # "icmp"}

\* Faulty variant: one slot for all spilled values.
SharedSlot(i) == -(8 + 4 * Len(AllocaSeq))

\* Every slot is four bytes below the one before.
SlotOffset(i) ==
  -(4 + 4 * Len(AllocaSeq) + 4 * Cardinality({j \in Slotted : j <= i}))

FrameSize == 4 + 4 * Len(AllocaSeq) + 4 * Cardinality(Slotted)

\* Blocks are labelled in layout order.
LabelOf(bb) == Label(Cardinality({fn[i].bb : i \in {j \in DOMAIN fn : fn[j].bb < bb}}))

-----------------------------------------------------------------------------
(***************************************************************************)
(* generate_code: the code emitted for instruction i.                      *)
(***************************************************************************)

C(op, src, dst) == [op |-> op, src |-> src, dst |-> dst, sym |-> ""]
On(op, sym, src) == [op |-> op, src |-> src, dst |-> src, sym |-> sym]
Mov(src, dst) == C("mov", src, dst)
eax == Reg("eax")
ebp == <<"ebp", 0>>

\* Where generate_code finds an operand: constant, parameter (which is only ever
\* stored), register, slot.
Place(v) ==
  IF v < 0 THEN Imm(v)
  ELSE IF v = 0 THEN Mem(ParamOffset)
  ELSE IF reg_map[v] = nullreg THEN Mem(offset_map[v]) ELSE Reg(reg_map[v])

ArgPlace(i, k) == Place(fn[i].args[k])

Prologue == <<C("push", ebp, eax), C("frame", eax, eax),
              C("esp", Imm(-localMem), eax), C("push", Reg("ebx"), eax)>>

\* Faulty variant: ebx is left where the prologue put it.
EpilogueKeepingEbx == <<C("leave", eax, eax), C("ret", eax, eax)>>

\* Faulty variant: the frame is not left.
EpilogueInFrame == <<C("pop", eax, Reg("ebx")), C("ret", eax, eax)>>

Epilogue == <<C("pop", eax, Reg("ebx")), C("leave", eax, eax), C("ret", eax, eax)>>

RetCode(i) ==
  (IF fn[i].args = <<>> THEN <<>> ELSE <<Mov(ArgPlace(i, 1), eax)>>) \o Epilogue

\* A move from memory to memory goes through eax.
Transfer(src, dst) ==
  IF src[1] = "mem" /\ dst[1] = "mem" THEN <<Mov(src, eax), Mov(eax, dst)>>
                                      ELSE <<Mov(src, dst)>>

LoadCode(i) == Transfer(Mem(AllocaOffset(fn[i].sym)), Place(i))

StoreCode(i) == Transfer(ArgPlace(i, 1), Mem(AllocaOffset(fn[i].sym)))

\* Return address and saved ebp, ebx, ecx, edx.
savedMem == 20

\* Faulty variant: the argument is forgotten.
ArglessPadding(argMem) == (16 - ((localMem + savedMem) % 16)) % 16

Padding(argMem) == (16 - ((localMem + savedMem + argMem) % 16)) % 16

SaveRegisters == <<C("push", Reg("ecx"), eax), C("push", Reg("edx"), eax)>>

\* Faulty variant: restored in the order of saving.
RestoreInOrder == <<C("pop", eax, Reg("ecx")), C("pop", eax, Reg("edx"))>>

RestoreRegisters == <<C("pop", eax, Reg("edx")), C("pop", eax, Reg("ecx"))>>

CallCode(i) ==
  LET argMem == 4 * Len(fn[i].args) IN
    SaveRegisters
      \o <<C("esp", Imm(-Padding(argMem)), eax)>>
      \o (IF argMem = 0 THEN <<>> ELSE <<C("push", ArgPlace(i, 1), eax)>>)
      \o <<On("call", fn[i].op, eax), C("esp", Imm(argMem + Padding(argMem)), eax)>>
      \o RestoreRegisters
      \o (IF fn[i].op = "read" THEN <<Mov(eax, Place(i))>> ELSE <<>>)

BrCode(i) == <<C("jmp", LabelOf(fn[i].succ[1]), eax)>>

ConstBrCode(i) == <<C("jmp", LabelOf(fn[i].succ[IF fn[i].sym = "true" THEN 1 ELSE 2]), eax)>>

\* Faulty variant: a strict comparison jumps on equality too.
JccOfLax == [eq |-> "je", ne |-> "jne", slt |-> "jle", sle |-> "jle", sgt |-> "jg", sge |-> "jge"]

JccOf == [eq |-> "je", ne |-> "jne", slt |-> "jl", sle |-> "jle", sgt |-> "jg", sge |-> "jge"]

CondBrCode(i) ==
  <<On("jcc", JccOf[fn[fn[i].args[1]].sym], LabelOf(fn[i].succ[1])),
    C("jmp", LabelOf(fn[i].succ[2]), eax)>>

\* The register an instruction works in: its own, or eax when it is spilled.
WorksIn(i) == IF reg_map[i] = nullreg THEN eax ELSE Reg(reg_map[i])

\* The first operand is moved there unless it is there already.
FirstOperand(i) ==
  IF ArgPlace(i, 1) = WorksIn(i) THEN <<>> ELSE <<Mov(ArgPlace(i, 1), WorksIn(i))>>

ArithCode(i) ==
  FirstOperand(i)
    \o <<[C("arith", ArgPlace(i, 2), WorksIn(i)) EXCEPT !.sym = fn[i].sym]>>
    \o (IF reg_map[i] = nullreg THEN <<Mov(eax, Place(i))>> ELSE <<>>)

ICmpCode(i) == FirstOperand(i) \o <<C("cmp", ArgPlace(i, 2), WorksIn(i))>>

CodeOf(i) ==
  CASE fn[i].op = "ret"     -> RetCode(i)
    [] fn[i].op = "load"    -> LoadCode(i)
    [] fn[i].op = "store"   -> StoreCode(i)
    [] fn[i].op \in {"read", "print"} -> CallCode(i)
    [] fn[i].op = "br"      -> BrCode(i)
    [] fn[i].op = "constbr" -> ConstBrCode(i)
    [] fn[i].op = "condbr"  -> CondBrCode(i)
    [] fn[i].op = "arith"   -> ArithCode(i)
    [] fn[i].op = "icmp"    -> ICmpCode(i)

-----------------------------------------------------------------------------
(***************************************************************************)
(* Compiling and running.                                                  *)
(***************************************************************************)

notStarted == -1

\* The instructions of IRExec, seen through the machine's state.
Slots == [x \in Allocas |-> Peek(cpu, -8 + AllocaOffset(x))]

IR == INSTANCE IRExec WITH
        ip  <- IF ip = notStarted THEN 1 ELSE ip,
        mem <- Slots,
        out <- cpu.out,
        ret <- IF ip = 0 THEN cpu.reg["eax"] ELSE junk

CGInit ==
  /\ Init
  /\ offset_map = [i \in {} |-> 0]
  /\ localMem = 0
  /\ cpu = Entered
  /\ ip = notStarted
  /\ val = [i \in DOMAIN fn |-> junk]
  /\ facts = {}

AllocateRegisters == Allocate /\ UNCHANGED cgvars

GetOffsetMap ==
  /\ phase = "done" /\ localMem = 0
  /\ offset_map' = [i \in Slotted |-> SlotOffset(i)]
  /\ localMem' = FrameSize
  /\ UNCHANGED <<vars, cpu, ip, val, facts>>

RunPrologue ==
  /\ localMem > 0 /\ ip = notStarted
  /\ cpu' = Run(cpu, Prologue, <<junk, TRUE>>)
  /\ ip' = 1
  /\ UNCHANGED <<vars, offset_map, localMem, val, facts>>

\* Execution falls through, or continues at the label or return address.
Runs(decided) ==
  LET m == Run(cpu, CodeOf(ip), decided) IN
    /\ cpu' = [m EXCEPT !.goto = next]
    /\ ip' = CASE m.goto = next -> ip + 1
               [] m.goto[1] = "label" ->
                    CHOOSE i \in DOMAIN fn : /\ LabelOf(fn[i].bb) = m.goto
                                             /\ \A j \in 1 .. i - 1 : fn[j].bb # fn[i].bb
               [] m.goto = retAddr -> 0
               [] OTHER -> Len(fn) + 1
    /\ UNCHANGED <<vars, offset_map, localMem>>

At(ops) == ip \in DOMAIN fn /\ fn[ip].op \in ops

RunValue ==
  /\ At(ValueOps)
  /\ Runs(<<junk, TRUE>>)
  /\ val' = [val EXCEPT ![ip] = IR!Result(ip)]
  /\ UNCHANGED facts

RunEffect ==
  /\ At({"store", "print", "br", "constbr", "ret"})
  /\ Runs(<<junk, TRUE>>)
  /\ UNCHANGED <<val, facts>>

RunCondBr ==
  /\ At({"condbr"})
  /\ \E b \in BOOLEAN :
       /\ <<IR!Arg(ip, 1), ~b>> \notin facts
       /\ Runs(<<IR!Arg(ip, 1), b>>)
       /\ facts' = facts \cup IR!Found(IR!Arg(ip, 1), b)
  /\ UNCHANGED val

Returned == ip = 0 /\ UNCHANGED allvars

CGNext == AllocateRegisters \/ GetOffsetMap \/ RunPrologue \/ RunValue \/ RunEffect
            \/ RunCondBr \/ Returned

CGSpec == CGInit /\ [][CGNext]_allvars

-----------------------------------------------------------------------------

(***************************************************************************)
(* Types: the code returns to a label or to the caller, nowhere else.      *)
(***************************************************************************)
CGTypeOK ==
  /\ TypeOK
  /\ DOMAIN offset_map \subseteq DOMAIN fn
  /\ localMem \in Nat
  /\ ip \in {notStarted} \cup 0 .. Len(fn)
  /\ DOMAIN cpu.reg = {"eax", "ebx", "ecx", "edx"}

(***************************************************************************)
(* At every instruction, each value of the block that is still to be used  *)
(* is where the rest of the code will look for it: in its register, in its *)
(* stack slot, or, for a comparison, in the flags.  This is what register  *)
(* assignment, retroactive spilling, slot layout and the caller-saved      *)
(* pushes around calls (backend.cpp:341-386) must achieve together.        *)
(***************************************************************************)
StillNeeded(u) == u < ip /\ fn[u].bb = fn[ip].bb /\ UsedLater(u, ip - 1)

ValuesInPlace ==
  ip \in DOMAIN fn => \A u \in DOMAIN fn : StillNeeded(u) =>
    IF fn[u].op = "icmp" THEN cpu.flags = <<IR!Arg(u, 1), IR!Arg(u, 2)>>
                         ELSE Get(cpu, Place(u)) = val[u]

(***************************************************************************)
(* Every call finds the stack 16-byte aligned, which the tests' runtime    *)
(* asserts (src/tests/backend/runtime.c:9 and :16).                        *)
(***************************************************************************)
CallsAligned == cpu.aligned

(***************************************************************************)
(* The function returns to its caller with esp, ebp and the callee-saved   *)
(* ebx restored, whatever was pushed and spilled in between.               *)
(***************************************************************************)
CalleeSaved ==
  ip = 0 => cpu.esp = 0 /\ cpu.ebp = oldEbp /\ cpu.reg["ebx"] = oldEbx

(***************************************************************************)
(* The emitted code implements the function: the same calls with the same  *)
(* arguments in the same order, the same stores to variables, the same way *)
(* at every branch and the same return value.                              *)
(***************************************************************************)
ImplementsIR == IR!Spec

=============================================================================
