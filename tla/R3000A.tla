------------------------------- MODULE R3000A -------------------------------
(***************************************************************************)
(* The processor (r3000a.cpp).  A step is one call of cycle(): fetch the   *)
(* instruction at pc, advance pc and next_pc, commit the pending load,     *)
(* dispatch to a handler, copy gpr_delay over gpr.  main() calls cycle()   *)
(* for ever; exit() inside a handler ends the process.                     *)
(*                                                                         *)
(* Handlers write registers into gpr_delay and read them from gpr, so that *)
(* the instruction after a load still sees the old value; next_pc runs one *)
(* instruction ahead of pc, so that the instruction after a branch is      *)
(* executed first.  MipsPipeline says what these devices are for.          *)
(***************************************************************************)
EXTENDS Cop0

CONSTANTS
  ResetPC,    \* 0xbfc00000
  HiReset,    \* 0xcafebabe
  LoReset,    \* 0xcaf3bab3
  Fetch(_),   \* the instructions a fetch at an address may return; none
              \* where nothing is mapped and the read ends the process
  MemData     \* the words a data read may return

VARIABLES
  gpr,         \* the registers that handlers read
  gpr_delay,   \* the registers that handlers write
  hi, lo,      \* multiplication and division results
  pc, next_pc, \* addresses of this instruction and of the one after it
  load_delay,  \* the value of the pending load
  delay_reg,   \* and its register, 0 when no load is pending
  is_branch,   \* the instruction just executed was a jump or taken branch
  delay_slot,  \* is_branch, one instruction later
  bus,         \* the data access of the instruction just executed
  running      \* FALSE once the process has ended

regs == << gpr, gpr_delay, hi, lo, load_delay, delay_reg >>
flow == << pc, next_pc, is_branch, delay_slot >>
vars == << regs, flow, cop, bus, running >>

Access == [op : {"idle", "read", "write"}, size : {0, 1, 2, 4}, addr : Word, val : Word]
Idle   == [op |-> "idle", size |-> 0, addr |-> 0, val |-> 0]

ASSUME R3000Assumption ==
  /\ ResetPC \in Word /\ ResetPC % 4 = 0
  /\ HiReset \in Word /\ LoReset \in Word
  /\ MemData \subseteq Word /\ MemData # {}
  /\ \A a \in Word : Fetch(a) \subseteq Instruction

(* lwl and lwr merge into a uint32_t.                                      *)
ASSUME MergeAssumption ==
  \A h \in MergeLoads, r \in Word, m \in MemData, k \in 0 .. 3 : Merge(h, r, m, k) \in Word

(* r3000a::r3000a and reset.                                               *)
Init ==
  /\ gpr = [r \in Reg |-> 0] /\ gpr_delay = [r \in Reg |-> 0]
  /\ hi = HiReset /\ lo = LoReset
  /\ pc = ResetPC /\ next_pc = ToWord(ResetPC + 4)
  /\ load_delay = 0 /\ delay_reg = 0
  /\ is_branch = FALSE /\ delay_slot = FALSE
  /\ Cop0Init
  /\ bus = Idle
  /\ running = TRUE

-----------------------------------------------------------------------------
(* The parts of cycle() around the handler.                                *)

(* gpr[r] as a handler sees it: the write_gpr at the head of the cycle has *)
(* just cleared gpr[0].                                                    *)
Read(r) == IF r = 0 THEN 0 ELSE gpr[r]

(* Mutant of Committed: the pending load never arrives.                    *)
CommittedNever == gpr_delay

(* gpr_delay once the pending load has been written to it.                 *)
Committed == [gpr_delay EXCEPT ![delay_reg] = load_delay]

(* What the closing memcpy leaves when the handler calls write_gpr(r, v),  *)
(* and when it writes no register.                                         *)
WriteBack(r, v) ==
  /\ gpr_delay' = [Committed EXCEPT ![r] = v]
  /\ gpr' = gpr_delay'

NoWriteBack ==
  /\ gpr_delay' = Committed
  /\ gpr' = gpr_delay'

(* Mutant of Pend: value and register number exchanged.                    *)
PendSwapped(r, v) == delay_reg' = v /\ load_delay' = r

Pend(r, v) == delay_reg' = r /\ load_delay' = v
NoLoad     == delay_reg' = 0 /\ load_delay' = 0

Enter == delay_slot' = is_branch

Sequential ==
  Enter /\ pc' = next_pc /\ next_pc' = ToWord(next_pc + 4) /\ is_branch' = FALSE

(* Mutants of BranchTo: is_branch is not set; the delay slot is skipped.   *)
BranchToUnmarked(target) ==
  Enter /\ pc' = next_pc /\ next_pc' = target /\ is_branch' = FALSE

BranchToAtOnce(target) ==
  Enter /\ pc' = target /\ next_pc' = ToWord(target + 4) /\ is_branch' = FALSE

BranchTo(target) ==
  Enter /\ pc' = next_pc /\ next_pc' = target /\ is_branch' = TRUE

NoBus          == bus' = Idle
ReadBus(n, a, v)  == bus' = [op |-> "read",  size |-> n, addr |-> a, val |-> v]
WriteBus(n, a, v) == bus' = [op |-> "write", size |-> n, addr |-> a, val |-> v]

(* The process ends inside the cycle; nothing reads its state afterwards.  *)
Exit == running' = FALSE /\ UNCHANGED << regs, flow, cop, bus >>

-----------------------------------------------------------------------------
(* The handlers, by family.  i is the fetched instruction.                 *)

Compute(r, v) ==
  WriteBack(r, v) /\ NoLoad /\ Sequential /\ NoBus /\ UNCHANGED << hi, lo, cop, running >>

op_alu_register(i) ==
  /\ Handler(i) \in AluRegister
  /\ Compute(i.rd, Alu(Handler(i), Read(i.rs), Read(i.rt)))

op_alu_shift(i) ==
  /\ Handler(i) \in AluShift
  /\ Compute(i.rd, Alu(Handler(i), Read(i.rt), i.shamt))

op_alu_immediate(i) ==
  /\ Handler(i) \in AluImmediate
  /\ Compute(i.rt, Alu(Handler(i), Read(i.rs), i.imm))

op_mfhi(i) == Handler(i) = "op_mfhi" /\ Compute(i.rd, hi)
op_mflo(i) == Handler(i) = "op_mflo" /\ Compute(i.rd, lo)

(* The handlers that write hi and lo.                                      *)
SetHiLo(h, l) ==
  /\ hi' = h /\ lo' = l
  /\ NoWriteBack /\ NoLoad /\ Sequential /\ NoBus /\ UNCHANGED << cop, running >>

op_mult_div(i) ==
  /\ Handler(i) \in MultiplyDivide
  /\ LET result == MulDiv(Handler(i), Read(i.rs), Read(i.rt))
     IN  SetHiLo(result[1], result[2])

op_mthi(i) == Handler(i) = "op_mthi" /\ SetHiLo(Read(i.rs), lo)
op_mtlo(i) == Handler(i) = "op_mtlo" /\ SetHiLo(hi, Read(i.rs))

(* trigger_exception, called from a handler: pc already holds next_pc.     *)
Trap(ex) ==
  /\ trigger_exception(ex, next_pc)
  /\ pc' = Vector(cop'[SR]) /\ next_pc' = ToWord(pc' + 4) /\ is_branch' = FALSE
  /\ Enter /\ NoWriteBack /\ NoLoad /\ NoBus
  /\ UNCHANGED << hi, lo, running >>

Overflows(a, b) == overflow(a, b, ToWord(a + b))

(* add takes the trap and goes on; addi takes it and ends the process.     *)
op_add(i) ==
  /\ Handler(i) = "op_add"
  /\ LET a == Read(i.rs)  b == Read(i.rt)
     IN  IF Overflows(a, b) THEN Trap(ARITHMETIC_OVERFLOW) ELSE Compute(i.rd, ToWord(a + b))

op_addi(i) ==
  /\ Handler(i) = "op_addi"
  /\ LET a == Read(i.rs)  b == ToWord(SignedHalf(i.imm))
     IN  IF Overflows(a, b) THEN Exit ELSE Compute(i.rt, ToWord(a + b))

op_syscall(i)  == Handler(i) = "op_syscall" /\ Trap(SYSCALL)
op_break(i)    == Handler(i) = "op_break"   /\ Trap(BREAKPOINT)
op_unusable(i) == Handler(i) \in Unusable   /\ Trap(COPROCESSOR_UNUSUABLE)
op_fatal(i)    == Handler(i) \in Fatal      /\ Exit

-----------------------------------------------------------------------------
(* Jumps and branches.                                                     *)

Quiet == NoLoad /\ NoBus /\ UNCHANGED << hi, lo, cop, running >>

op_branch(i) ==
  /\ Handler(i) \in Branches
  /\ IF Links(i) THEN WriteBack(31, ToWord(next_pc + 4)) ELSE NoWriteBack
  /\ IF Taken(i, Read(i.rs), Read(i.rt)) THEN BranchTo(BranchTarget(next_pc, i.imm))
                                         ELSE Sequential
  /\ Quiet

op_j(i) ==
  /\ Handler(i) = "op_j"
  /\ NoWriteBack /\ BranchTo(JumpTarget(next_pc, i.target)) /\ Quiet

op_jal(i) ==
  /\ Handler(i) = "op_jal"
  /\ WriteBack(31, ToWord(next_pc + 4)) /\ BranchTo(JumpTarget(next_pc, i.target)) /\ Quiet

op_jr(i) ==
  /\ Handler(i) = "op_jr"
  /\ NoWriteBack /\ BranchTo(Read(i.rs)) /\ Quiet

(* jalr links register 31 whatever its rd field says.                      *)
op_jalr(i) ==
  /\ Handler(i) = "op_jalr"
  /\ WriteBack(31, ToWord(next_pc + 4)) /\ BranchTo(Read(i.rs)) /\ Quiet

-----------------------------------------------------------------------------
(* Loads and stores.  Every handler but swl and swr returns at once while  *)
(* the cache is isolated.                                                  *)

Address(i)    == VAddr(Read(i.rs), i.imm)
WordOf(vaddr) == vaddr - (vaddr % 4)
Open(i)       == ~Isolated /\ Accessible(Address(i), Size(Handler(i)))

Rest == Sequential /\ UNCHANGED << hi, lo, cop, running >>

op_isolated(i) ==
  /\ Handler(i) \in MemoryOps \ MergeStores /\ Isolated
  /\ NoWriteBack /\ NoLoad /\ NoBus /\ Rest

op_load(i) ==
  /\ Handler(i) \in DelayedLoads /\ Open(i)
  /\ \E v \in MemData :
       /\ ReadBus(Size(Handler(i)), Physical(Address(i)), v)
       /\ Pend(i.rt, Extend(Handler(i), v))
  /\ NoWriteBack /\ Rest

(* lbu does not use the delay register.                                    *)
op_lbu(i) ==
  /\ Handler(i) = "op_lbu" /\ Open(i)
  /\ \E v \in MemData :
       /\ ReadBus(1, Physical(Address(i)), v)
       /\ WriteBack(i.rt, Extend("op_lbu", v))
  /\ NoLoad /\ Rest

(* lwl and lwr merge into gpr_delay, where a load just completed is seen.  *)
op_merge_load(i) ==
  /\ Handler(i) \in MergeLoads /\ ~Isolated
  /\ \E v \in MemData :
       /\ ReadBus(4, Physical(WordOf(Address(i))), v)
       /\ WriteBack(i.rt, Merge(Handler(i), Committed[i.rt], v, Address(i) % 4))
  /\ NoLoad /\ Rest

op_store(i) ==
  /\ Handler(i) \in Stores /\ Open(i)
  /\ WriteBus(Size(Handler(i)), Physical(Address(i)), Truncate(Handler(i), Read(i.rt)))
  /\ NoWriteBack /\ NoLoad /\ Rest

(* swl and swr read the word, merge, and drop the result.                  *)
op_merge_store(i) ==
  /\ Handler(i) \in MergeStores
  /\ \E v \in MemData : ReadBus(4, Physical(WordOf(Address(i))), v)
  /\ NoWriteBack /\ NoLoad /\ Rest

-----------------------------------------------------------------------------
(* op_cop0: bit 25, the top bit of rs, selects the coprocessor operations, *)
(* of which rfe alone does anything.                                       *)

Cop0Op(i) == Handler(i) = "op_cop0"
IsRfe(i)  == /\ i.rs = 16 /\ i.rt = 0 /\ i.rd = 0 /\ i.shamt = 0 /\ i.funct = 16

op_mfc0(i) ==
  /\ Cop0Op(i) /\ i.rs = 0
  /\ Pend(i.rt, cop[i.rd])
  /\ NoWriteBack /\ NoBus /\ Rest

op_mtc0(i) ==
  /\ Cop0Op(i) /\ i.rs = 4
  /\ write_gpr(i.rd, Read(i.rt))
  /\ NoWriteBack /\ NoLoad /\ NoBus /\ Sequential /\ UNCHANGED << hi, lo, running >>

op_rfe(i) ==
  /\ Cop0Op(i) /\ IsRfe(i)
  /\ rfe
  /\ NoWriteBack /\ NoLoad /\ NoBus /\ Sequential /\ UNCHANGED << hi, lo, running >>

op_cop0_nothing(i) ==
  /\ Cop0Op(i) /\ i.rs \notin {0, 4} /\ ~IsRfe(i)
  /\ NoWriteBack /\ NoLoad /\ NoBus /\ Rest

-----------------------------------------------------------------------------
(* The ways a cycle can end the process besides op_addi and op_fatal: an   *)
(* unaligned data access; the bus giving up on the address; the name table *)
(* that mfc0 and mtc0 log from, which has 30 entries for 32 numbers; and a *)
(* fetch that is unaligned or that the bus cannot answer.                  *)
AccessFault(i) ==
  /\ Handler(i) \in MemoryOps \ (MergeLoads \cup MergeStores) /\ ~Isolated
  /\ ~Accessible(Address(i), Size(Handler(i)))
  /\ Exit

BusFault(i) ==
  /\ Handler(i) \in MergeStores \/ (Handler(i) \in MemoryOps /\ ~Isolated)
  /\ Exit

NameFault(i) == Cop0Op(i) /\ i.rs \in {0, 4} /\ i.rd >= 30 /\ Exit

FetchFault == (~align_check(pc) \/ Fetch(pc) = {}) /\ Exit

Execute(i) ==
  \/ op_alu_register(i) \/ op_alu_shift(i) \/ op_alu_immediate(i)
  \/ op_mfhi(i) \/ op_mflo(i) \/ op_mult_div(i) \/ op_mthi(i) \/ op_mtlo(i)
  \/ op_add(i) \/ op_addi(i)
  \/ op_syscall(i) \/ op_break(i) \/ op_unusable(i) \/ op_fatal(i)
  \/ op_branch(i) \/ op_j(i) \/ op_jal(i) \/ op_jr(i) \/ op_jalr(i)
  \/ op_isolated(i) \/ op_load(i) \/ op_lbu(i) \/ op_merge_load(i)
  \/ op_store(i) \/ op_merge_store(i)
  \/ op_mfc0(i) \/ op_mtc0(i) \/ op_rfe(i) \/ op_cop0_nothing(i)
  \/ AccessFault(i) \/ BusFault(i) \/ NameFault(i)

cycle ==
  /\ running
  /\ \/ FetchFault
     \/ align_check(pc) /\ \E i \in Fetch(pc) : Execute(i)

Ended == ~running /\ UNCHANGED vars

Next == cycle \/ Ended

(* main() does nothing but call cycle() again.                             *)
Spec == Init /\ [][Next]_vars /\ WF_vars(cycle)

-----------------------------------------------------------------------------
(* Types.  The access record of the last instruction never leaves its      *)
(* domain, register 0 may hold anything between two cycles.                *)
TypeOK ==
  /\ gpr \in [Reg -> Word] /\ gpr_delay \in [Reg -> Word]
  /\ hi \in Word /\ lo \in Word
  /\ pc \in Word /\ next_pc \in Word
  /\ load_delay \in Word /\ delay_reg \in Reg
  /\ is_branch \in BOOLEAN /\ delay_slot \in BOOLEAN
  /\ cop \in [Reg -> Word]
  /\ bus \in Access
  /\ running \in BOOLEAN

(* Between two cycles the two register arrays agree (the memcpy that ends  *)
(* cycle), and next_pc is more than one instruction ahead of pc only while *)
(* a jump waits for its delay slot: every path that moves pc, set_pc too,  *)
(* must move next_pc with it.                                              *)
ArraysAgree          == gpr = gpr_delay
SequentialUnlessJump == ~is_branch => next_pc = ToWord(pc + 4)
PipelineInv          == ArraysAgree /\ SequentialUnlessJump

(* trigger_exception computes EPC from get_pc(), which the cycle has moved *)
(* on already.  Unless the instruction was in a delay slot the result is   *)
(* that instruction's own address, so that a handler returns to it.        *)
EpcNamesFaulting ==
  [][\A ex \in ExceptionType : Trap(ex) /\ ~is_branch => cop'[EPC] = pc]_vars

(* The devices of this module implement the architectural pipeline.        *)
Pipeline == INSTANCE MipsPipeline WITH
  regs <- [gpr EXCEPT ![0] = 0],
  load <- IF delay_reg = 0 THEN [reg |-> 0, val |-> 0]
                           ELSE [reg |-> delay_reg, val |-> load_delay],
  at   <- pc,
  jump <- IF is_branch THEN next_pc ELSE -1

PipelineSafety == Pipeline!Safety
PipelineSpec   == Pipeline!Spec
=============================================================================
