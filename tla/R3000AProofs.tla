---------------------------- MODULE R3000AProofs ----------------------------
(***************************************************************************)
(* Proofs about the processor, for every width, program, memory content    *)
(* and arithmetic unit that the assumptions of Isa, Cop0 and R3000A allow. *)
(***************************************************************************)
EXTENDS R3000A, TLAPS

(* The inductive invariant, one conjunct for each group of variables that  *)
(* the building blocks of R3000A write together.                           *)
RegsOK == gpr \in [Reg -> Word] /\ gpr_delay = gpr
HiLoOK == hi \in Word /\ lo \in Word
LoadOK == load_delay \in Word /\ delay_reg \in Reg
FlowOK == /\ pc \in Word /\ next_pc \in Word
          /\ is_branch \in BOOLEAN /\ delay_slot \in BOOLEAN
          /\ SequentialUnlessJump
CopOK  == cop \in [Reg -> Word]
BusOK  == bus \in Access
RunOK  == running \in BOOLEAN

IInv == RegsOK /\ HiLoOK /\ LoadOK /\ FlowOK /\ CopOK /\ BusOK /\ RunOK

LEMMA IInvMeaning == IInv <=> TypeOK /\ PipelineInv
  BY DEF IInv, RegsOK, HiLoOK, LoadOK, FlowOK, CopOK, BusOK, RunOK,
         TypeOK, PipelineInv, ArraysAgree

-----------------------------------------------------------------------------
(* Words.                                                                  *)

LEMMA ToWordType == ASSUME NEW n \in Int PROVE ToWord(n) \in Word
  BY WidthAssumption DEF ToWord, Word

LEMMA WordFacts ==
  /\ Word \subseteq Int /\ 0 \in Word
  /\ Half \subseteq Word /\ Reg \subseteq Word /\ Half \subseteq Int
  BY WidthAssumption DEF Word, Half, Reg

LEMMA SmallIsWord == ASSUME NEW m \in Nat, m > 0, NEW w \in Word PROVE w % m \in Word
<1>1. w \in Nat /\ w % m <= w
  BY WidthAssumption DEF Word
<1> QED
  BY <1>1, WidthAssumption DEF Word

LEMMA NextAddressType == ASSUME NEW a \in Word PROVE ToWord(a + 4) \in Word
  BY WordFacts, ToWordType

LEMMA SumType == ASSUME NEW a \in Word, NEW b \in Word PROVE ToWord(a + b) \in Word
<1>1. a + b \in Int
  BY WordFacts
<1> QED
  BY <1>1, ToWordType

LEMMA SignedHalfType == ASSUME NEW h \in Int PROVE SignedHalf(h) \in Int
  BY WidthAssumption DEF SignedHalf

LEMMA VAddrType == ASSUME NEW b \in Word, NEW h \in Half PROVE VAddr(b, h) \in Word
<1>1. SignedHalf(h) \in Int
  BY WordFacts, SignedHalfType
<1>2. b + SignedHalf(h) \in Int
  BY <1>1, WordFacts
<1> QED
  BY <1>2, ToWordType DEF VAddr

LEMMA BranchTargetType ==
  ASSUME NEW s \in Word, NEW h \in Half PROVE BranchTarget(s, h) \in Word
<1>1. (h * 4) % HalfSize \in Int
  BY WidthAssumption, WordFacts
<1>2. BranchOffset(h) \in Int
  BY <1>1, SignedHalfType DEF BranchOffset
<1>3. s + BranchOffset(h) \in Int
  BY <1>2, WordFacts
<1> QED
  BY <1>3, ToWordType DEF BranchTarget

LEMMA JumpTargetType ==
  ASSUME NEW s \in Word, NEW t \in Int PROVE JumpTarget(s, t) \in Word
<1>1. s - (s % Region) + t * 4 \in Int
  BY WidthAssumption, WordFacts
<1> QED
  BY <1>1, ToWordType DEF JumpTarget

LEMMA ExtendType == ASSUME NEW h, NEW v \in Word PROVE Extend(h, v) \in Word
<1>1. v % ByteSize \in Word /\ v % HalfSize \in Word
  BY WidthAssumption, SmallIsWord
<1>2. v % HalfSize \in Int
  BY <1>1, WordFacts
<1>3. ToWord(SignedHalf(v % HalfSize)) \in Word
  BY <1>2, SignedHalfType, ToWordType
<1> QED
  BY <1>1, <1>3 DEF Extend

LEMMA TruncateType == ASSUME NEW h, NEW w \in Word PROVE Truncate(h, w) \in Word
<1>1. w % ByteSize \in Word /\ w % HalfSize \in Word
  BY WidthAssumption, SmallIsWord
<1> QED
  BY <1>1 DEF Truncate

LEMMA PhysicalType == ASSUME NEW a \in Word PROVE Physical(a) \in Word
<1>1. WordSize \div 2 \in Nat /\ WordSize \div 2 > 0
  BY WidthAssumption
<1>2. WordSize \div 8 \in Nat /\ WordSize \div 8 > 0
  BY WidthAssumption
<1>3. a % (WordSize \div 2) \in Word
  BY <1>1, SmallIsWord
<1>4. a % (WordSize \div 8) \in Word
  BY <1>2, SmallIsWord
<1> QED
  BY <1>3, <1>4 DEF Physical

LEMMA CellType == ASSUME NEW a \in Word PROVE a - (a % 4) \in Word
<1>1. a \in Nat /\ a % 4 \in 0 .. a
  BY WidthAssumption DEF Word
<1> QED
  BY <1>1, WidthAssumption DEF Word

-----------------------------------------------------------------------------
(* Coprocessor 0.                                                          *)

LEMMA BitType == ASSUME NEW w \in Nat, NEW b \in Nat, b > 0 PROVE Bit(w, b) \in {0, 1}
<1>1. w \div b \in Nat
  BY SMT
<1> QED
  BY <1>1 DEF Bit

LEMMA EnteredStatusType == ASSUME NEW s \in Word PROVE EnteredStatus(s) \in 0 .. 63
<1>1. s \in Nat
  BY WidthAssumption DEF Word
<1>2. /\ Bit(s, 1) \in {0, 1} /\ Bit(s, 2) \in {0, 1} /\ Bit(s, 4) \in {0, 1}
      /\ Bit(s, 8) \in {0, 1} /\ Bit(s, 16) \in {0, 1} /\ Bit(s, 32) \in {0, 1}
  BY <1>1, BitType
<1>3. \A x, y : Either(x, y) \in {0, 1}
  BY DEF Either
<1> QED
  BY <1>2, <1>3 DEF EnteredStatus

(* The status that an exception leaves has no bit above the mode stack, so *)
(* the bootstrap vector is never chosen, whatever SR held.                 *)
LEMMA VectorIsRam == ASSUME NEW s \in Word PROVE Vector(EnteredStatus(s)) = RamVector
<1>1. EnteredStatus(s) \in 0 .. 63
  BY EnteredStatusType
<1>2. \A n \in 0 .. 63 : n \div BEVBit = 0
  BY Cop0Assumption
<1>3. Bit(EnteredStatus(s), BEVBit) = 0
  BY <1>1, <1>2 DEF Bit
<1> QED
  BY <1>3 DEF Vector

LEMMA CauseWordType ==
  ASSUME NEW s \in Word, NEW ex \in ExceptionType PROVE CauseWord(s, ex) \in Word
<1>1. (4 * ex) % 128 \in 0 .. 127
  BY DEF ExceptionType, SYSCALL, BREAKPOINT, COPROCESSOR_UNUSUABLE, ARITHMETIC_OVERFLOW
<1>2. s \in Nat /\ s < WordSize /\ WordSize \in Nat /\ WordSize % 128 = 0
  BY WidthAssumption DEF Word
<1>3. s - (s % 128) \in Nat /\ s - (s % 128) + 127 < WordSize
  BY <1>2
<1> QED
  BY <1>1, <1>2, <1>3 DEF CauseWord, Word

LEMMA RestoredType == ASSUME NEW s \in Word PROVE Restored(s) \in Word
<1>1. s \in Nat /\ s < WordSize /\ WordSize \in Nat /\ WordSize % 128 = 0
  BY WidthAssumption DEF Word
<1>2. s - (s % 16) \in Nat /\ s - (s % 16) + 15 < WordSize
  BY <1>1
<1>3. (s \div 4) % 16 \in 0 .. 15
  BY <1>1
<1> QED
  BY <1>1, <1>2, <1>3 DEF Restored, Word

LEMMA ExceptionEffect ==
  ASSUME CopOK, NEW ex \in ExceptionType, NEW p \in Word, trigger_exception(ex, p)
  PROVE  /\ cop' \in [Reg -> Word]
         /\ cop'[SR] = EnteredStatus(cop[SR])
         /\ cop'[EPC] = ToWord(p - 4)
         /\ \A r \in Reg \ {SR, CAUSE, EPC} : cop'[r] = cop[r]
<1>1. PICK stale \in StaleStack :
        cop' = [cop EXCEPT ![SR]    = EnteredStatus(cop[SR]),
                           ![CAUSE] = CauseWord(stale, ex),
                           ![EPC]   = ToWord(p - 4)]
  BY DEF trigger_exception
<1>2. cop[SR] \in Word
  BY DEF CopOK, SR, Reg
<1>3. EnteredStatus(cop[SR]) \in Word
  BY <1>2, EnteredStatusType, WidthAssumption DEF Word
<1>4. CauseWord(stale, ex) \in Word
  BY Cop0Assumption, CauseWordType
<1>5. ToWord(p - 4) \in Word
  BY WordFacts, ToWordType
<1> QED
  BY <1>1, <1>3, <1>4, <1>5 DEF CopOK, SR, CAUSE, EPC, Reg

-----------------------------------------------------------------------------
(* The building blocks of a cycle preserve their part of the invariant.    *)

LEMMA ReadType == ASSUME RegsOK, NEW r \in Reg PROVE Read(r) \in Word
  BY WordFacts DEF RegsOK, Read

LEMMA CommittedType == ASSUME RegsOK, LoadOK PROVE Committed \in [Reg -> Word]
  BY DEF RegsOK, LoadOK, Committed

LEMMA WriteBackType ==
  ASSUME RegsOK, LoadOK, NEW r \in Reg, NEW v \in Word, WriteBack(r, v)
  PROVE  RegsOK'
  BY CommittedType DEF WriteBack, RegsOK

LEMMA NoWriteBackType ==
  ASSUME RegsOK, LoadOK, NoWriteBack PROVE RegsOK'
  BY CommittedType DEF NoWriteBack, RegsOK

LEMMA PendType ==
  ASSUME NEW r \in Reg, NEW v \in Word, Pend(r, v) PROVE LoadOK'
  BY DEF Pend, LoadOK

LEMMA NoLoadType == ASSUME NoLoad PROVE LoadOK'
  BY WordFacts DEF NoLoad, LoadOK, Reg

LEMMA SequentialType == ASSUME FlowOK, Sequential PROVE FlowOK'
  BY NextAddressType DEF FlowOK, Sequential, Enter, SequentialUnlessJump

LEMMA BranchToType ==
  ASSUME FlowOK, NEW t \in Word, BranchTo(t) PROVE FlowOK'
  BY DEF FlowOK, BranchTo, Enter, SequentialUnlessJump

LEMMA BusType ==
  ASSUME NEW n \in {1, 2, 4}, NEW a \in Word, NEW v \in Word,
         ReadBus(n, Physical(a), v) \/ WriteBus(n, Physical(a), v)
  PROVE  BusOK'
<1>1. Physical(a) \in Word
  BY PhysicalType
<1> QED
  BY <1>1 DEF ReadBus, WriteBus, BusOK, Access

LEMMA NoBusType == ASSUME NoBus PROVE BusOK'
  BY WordFacts DEF NoBus, Idle, BusOK, Access

LEMMA TrapType ==
  ASSUME IInv, NEW ex \in ExceptionType, Trap(ex)
  PROVE  IInv'
<1> USE DEF IInv
<1>1. RegsOK' /\ LoadOK' /\ BusOK'
  BY NoWriteBackType, NoLoadType, NoBusType DEF Trap
<1>2. HiLoOK' /\ RunOK'
  BY DEF Trap, HiLoOK, RunOK
<1>3. next_pc \in Word /\ cop[SR] \in Word
  BY DEF FlowOK, CopOK, SR, Reg
<1>4. CopOK' /\ cop'[SR] = EnteredStatus(cop[SR])
  BY <1>3, ExceptionEffect DEF Trap, CopOK
<1>5. pc' = RamVector
  BY <1>3, <1>4, VectorIsRam DEF Trap
<1>6. FlowOK'
  BY <1>5, Cop0Assumption, NextAddressType DEF Trap, Enter, FlowOK, SequentialUnlessJump
<1> QED
  BY <1>1, <1>2, <1>4, <1>6

LEMMA ExitType == ASSUME IInv, Exit PROVE IInv'
  BY DEF IInv, Exit, regs, flow, RegsOK, HiLoOK, LoadOK, FlowOK, SequentialUnlessJump,
         CopOK, BusOK, RunOK

LEMMA ComputeType ==
  ASSUME IInv, NEW r \in Reg, NEW v \in Word, Compute(r, v)
  PROVE  IInv'
<1>1. RegsOK' /\ LoadOK' /\ FlowOK' /\ BusOK'
  BY WriteBackType, NoLoadType, SequentialType, NoBusType DEF IInv, Compute
<1>2. HiLoOK' /\ CopOK' /\ RunOK'
  BY DEF IInv, Compute, HiLoOK, CopOK, RunOK
<1> QED
  BY <1>1, <1>2 DEF IInv

LEMMA SetHiLoType ==
  ASSUME IInv, NEW h \in Word, NEW l \in Word, SetHiLo(h, l)
  PROVE  IInv'
<1>1. RegsOK' /\ LoadOK' /\ FlowOK' /\ BusOK'
  BY NoWriteBackType, NoLoadType, SequentialType, NoBusType DEF IInv, SetHiLo
<1>2. HiLoOK' /\ CopOK' /\ RunOK'
  BY DEF IInv, SetHiLo, HiLoOK, CopOK, RunOK
<1> QED
  BY <1>1, <1>2 DEF IInv

LEMMA QuietType ==
  ASSUME IInv, Quiet, RegsOK', FlowOK' PROVE IInv'
  BY NoLoadType, NoBusType DEF IInv, Quiet, HiLoOK, CopOK, RunOK

LEMMA RestType ==
  ASSUME IInv, Rest, RegsOK', LoadOK', BusOK' PROVE IInv'
  BY SequentialType DEF IInv, Rest, HiLoOK, CopOK, RunOK

-----------------------------------------------------------------------------
(* Every instruction preserves the invariant.                              *)

LEMMA Fields ==
  ASSUME NEW i \in Instruction
  PROVE  /\ i.rs \in Reg /\ i.rt \in Reg /\ i.rd \in Reg /\ i.shamt \in Reg
         /\ i.imm \in Half /\ i.target \in Int
  BY WidthAssumption DEF Instruction, Reg

LEMMA ComputationStep ==
  ASSUME IInv, NEW i \in Instruction,
         \/ op_alu_register(i) \/ op_alu_shift(i) \/ op_alu_immediate(i)
         \/ op_mfhi(i) \/ op_mflo(i)
  PROVE  IInv'
<1> USE Fields
<1>0. Read(i.rs) \in Word /\ Read(i.rt) \in Word /\ hi \in Word /\ lo \in Word
  BY ReadType DEF IInv, HiLoOK
<1>1. CASE op_alu_register(i)
  BY <1>0, <1>1, AluAssumption, ComputeType DEF op_alu_register
<1>2. CASE op_alu_shift(i)
  BY <1>0, <1>2, AluAssumption, ComputeType DEF op_alu_shift
<1>3. CASE op_alu_immediate(i)
  BY <1>0, <1>3, AluAssumption, ComputeType DEF op_alu_immediate
<1>4. CASE op_mfhi(i)
  BY <1>0, <1>4, ComputeType DEF op_mfhi
<1>5. CASE op_mflo(i)
  BY <1>0, <1>5, ComputeType DEF op_mflo
<1> QED
  BY <1>1, <1>2, <1>3, <1>4, <1>5

LEMMA HiLoStep ==
  ASSUME IInv, NEW i \in Instruction, op_mult_div(i) \/ op_mthi(i) \/ op_mtlo(i)
  PROVE  IInv'
<1> USE Fields
<1>0. Read(i.rs) \in Word /\ Read(i.rt) \in Word /\ hi \in Word /\ lo \in Word
  BY ReadType DEF IInv, HiLoOK
<1>1. CASE op_mult_div(i)
  <2> DEFINE result == MulDiv(Handler(i), Read(i.rs), Read(i.rt))
  <2>1. result \in Word \X Word
    BY <1>0, <1>1, AluAssumption DEF op_mult_div
  <2>2. result[1] \in Word /\ result[2] \in Word
    BY <2>1
  <2>3. SetHiLo(result[1], result[2])
    BY <1>1 DEF op_mult_div
  <2> HIDE DEF result
  <2> QED
    BY <2>2, <2>3, SetHiLoType
<1>2. CASE op_mthi(i)
  BY <1>0, <1>2, SetHiLoType DEF op_mthi
<1>3. CASE op_mtlo(i)
  BY <1>0, <1>3, SetHiLoType DEF op_mtlo
<1> QED
  BY <1>1, <1>2, <1>3

LEMMA AdditionStep ==
  ASSUME IInv, NEW i \in Instruction, op_add(i) \/ op_addi(i)
  PROVE  IInv'
<1> USE Fields
<1>0. Read(i.rs) \in Word /\ Read(i.rt) \in Word
  BY ReadType DEF IInv
<1>1. CASE op_add(i)
  <2>1. ToWord(Read(i.rs) + Read(i.rt)) \in Word
    BY <1>0, SumType
  <2>2. \/ Trap(ARITHMETIC_OVERFLOW)
        \/ Compute(i.rd, ToWord(Read(i.rs) + Read(i.rt)))
    BY <1>1 DEF op_add
  <2> QED
    BY <2>1, <2>2, ComputeType, TrapType DEF ExceptionType
<1>2. CASE op_addi(i)
  <2> DEFINE b == ToWord(SignedHalf(i.imm))
  <2>1. b \in Word
    BY WordFacts, SignedHalfType, ToWordType
  <2>2. ToWord(Read(i.rs) + b) \in Word
    BY <1>0, <2>1, SumType
  <2>3. Exit \/ Compute(i.rt, ToWord(Read(i.rs) + b))
    BY <1>2 DEF op_addi
  <2> QED
    BY <2>2, <2>3, ComputeType, ExitType
<1> QED
  BY <1>1, <1>2

LEMMA TrapStep ==
  ASSUME IInv, NEW i \in Instruction, op_syscall(i) \/ op_break(i) \/ op_unusable(i)
  PROVE  IInv'
  BY TrapType DEF op_syscall, op_break, op_unusable, ExceptionType

LEMMA JumpStep ==
  ASSUME IInv, NEW i \in Instruction,
         op_branch(i) \/ op_j(i) \/ op_jal(i) \/ op_jr(i) \/ op_jalr(i)
  PROVE  IInv'
<1> USE Fields
<1>0. /\ Read(i.rs) \in Word /\ next_pc \in Word /\ 31 \in Reg
      /\ RegsOK /\ LoadOK /\ FlowOK
  BY ReadType DEF IInv, FlowOK, Reg
<1>1. /\ ToWord(next_pc + 4) \in Word
      /\ BranchTarget(next_pc, i.imm) \in Word
      /\ JumpTarget(next_pc, i.target) \in Word
  BY <1>0, NextAddressType, BranchTargetType, JumpTargetType
<1>2. CASE op_branch(i)
  <2>1. RegsOK'
    BY <1>0, <1>1, <1>2, WriteBackType, NoWriteBackType DEF op_branch
  <2>2. FlowOK'
    BY <1>0, <1>1, <1>2, BranchToType, SequentialType DEF op_branch
  <2> QED
    BY <1>2, <2>1, <2>2, QuietType DEF op_branch
<1>3. CASE op_j(i)
  BY <1>0, <1>1, <1>3, NoWriteBackType, BranchToType, QuietType DEF op_j
<1>4. CASE op_jal(i)
  BY <1>0, <1>1, <1>4, WriteBackType, BranchToType, QuietType DEF op_jal
<1>5. CASE op_jr(i)
  BY <1>0, <1>1, <1>5, NoWriteBackType, BranchToType, QuietType DEF op_jr
<1>6. CASE op_jalr(i)
  BY <1>0, <1>1, <1>6, WriteBackType, BranchToType, QuietType DEF op_jalr
<1> QED
  BY <1>2, <1>3, <1>4, <1>5, <1>6

LEMMA SizeType == ASSUME NEW h PROVE Size(h) \in {1, 2, 4}
  BY DEF Size

LEMMA MemoryStep ==
  ASSUME IInv, NEW i \in Instruction,
         \/ op_isolated(i) \/ op_load(i) \/ op_lbu(i) \/ op_merge_load(i)
         \/ op_store(i) \/ op_merge_store(i)
  PROVE  IInv'
<1> USE Fields
<1>0. /\ Read(i.rs) \in Word /\ Read(i.rt) \in Word
      /\ RegsOK /\ LoadOK /\ Committed \in [Reg -> Word]
      /\ MemData \subseteq Word /\ Size(Handler(i)) \in {1, 2, 4}
  BY ReadType, CommittedType, R3000Assumption, SizeType DEF IInv
<1>1. /\ Address(i) \in Word /\ WordOf(Address(i)) \in Word
      /\ Address(i) % 4 \in 0 .. 3
  <2>1. Address(i) \in Word
    BY <1>0, VAddrType DEF Address
  <2>2. Address(i) \in Int
    BY <2>1, WordFacts
  <2> QED
    BY <2>1, <2>2, CellType DEF WordOf
<1>2. CASE op_isolated(i)
  BY <1>0, <1>2, NoWriteBackType, NoLoadType, NoBusType, RestType DEF op_isolated
<1>3. CASE op_load(i)
  <2>1. PICK v \in MemData : /\ ReadBus(Size(Handler(i)), Physical(Address(i)), v)
                             /\ Pend(i.rt, Extend(Handler(i), v))
    BY <1>3 DEF op_load
  <2>2. LoadOK' /\ BusOK'
    BY <1>0, <1>1, <2>1, ExtendType, PendType, BusType
  <2> QED
    BY <1>0, <1>3, <2>2, NoWriteBackType, RestType DEF op_load
<1>4. CASE op_lbu(i)
  <2>1. PICK v \in MemData : /\ ReadBus(1, Physical(Address(i)), v)
                             /\ WriteBack(i.rt, Extend("op_lbu", v))
    BY <1>4 DEF op_lbu
  <2>2. RegsOK' /\ BusOK'
    BY <1>0, <1>1, <2>1, ExtendType, WriteBackType, BusType
  <2> QED
    BY <1>4, <2>2, NoLoadType, RestType DEF op_lbu
<1>5. CASE op_merge_load(i)
  <2>1. PICK v \in MemData :
          /\ ReadBus(4, Physical(WordOf(Address(i))), v)
          /\ WriteBack(i.rt, Merge(Handler(i), Committed[i.rt], v, Address(i) % 4))
    BY <1>5 DEF op_merge_load
  <2>2. Merge(Handler(i), Committed[i.rt], v, Address(i) % 4) \in Word
    BY <1>0, <1>1, <1>5, MergeAssumption DEF op_merge_load
  <2>3. RegsOK' /\ BusOK'
    BY <1>0, <1>1, <2>1, <2>2, WriteBackType, BusType
  <2> QED
    BY <1>5, <2>3, NoLoadType, RestType DEF op_merge_load
<1>6. CASE op_store(i)
  <2>1. BusOK'
    BY <1>0, <1>1, <1>6, TruncateType, BusType DEF op_store
  <2> QED
    BY <1>0, <1>6, <2>1, NoWriteBackType, NoLoadType, RestType DEF op_store
<1>7. CASE op_merge_store(i)
  <2>1. BusOK'
    BY <1>0, <1>1, <1>7, BusType DEF op_merge_store
  <2> QED
    BY <1>0, <1>7, <2>1, NoWriteBackType, NoLoadType, RestType DEF op_merge_store
<1> QED
  BY <1>2, <1>3, <1>4, <1>5, <1>6, <1>7

LEMMA ControlStep ==
  ASSUME IInv, NEW i \in Instruction,
         op_mfc0(i) \/ op_mtc0(i) \/ op_rfe(i) \/ op_cop0_nothing(i)
  PROVE  IInv'
<1> USE Fields
<1>0. /\ RegsOK /\ LoadOK /\ FlowOK /\ HiLoOK /\ RunOK
      /\ CopOK /\ cop[i.rd] \in Word /\ cop[SR] \in Word /\ Read(i.rt) \in Word
  BY ReadType DEF IInv, CopOK, SR, Reg
<1>1. CASE op_mfc0(i)
  BY <1>0, <1>1, NoWriteBackType, PendType, NoBusType, RestType DEF op_mfc0
<1>2. CASE op_mtc0(i)
  <2>1. CopOK'
    BY <1>0, <1>2 DEF op_mtc0, write_gpr, CopOK
  <2>2. RegsOK' /\ LoadOK' /\ FlowOK' /\ BusOK'
    BY <1>0, <1>2, NoWriteBackType, NoLoadType, SequentialType, NoBusType DEF op_mtc0
  <2> QED
    BY <1>0, <1>2, <2>1, <2>2 DEF IInv, op_mtc0, HiLoOK, RunOK
<1>3. CASE op_rfe(i)
  <2>1. CopOK'
    BY <1>0, <1>3, RestoredType DEF op_rfe, rfe, CopOK
  <2>2. RegsOK' /\ LoadOK' /\ FlowOK' /\ BusOK'
    BY <1>0, <1>3, NoWriteBackType, NoLoadType, SequentialType, NoBusType DEF op_rfe
  <2> QED
    BY <1>0, <1>3, <2>1, <2>2 DEF IInv, op_rfe, HiLoOK, RunOK
<1>4. CASE op_cop0_nothing(i)
  BY <1>0, <1>4, NoWriteBackType, NoLoadType, NoBusType, RestType DEF op_cop0_nothing
<1> QED
  BY <1>1, <1>2, <1>3, <1>4

LEMMA ExecuteStep ==
  ASSUME IInv, NEW i \in Instruction, Execute(i) PROVE IInv'
<1>1. CASE op_fatal(i) \/ AccessFault(i) \/ BusFault(i) \/ NameFault(i)
  BY <1>1, ExitType DEF op_fatal, AccessFault, BusFault, NameFault
<1> QED
  BY <1>1, ComputationStep, HiLoStep, AdditionStep, TrapStep, JumpStep, MemoryStep,
     ControlStep DEF Execute

-----------------------------------------------------------------------------
LEMMA InitInvariant == Init => IInv
<1> SUFFICES ASSUME Init PROVE IInv
  OBVIOUS
<1> USE DEF Init
<1>1. RegsOK /\ LoadOK /\ RunOK /\ HiLoOK
  BY WordFacts, R3000Assumption DEF RegsOK, LoadOK, RunOK, HiLoOK, Reg
<1>2. FlowOK
  BY R3000Assumption, NextAddressType DEF FlowOK, SequentialUnlessJump
<1>3. CopOK /\ BusOK
  BY WordFacts, Cop0Assumption DEF Cop0Init, CopOK, BusOK, Idle, Access
<1> QED
  BY <1>1, <1>2, <1>3 DEF IInv

LEMMA NextInvariant == IInv /\ [Next]_vars => IInv'
<1> SUFFICES ASSUME IInv, [Next]_vars PROVE IInv'
  OBVIOUS
<1>1. CASE FetchFault
  BY <1>1, ExitType DEF FetchFault
<1>2. CASE \E i \in Fetch(pc) : Execute(i)
  <2>1. Fetch(pc) \subseteq Instruction
    BY R3000Assumption DEF IInv, FlowOK
  <2> QED
    BY <1>2, <2>1, ExecuteStep
<1>3. CASE UNCHANGED vars
  BY <1>3 DEF vars, regs, flow, IInv, RegsOK, HiLoOK, LoadOK, FlowOK,
              SequentialUnlessJump, CopOK, BusOK, RunOK
<1> QED
  BY <1>1, <1>2, <1>3 DEF Next, cycle, Ended

LEMMA Invariance == Spec => []IInv
  BY InitInvariant, NextInvariant, PTL DEF Spec

(* Every variable keeps its type, whatever program runs.                   *)
THEOREM TypeCorrect == Spec => []TypeOK
<1>1. IInv => TypeOK
  BY IInvMeaning
<1> QED
  BY <1>1, Invariance, PTL

(* cycle, the jumps and set_pc always leave gpr equal to gpr_delay, and    *)
(* next_pc one instruction after pc unless a jump waits for its delay slot.*)
THEOREM PipelineInvariant == Spec => []PipelineInv
<1>1. IInv => PipelineInv
  BY IInvMeaning
<1> QED
  BY <1>1, Invariance, PTL

-----------------------------------------------------------------------------
(* Exceptions.                                                             *)

LEMMA AddThenSubtract ==
  ASSUME NEW a \in Word PROVE ToWord(ToWord(a + 4) - 4) = a
<1>1. WordSize \in Nat /\ WordSize >= 128 /\ a \in 0 .. WordSize - 1
  BY WidthAssumption DEF Word
<1>2. CASE a + 4 < WordSize
  <2>1. (a + 4) % WordSize = a + 4 /\ a % WordSize = a
    BY <1>1, <1>2
  <2> QED
    BY <1>1, <2>1 DEF ToWord
<1>3. CASE a + 4 >= WordSize
  <2>1. (a + 4) % WordSize = a + 4 - WordSize
    BY <1>1, <1>3
  <2>2. (a - WordSize) % WordSize = a
    BY <1>1
  <2>3. ((a + 4) % WordSize) - 4 = a - WordSize
    BY <1>1, <2>1
  <2> QED
    BY <2>2, <2>3 DEF ToWord
<1> QED
  BY <1>1, <1>2, <1>3

LEMMA EpcOfTrap ==
  ASSUME IInv, NEW ex \in ExceptionType, Trap(ex), ~is_branch
  PROVE  cop'[EPC] = pc
<1>1. /\ pc \in Word /\ next_pc \in Word /\ next_pc = ToWord(pc + 4) /\ CopOK
  BY DEF IInv, FlowOK, SequentialUnlessJump
<1>2. cop'[EPC] = ToWord(next_pc - 4)
  BY <1>1, ExceptionEffect DEF Trap
<1> QED
  BY <1>1, <1>2, AddThenSubtract

(* Outside a delay slot, EPC names the instruction that trapped.           *)
THEOREM EpcCorrect == Spec => EpcNamesFaulting
<1>1. IInv /\ [Next]_vars
        => [\A ex \in ExceptionType : Trap(ex) /\ ~is_branch => cop'[EPC] = pc]_vars
  BY EpcOfTrap
<1> QED
  BY <1>1, Invariance, PTL DEF Spec, EpcNamesFaulting

-----------------------------------------------------------------------------
(* The processor implements MipsPipeline.                                  *)

(* MipsPipeline brings its own copy of the vocabulary of Isa and Cop0.     *)
LEMMA SameWords ==
  /\ \A n : Pipeline!ToWord(n) = ToWord(n)
  /\ \A n : Pipeline!SignedHalf(n) = SignedHalf(n)
  /\ \A x, y, z : Pipeline!overflow(x, y, z) = overflow(x, y, z)
  /\ \A s, k : Pipeline!BranchTarget(s, k) = BranchTarget(s, k)
  /\ \A s, t : Pipeline!JumpTarget(s, t) = JumpTarget(s, t)
  /\ \A b, k : Pipeline!VAddr(b, k) = VAddr(b, k)
  /\ \A a : Pipeline!Physical(a) = Physical(a)
<1> USE DEF Pipeline!ToWord, ToWord, Pipeline!SignedHalf, SignedHalf
<1>1. \A x, y, z : Pipeline!overflow(x, y, z) = overflow(x, y, z)
  BY DEF Pipeline!overflow, overflow, Pipeline!Negative, Negative
<1>2. \A s, k : Pipeline!BranchTarget(s, k) = BranchTarget(s, k)
  BY DEF Pipeline!BranchTarget, BranchTarget, Pipeline!BranchOffset, BranchOffset
<1>3. \A s, t : Pipeline!JumpTarget(s, t) = JumpTarget(s, t)
  BY DEF Pipeline!JumpTarget, JumpTarget
<1>4. \A b, k : Pipeline!VAddr(b, k) = VAddr(b, k)
  BY DEF Pipeline!VAddr, VAddr
<1>5. \A a : Pipeline!Physical(a) = Physical(a)
  BY DEF Pipeline!Physical, Physical
<1> QED
  BY <1>1, <1>2, <1>3, <1>4, <1>5

LEMMA SameHandlers ==
  /\ \A i : Pipeline!Handler(i) = Handler(i)
  /\ Pipeline!AluRegister = AluRegister /\ Pipeline!AluShift = AluShift
  /\ Pipeline!AluImmediate = AluImmediate /\ Pipeline!MultiplyDivide = MultiplyDivide
  /\ Pipeline!Branches = Branches /\ Pipeline!DelayedLoads = DelayedLoads
  /\ Pipeline!MergeLoads = MergeLoads /\ Pipeline!Stores = Stores
  /\ Pipeline!MergeStores = MergeStores /\ Pipeline!MemoryOps = MemoryOps
  /\ Pipeline!Unusable = Unusable
<1>1. \A i : Pipeline!Handler(i) = Handler(i)
  BY DEF Pipeline!Handler, Handler, Pipeline!ops_normal, ops_normal,
         Pipeline!ops_special, ops_special
<1> QED
  BY <1>1 DEF Pipeline!AluRegister, AluRegister, Pipeline!AluShift, AluShift,
         Pipeline!AluImmediate, AluImmediate, Pipeline!MultiplyDivide, MultiplyDivide,
         Pipeline!Branches, Branches, Pipeline!DelayedLoads, DelayedLoads,
         Pipeline!MergeLoads, MergeLoads, Pipeline!Stores, Stores,
         Pipeline!MergeStores, MergeStores, Pipeline!MemoryOps, MemoryOps,
         Pipeline!Unusable, Unusable

LEMMA SameValues ==
  /\ \A i, a, b : Pipeline!Taken(i, a, b) <=> Taken(i, a, b)
  /\ \A i : Pipeline!Links(i) <=> Links(i)
  /\ \A h : Pipeline!Size(h) = Size(h)
  /\ \A h, v : Pipeline!Extend(h, v) = Extend(h, v)
  /\ \A h, w : Pipeline!Truncate(h, w) = Truncate(h, w)
<1>1. \A i, a, b : Pipeline!Taken(i, a, b) <=> Taken(i, a, b)
  BY SameHandlers DEF Pipeline!Taken, Taken, Pipeline!Negative, Negative
<1>2. \A i : Pipeline!Links(i) <=> Links(i)
  BY SameHandlers DEF Pipeline!Links, Links
<1>3. \A h : Pipeline!Size(h) = Size(h)
  BY DEF Pipeline!Size, Size
<1>4. \A h, v : Pipeline!Extend(h, v) = Extend(h, v)
  BY SameWords DEF Pipeline!Extend, Extend
<1>5. \A h, w : Pipeline!Truncate(h, w) = Truncate(h, w)
  BY DEF Pipeline!Truncate, Truncate
<1> QED
  BY <1>1, <1>2, <1>3, <1>4, <1>5

LEMMA SameControl ==
  /\ Pipeline!Isolated <=> Isolated
  /\ Pipeline!rfe <=> rfe
  /\ \A r, v : Pipeline!write_gpr(r, v) <=> write_gpr(r, v)
  /\ Pipeline!SR = SR /\ Pipeline!CAUSE = CAUSE /\ Pipeline!EPC = EPC
  /\ Pipeline!Reg = Reg /\ Pipeline!Word = Word
<1> USE DEF Pipeline!SR, SR, Pipeline!CAUSE, CAUSE, Pipeline!EPC, EPC,
            Pipeline!Reg, Reg, Pipeline!Word, Word
<1>1. Pipeline!Isolated <=> Isolated
  BY DEF Pipeline!Isolated, Isolated, Pipeline!Bit, Bit
<1>2. Pipeline!rfe <=> rfe
  BY DEF Pipeline!rfe, rfe, Pipeline!Restored, Restored
<1>3. \A r, v : Pipeline!write_gpr(r, v) <=> write_gpr(r, v)
  BY DEF Pipeline!write_gpr, write_gpr
<1> QED
  BY <1>1, <1>2, <1>3

zeroed(f) == [f EXCEPT ![0] = 0]

LEMMA ReadIsOperand ==
  ASSUME RegsOK, NEW r \in Reg PROVE Read(r) = Pipeline!Operand(r)
  BY DEF RegsOK, Read, Pipeline!Operand, Reg

LEMMA ArrivedIsCommitted ==
  ASSUME RegsOK, LoadOK PROVE Pipeline!Arrived = zeroed(Committed)
<1>1. CASE delay_reg = 0
  <2>1. Committed = [gpr EXCEPT ![0] = load_delay]
    BY <1>1 DEF Committed, RegsOK
  <2>2. Pipeline!Arrived = [gpr EXCEPT ![0] = 0]
    BY <1>1 DEF Pipeline!Arrived, Pipeline!Put
  <2> QED
    BY <2>1, <2>2 DEF zeroed, RegsOK
<1>2. CASE delay_reg # 0
  <2>1. Pipeline!Arrived = [[gpr EXCEPT ![0] = 0] EXCEPT ![delay_reg] = load_delay]
    BY <1>2 DEF Pipeline!Arrived, Pipeline!Put
  <2>2. Committed = [gpr EXCEPT ![delay_reg] = load_delay]
    BY DEF Committed, RegsOK
  <2> QED
    BY <1>2, <2>1, <2>2 DEF zeroed, RegsOK, LoadOK
<1> QED
  BY <1>1, <1>2

LEMMA WriteBackMaps ==
  ASSUME RegsOK, LoadOK, NEW r \in Reg, NEW v \in Word, WriteBack(r, v)
  PROVE  Pipeline!Result(r, v)
<1>1. gpr' = [Committed EXCEPT ![r] = v] /\ Committed \in [Reg -> Word]
  BY CommittedType DEF WriteBack
<1>2. Pipeline!Arrived = zeroed(Committed)
  BY ArrivedIsCommitted
<1>3. [gpr' EXCEPT ![0] = 0] = Pipeline!Put(zeroed(Committed), r, v)
  BY <1>1 DEF zeroed, Pipeline!Put
<1> QED
  BY <1>2, <1>3 DEF Pipeline!Result

LEMMA NoWriteBackMaps ==
  ASSUME RegsOK, LoadOK, NoWriteBack PROVE Pipeline!Nothing
  BY ArrivedIsCommitted DEF NoWriteBack, Pipeline!Nothing, zeroed

LEMMA NoLoadMaps == ASSUME NoLoad PROVE Pipeline!Unloading
  BY DEF NoLoad, Pipeline!Unloading, Pipeline!NoLoad

LEMMA PendMaps == ASSUME NEW r, NEW v, Pend(r, v) PROVE Pipeline!Load(r, v)
  BY DEF Pend, Pipeline!Load, Pipeline!NoLoad

LEMMA FollowingIsNext == ASSUME FlowOK PROVE Pipeline!Following = next_pc
<1>1. next_pc # -1
  BY WidthAssumption DEF FlowOK, Word
<1> QED
  BY <1>1, SameWords DEF FlowOK, SequentialUnlessJump, Pipeline!Following, Pipeline!NoJump

LEMMA SequentialMaps == ASSUME FlowOK, Sequential PROVE Pipeline!Proceed
  BY FollowingIsNext DEF Sequential, Pipeline!Proceed, Pipeline!Go, Pipeline!NoJump

LEMMA BranchToMaps == ASSUME FlowOK, NEW t, BranchTo(t) PROVE Pipeline!Go(t)
  BY FollowingIsNext DEF BranchTo, Pipeline!Go

LEMMA BusMaps ==
  /\ NoBus => Pipeline!Silent
  /\ \A n, a, v : ReadBus(n, Physical(a), v)  => Pipeline!Transfer("read", n, a, v)
  /\ \A n, a, v : WriteBus(n, Physical(a), v) => Pipeline!Transfer("write", n, a, v)
  BY SameWords DEF NoBus, Idle, ReadBus, WriteBus, Pipeline!Silent, Pipeline!Idle, Pipeline!Transfer

LEMMA ExitMaps == ASSUME Exit PROVE Pipeline!Halt
  BY DEF Exit, regs, flow, Pipeline!Halt

LEMMA ComputeMaps ==
  ASSUME IInv, NEW r \in Reg, NEW v \in Word, Compute(r, v)
  PROVE  /\ Pipeline!Result(r, v) /\ Pipeline!Unloading /\ Pipeline!Proceed /\ Pipeline!Silent
         /\ UNCHANGED << hi, lo, cop, running >>
  BY WriteBackMaps, NoLoadMaps, SequentialMaps, BusMaps DEF IInv, Compute

LEMMA ComputationMaps ==
  ASSUME IInv, NEW i \in Instruction,
         \/ op_alu_register(i) \/ op_alu_shift(i) \/ op_alu_immediate(i)
         \/ op_mfhi(i) \/ op_mflo(i)
  PROVE  Pipeline!Compute(i)
<1> USE Fields, SameHandlers
<1>0. /\ Read(i.rs) \in Word /\ Read(i.rt) \in Word /\ hi \in Word /\ lo \in Word
      /\ Read(i.rs) = Pipeline!Operand(i.rs) /\ Read(i.rt) = Pipeline!Operand(i.rt)
  BY ReadType, ReadIsOperand DEF IInv, HiLoOK
<1>1. CASE op_alu_register(i)
  <2>1. Alu(Handler(i), Read(i.rs), Read(i.rt)) \in Word
    BY <1>0, <1>1, AluAssumption DEF op_alu_register
  <2> QED
    BY <1>0, <1>1, <2>1, ComputeMaps DEF op_alu_register, Pipeline!Compute
<1>2. CASE op_alu_shift(i)
  <2>1. Alu(Handler(i), Read(i.rt), i.shamt) \in Word
    BY <1>0, <1>2, AluAssumption DEF op_alu_shift
  <2> QED
    BY <1>0, <1>2, <2>1, ComputeMaps DEF op_alu_shift, Pipeline!Compute
<1>3. CASE op_alu_immediate(i)
  <2>1. Alu(Handler(i), Read(i.rs), i.imm) \in Word
    BY <1>0, <1>3, AluAssumption DEF op_alu_immediate
  <2> QED
    BY <1>0, <1>3, <2>1, ComputeMaps DEF op_alu_immediate, Pipeline!Compute
<1>4. CASE op_mfhi(i)
  BY <1>0, <1>4, ComputeMaps DEF op_mfhi, Pipeline!Compute
<1>5. CASE op_mflo(i)
  BY <1>0, <1>5, ComputeMaps DEF op_mflo, Pipeline!Compute
<1> QED
  BY <1>1, <1>2, <1>3, <1>4, <1>5

LEMMA HiLoMaps ==
  ASSUME IInv, NEW i \in Instruction, op_mult_div(i) \/ op_mthi(i) \/ op_mtlo(i)
  PROVE  Pipeline!SetHiLo(i)
<1> USE Fields, SameHandlers
<1>0. Read(i.rs) = Pipeline!Operand(i.rs) /\ Read(i.rt) = Pipeline!Operand(i.rt)
  BY ReadIsOperand DEF IInv
<1>1. ASSUME NEW h, NEW l, SetHiLo(h, l)
      PROVE  /\ hi' = h /\ lo' = l
             /\ Pipeline!Nothing /\ Pipeline!Unloading /\ Pipeline!Proceed /\ Pipeline!Silent
             /\ UNCHANGED << cop, running >>
  BY <1>1, NoWriteBackMaps, NoLoadMaps, SequentialMaps, BusMaps DEF IInv, SetHiLo
<1>2. CASE op_mult_div(i)
  <2> DEFINE result == MulDiv(Handler(i), Read(i.rs), Read(i.rt))
  <2>1. Handler(i) \in MultiplyDivide /\ SetHiLo(result[1], result[2])
    BY <1>2 DEF op_mult_div
  <2> QED
    BY <1>0, <1>1, <2>1 DEF Pipeline!SetHiLo
<1>3. CASE op_mthi(i)
  BY <1>0, <1>1, <1>3 DEF op_mthi, Pipeline!SetHiLo
<1>4. CASE op_mtlo(i)
  BY <1>0, <1>1, <1>4 DEF op_mtlo, Pipeline!SetHiLo
<1> QED
  BY <1>2, <1>3, <1>4

LEMMA TrapMaps ==
  ASSUME IInv, NEW ex \in ExceptionType, Trap(ex), NEW i, Pipeline!Raises(i)
  PROVE  Pipeline!Except(i)
<1>1. next_pc \in Word /\ cop[SR] \in Word /\ CopOK
  BY DEF IInv, FlowOK, CopOK, SR, Reg
<1>2. /\ cop' \in [Reg -> Word] /\ cop'[SR] = EnteredStatus(cop[SR])
      /\ \A r \in Reg \ {SR, CAUSE, EPC} : cop'[r] = cop[r]
  BY <1>1, ExceptionEffect DEF Trap
<1>3. pc' = RamVector /\ is_branch' = FALSE
  BY <1>1, <1>2, VectorIsRam DEF Trap
<1>4. ~is_branch => cop'[EPC] = pc
  BY EpcOfTrap
<1>5. (IF is_branch THEN next_pc ELSE -1) = -1 => ~is_branch
  BY <1>1, WidthAssumption DEF Word
<1>6. Pipeline!Nothing /\ Pipeline!Unloading /\ Pipeline!Silent
  BY NoWriteBackMaps, NoLoadMaps, BusMaps DEF IInv, Trap
<1> QED
  BY <1>2, <1>3, <1>4, <1>5, <1>6, SameControl
     DEF Trap, Pipeline!Except, Pipeline!NoJump

LEMMA AdditionMaps ==
  ASSUME IInv, NEW i \in Instruction, op_add(i) \/ op_addi(i)
  PROVE  Pipeline!Compute(i) \/ Pipeline!Except(i) \/ Pipeline!Halt
<1> USE Fields, SameHandlers
<1>0. /\ Read(i.rs) \in Word /\ Read(i.rt) \in Word
      /\ Read(i.rs) = Pipeline!Operand(i.rs) /\ Read(i.rt) = Pipeline!Operand(i.rt)
  BY ReadType, ReadIsOperand DEF IInv
<1>1. \A a, b : Pipeline!Overflows(a, b) <=> Overflows(a, b)
  BY SameWords DEF Pipeline!Overflows, Overflows
<1>2. CASE op_add(i)
  <2> DEFINE a == Read(i.rs)
             b == Read(i.rt)
  <2>1. CASE Overflows(a, b)
    <3>1. Pipeline!Raises(i)
      BY <1>0, <1>1, <1>2, <2>1 DEF op_add, Pipeline!Raises
    <3>2. Trap(ARITHMETIC_OVERFLOW)
      BY <1>2, <2>1 DEF op_add
    <3> QED
      BY <3>1, <3>2, TrapMaps DEF ExceptionType
  <2>2. CASE ~Overflows(a, b)
    <3>1. ToWord(a + b) \in Word
      BY <1>0, SumType
    <3>2. Compute(i.rd, ToWord(a + b))
      BY <1>2, <2>2 DEF op_add
    <3>3. Pipeline!Sum(i.rd, a, b)
      BY <1>1, <2>2, <3>1, <3>2, ComputeMaps, SameWords DEF Pipeline!Sum
    <3> QED
      BY <1>0, <1>2, <3>1, <3>2, <3>3, ComputeMaps DEF op_add, Pipeline!Compute
  <2> QED
    BY <2>1, <2>2
<1>3. CASE op_addi(i)
  <2> DEFINE a == Read(i.rs)
             b == ToWord(SignedHalf(i.imm))
  <2>1. CASE Overflows(a, b)
    BY <1>3, <2>1, ExitMaps DEF op_addi
  <2>2. CASE ~Overflows(a, b)
    <3>1. b \in Word
      BY WordFacts, SignedHalfType, ToWordType
    <3>2. ToWord(a + b) \in Word
      BY <1>0, <3>1, SumType
    <3>3. Compute(i.rt, ToWord(a + b))
      BY <1>3, <2>2 DEF op_addi
    <3>4. Pipeline!Sum(i.rt, a, b)
      BY <1>1, <2>2, <3>2, <3>3, ComputeMaps, SameWords DEF Pipeline!Sum
    <3> QED
      BY <1>0, <1>3, <3>2, <3>3, <3>4, ComputeMaps, SameWords DEF op_addi, Pipeline!Compute
  <2> QED
    BY <2>1, <2>2
<1> QED
  BY <1>2, <1>3

LEMMA TrapInstructionMaps ==
  ASSUME IInv, NEW i \in Instruction, op_syscall(i) \/ op_break(i) \/ op_unusable(i)
  PROVE  Pipeline!Except(i)
<1>1. Pipeline!Raises(i)
  BY SameHandlers DEF op_syscall, op_break, op_unusable, Pipeline!Raises
<1> QED
  BY <1>1, TrapMaps DEF op_syscall, op_break, op_unusable, ExceptionType

LEMMA JumpMaps ==
  ASSUME IInv, NEW i \in Instruction,
         op_branch(i) \/ op_j(i) \/ op_jal(i) \/ op_jr(i) \/ op_jalr(i)
  PROVE  Pipeline!Jump(i)
<1> USE Fields, SameHandlers
<1>0. /\ RegsOK /\ LoadOK /\ FlowOK /\ next_pc \in Word /\ 31 \in Reg
      /\ ToWord(next_pc + 4) \in Word
      /\ Read(i.rs) = Pipeline!Operand(i.rs) /\ Read(i.rt) = Pipeline!Operand(i.rt)
  BY ReadIsOperand, NextAddressType DEF IInv, FlowOK, Reg
<1>1. Pipeline!Following = next_pc /\ Pipeline!Link = ToWord(next_pc + 4)
  BY <1>0, FollowingIsNext, SameWords DEF Pipeline!Link
<1>2. Quiet => /\ Pipeline!Unloading /\ Pipeline!Silent
               /\ UNCHANGED << hi, lo, cop, running >>
  BY NoLoadMaps, BusMaps DEF Quiet
<1>3. WriteBack(31, ToWord(next_pc + 4)) => Pipeline!Result(31, Pipeline!Link)
  BY <1>0, <1>1, WriteBackMaps
<1>4. NoWriteBack => Pipeline!Nothing
  BY <1>0, NoWriteBackMaps
<1>5. \A t : BranchTo(t) => Pipeline!Go(t)
  BY <1>0, BranchToMaps
<1>6. CASE op_branch(i)
  <2>1. Handler(i) \notin {"op_j", "op_jal", "op_jr", "op_jalr"}
    BY <1>6 DEF op_branch, Branches
  <2>2. Taken(i, Read(i.rs), Read(i.rt)) => Pipeline!Go(BranchTarget(next_pc, i.imm))
    BY <1>5, <1>6 DEF op_branch
  <2>3. ~Taken(i, Read(i.rs), Read(i.rt)) => Pipeline!Proceed
    BY <1>0, <1>6, SequentialMaps DEF op_branch
  <2>4. IF Links(i) THEN Pipeline!Result(31, Pipeline!Link) ELSE Pipeline!Nothing
    BY <1>3, <1>4, <1>6 DEF op_branch
  <2> QED
    BY <1>0, <1>1, <1>2, <1>6, <2>1, <2>2, <2>3, <2>4, SameWords, SameValues
       DEF op_branch, Pipeline!Jump
<1>7. CASE op_j(i)
  <2>1. ~Links(i)
    BY <1>7 DEF op_j, Links
  <2> QED
    BY <1>1, <1>2, <1>4, <1>5, <1>7, <2>1, SameWords, SameValues DEF op_j, Pipeline!Jump
<1>8. CASE op_jal(i)
  BY <1>1, <1>2, <1>3, <1>5, <1>8, SameWords DEF op_jal, Pipeline!Jump
<1>9. CASE op_jr(i)
  <2>1. ~Links(i)
    BY <1>9 DEF op_jr, Links
  <2> QED
    BY <1>0, <1>2, <1>4, <1>5, <1>9, <2>1, SameValues DEF op_jr, Pipeline!Jump
<1>10. CASE op_jalr(i)
  BY <1>0, <1>2, <1>3, <1>5, <1>10 DEF op_jalr, Pipeline!Jump
<1> QED
  BY <1>6, <1>7, <1>8, <1>9, <1>10

LEMMA MemoryMaps ==
  ASSUME IInv, NEW i \in Instruction,
         \/ op_isolated(i) \/ op_load(i) \/ op_lbu(i) \/ op_merge_load(i)
         \/ op_store(i) \/ op_merge_store(i)
  PROVE  Pipeline!Access(i)
<1> USE Fields, SameHandlers, SameControl, SameValues
<1>0. /\ Read(i.rs) \in Word /\ Read(i.rt) \in Word /\ RegsOK /\ LoadOK /\ FlowOK
      /\ Committed \in [Reg -> Word] /\ MemData \subseteq Word
      /\ Read(i.rs) = Pipeline!Operand(i.rs) /\ Read(i.rt) = Pipeline!Operand(i.rt)
  BY ReadType, ReadIsOperand, CommittedType, R3000Assumption DEF IInv
<1>1. /\ Address(i) = Pipeline!Address(i) /\ WordOf(Address(i)) = Pipeline!Cell(i)
      /\ Address(i) \in Int
  <2>1. Address(i) = Pipeline!Address(i)
    BY <1>0, SameWords DEF Address, Pipeline!Address
  <2>2. Address(i) \in Int
    BY <1>0, VAddrType, WordFacts DEF Address
  <2> QED
    BY <2>1, <2>2 DEF WordOf, Pipeline!Cell
<1>2. Rest => Pipeline!Proceed /\ UNCHANGED << hi, lo, cop, running >>
  BY <1>0, SequentialMaps DEF Rest
<1>3. NoWriteBack => Pipeline!Nothing
  BY <1>0, NoWriteBackMaps
<1>4. (NoLoad => Pipeline!Unloading) /\ (NoBus => Pipeline!Silent)
  BY NoLoadMaps, BusMaps
<1>5. CASE op_isolated(i)
  <2>1. Pipeline!Ignore(i)
    BY <1>3, <1>4, <1>5 DEF op_isolated, Pipeline!Ignore
  <2> QED
    BY <1>2, <1>5, <2>1 DEF op_isolated, Pipeline!Access
<1>6. CASE op_load(i)
  <2>1. PICK v \in MemData : /\ ReadBus(Size(Handler(i)), Physical(Address(i)), v)
                             /\ Pend(i.rt, Extend(Handler(i), v))
    BY <1>6 DEF op_load
  <2>2. /\ Pipeline!Transfer("read", Size(Handler(i)), Pipeline!Address(i), v)
        /\ Pipeline!Load(i.rt, Extend(Handler(i), v))
    BY <1>1, <2>1, BusMaps, PendMaps
  <2>3. Pipeline!Read(i)
    BY <1>3, <1>6, <2>2 DEF op_load, Open, Pipeline!Read
  <2> QED
    BY <1>2, <1>6, <2>3 DEF op_load, Pipeline!Access
<1>7. CASE op_lbu(i)
  <2>1. PICK v \in MemData : /\ ReadBus(1, Physical(Address(i)), v)
                             /\ WriteBack(i.rt, Extend("op_lbu", v))
    BY <1>7 DEF op_lbu
  <2>2. /\ Pipeline!Transfer("read", 1, Pipeline!Address(i), v)
        /\ Pipeline!Result(i.rt, Extend("op_lbu", v))
    BY <1>0, <1>1, <2>1, BusMaps, WriteBackMaps, ExtendType
  <2>3. Pipeline!Read(i)
    BY <1>4, <1>7, <2>2 DEF op_lbu, Open, Pipeline!Read
  <2> QED
    BY <1>2, <1>7, <2>3 DEF op_lbu, Pipeline!Access
<1>8. CASE op_merge_load(i)
  <2> DEFINE merged(v) == Merge(Handler(i), Committed[i.rt], v, Address(i) % 4)
  <2>1. PICK v \in MemData : /\ ReadBus(4, Physical(WordOf(Address(i))), v)
                             /\ WriteBack(i.rt, merged(v))
    BY <1>8 DEF op_merge_load
  <2>2. merged(v) \in Word
    <3>1. /\ Handler(i) \in MergeLoads /\ Committed[i.rt] \in Word /\ v \in MemData
          /\ Address(i) % 4 \in 0 .. 3
      BY <1>0, <1>1, <1>8 DEF op_merge_load
    <3> QED
      BY <3>1, MergeAssumption
  <2>3. /\ Pipeline!Transfer("read", 4, Pipeline!Cell(i), v)
        /\ Pipeline!Result(i.rt, merged(v))
    BY <1>0, <1>1, <2>1, <2>2, BusMaps, WriteBackMaps
  <2>4. i.rt # 0 => Pipeline!Arrived[i.rt] = Committed[i.rt]
    BY <1>0, ArrivedIsCommitted DEF zeroed
  <2>5. Pipeline!Result(i.rt, Merge(Handler(i), Pipeline!Arrived[i.rt], v, Address(i) % 4))
    BY <2>3, <2>4 DEF Pipeline!Result, Pipeline!Put
  <2>6. Pipeline!Read(i)
    BY <1>1, <1>4, <1>8, <2>3, <2>5 DEF op_merge_load, Pipeline!Read
  <2> QED
    BY <1>2, <1>8, <2>6 DEF op_merge_load, Pipeline!Access
<1>9. CASE op_store(i)
  <2>1. Pipeline!Transfer("write", Size(Handler(i)), Pipeline!Address(i),
                          Truncate(Handler(i), Pipeline!Operand(i.rt)))
    BY <1>0, <1>1, <1>9, BusMaps DEF op_store
  <2>2. Pipeline!Write(i)
    BY <1>3, <1>4, <1>9, <2>1 DEF op_store, Open, Pipeline!Write
  <2> QED
    BY <1>2, <1>9, <2>2 DEF op_store, Pipeline!Access
<1>10. CASE op_merge_store(i)
  <2>1. PICK v \in MemData : ReadBus(4, Physical(WordOf(Address(i))), v)
    BY <1>10 DEF op_merge_store
  <2>2. Pipeline!Transfer("read", 4, Pipeline!Cell(i), v)
    BY <1>1, <2>1, BusMaps
  <2>3. Pipeline!Read(i)
    BY <1>3, <1>4, <1>10, <2>2 DEF op_merge_store, Pipeline!Read
  <2> QED
    BY <1>2, <1>10, <2>3 DEF op_merge_store, Pipeline!Access
<1> QED
  BY <1>5, <1>6, <1>7, <1>8, <1>9, <1>10

LEMMA ControlMaps ==
  ASSUME IInv, NEW i \in Instruction,
         op_mfc0(i) \/ op_mtc0(i) \/ op_rfe(i) \/ op_cop0_nothing(i)
  PROVE  Pipeline!Control(i)
<1> USE Fields, SameHandlers, SameControl
<1>0. /\ RegsOK /\ LoadOK /\ FlowOK /\ Read(i.rt) = Pipeline!Operand(i.rt)
  BY ReadIsOperand DEF IInv
<1>1. /\ NoWriteBack => Pipeline!Nothing
      /\ NoLoad => Pipeline!Unloading
      /\ NoBus => Pipeline!Silent
      /\ Sequential => Pipeline!Proceed
  BY <1>0, NoWriteBackMaps, NoLoadMaps, BusMaps, SequentialMaps
<1>2. CASE op_mfc0(i)
  BY <1>1, <1>2, PendMaps DEF op_mfc0, Cop0Op, Rest, Pipeline!Control
<1>3. CASE op_mtc0(i)
  BY <1>0, <1>1, <1>3 DEF op_mtc0, Cop0Op, Pipeline!Control
<1>4. CASE op_rfe(i)
  BY <1>1, <1>4 DEF op_rfe, Cop0Op, IsRfe, Pipeline!Control
<1>5. CASE op_cop0_nothing(i)
  BY <1>1, <1>5 DEF op_cop0_nothing, Cop0Op, Rest, Pipeline!Control
<1> QED
  BY <1>2, <1>3, <1>4, <1>5

LEMMA ExecuteMaps ==
  ASSUME IInv, NEW i \in Instruction, Execute(i)
  PROVE  Pipeline!Execute(i) \/ Pipeline!Halt
<1>1. CASE op_fatal(i) \/ AccessFault(i) \/ BusFault(i) \/ NameFault(i)
  BY <1>1, ExitMaps DEF op_fatal, AccessFault, BusFault, NameFault
<1> QED
  BY <1>1, ComputationMaps, HiLoMaps, AdditionMaps, TrapInstructionMaps, JumpMaps,
     MemoryMaps, ControlMaps DEF Execute, Pipeline!Execute

LEMMA InitMaps == Init => Pipeline!Init
<1> SUFFICES ASSUME Init PROVE Pipeline!Init
  OBVIOUS
<1>1. [gpr EXCEPT ![0] = 0] = [r \in Reg |-> 0]
  BY DEF Init, Reg
<1> QED
  BY <1>1, SameControl
     DEF Init, Cop0Init, Idle, Pipeline!Init, Pipeline!Cop0Init, Pipeline!Idle,
         Pipeline!NoLoad, Pipeline!NoJump

LEMMA NextMaps == IInv /\ [Next]_vars => [Pipeline!Step]_Pipeline!vars
<1> SUFFICES ASSUME IInv, [Next]_vars PROVE [Pipeline!Step]_Pipeline!vars
  OBVIOUS
<1>1. CASE running /\ FetchFault
  BY <1>1, ExitMaps DEF FetchFault, Pipeline!Step
<1>2. CASE running /\ \E i \in Fetch(pc) : Execute(i)
  <2>1. Fetch(pc) \subseteq Instruction
    BY R3000Assumption DEF IInv, FlowOK
  <2> QED
    BY <1>2, <2>1, ExecuteMaps DEF Pipeline!Step
<1>3. CASE UNCHANGED vars
  BY <1>3 DEF vars, regs, flow, Pipeline!vars
<1> QED
  BY <1>1, <1>2, <1>3 DEF Next, cycle, Ended

(* The devices of r3000a.cpp give a program the pipeline it expects.       *)
THEOREM Refinement == Spec => PipelineSafety
  BY InitMaps, NextMaps, Invariance, PTL DEF Spec, PipelineSafety, Pipeline!Safety

-----------------------------------------------------------------------------
(* The mode stack.  trigger_exception ors the stack with its shifted self  *)
(* and rfe shifts it back, so that an rfe that follows an exception        *)
(* restores each bit of the current mode exactly unless the previous pair  *)
(* had the bit set and the current one did not.                            *)
THEOREM ModeRestored ==
  ASSUME NEW s \in Nat
  PROVE  LET r == Restored(EnteredStatus(s)) IN
         /\ Bit(r, 1) = Bit(s, 1) <=> (Bit(s, 4) = 1 => Bit(s, 1) = 1)
         /\ Bit(r, 2) = Bit(s, 2) <=> (Bit(s, 8) = 1 => Bit(s, 2) = 1)
<1> DEFINE b(k) == Bit(s, k)
           c == Either(b(4), b(1))
           d == Either(b(8), b(2))
           e == Either(b(16), b(4))
           f == Either(b(32), b(8))
           low == b(1) + 2 * b(2)
           r == Restored(EnteredStatus(s))
<1>1. \A k \in {1, 2, 4, 8, 16, 32} : b(k) \in {0, 1}
  BY DEF Bit
<1>2. c \in {0, 1} /\ d \in {0, 1} /\ e \in {0, 1} /\ f \in {0, 1} /\ low \in 0 .. 3
  BY <1>1 DEF Either
<1>3. EnteredStatus(s) = low + 4 * c + 8 * d + 16 * e + 32 * f
  BY <1>1, <1>2 DEF EnteredStatus
<1>4. r = c + 2 * d + 4 * e + 8 * f + 16 * e + 32 * f
  <2> HIDE DEF c, d, e, f, low
  <2>1. ASSUME NEW x, x = low + 4 * c + 8 * d + 16 * e + 32 * f
        PROVE  (x - (x % 16)) + ((x \div 4) % 16) = c + 2 * d + 4 * e + 8 * f + 16 * e + 32 * f
    BY <1>2, <2>1
  <2> QED
    BY <1>3, <2>1 DEF Restored
<1>5. Bit(r, 1) = c /\ Bit(r, 2) = d
  <2> HIDE DEF c, d, e, f, r
  <2> QED
    BY <1>2, <1>4 DEF Bit
<1> QED
  BY <1>1, <1>5 DEF Either
=============================================================================
