-------------------------- MODULE ExceptionProofs ---------------------------
(***************************************************************************)
(* Proof that the usual handler resumes what an exception interrupted, for *)
(* every program, every word width and every content of memory and of the  *)
(* control registers, wherever in the program the exception comes from.    *)
(***************************************************************************)
EXTENDS ExceptionHistory, R3000AProofs

(* The inductive invariant: where the handler is and where it has got EPC  *)
(* to, in the load delay, in its register or in next_pc.                   *)
HistoryOK == interrupted \in [at : Word, status : Word, slot : BOOLEAN, step : 0 .. 4]

Carried(r) ==
  CASE interrupted.step = 1 -> TRUE
    [] interrupted.step = 2 -> delay_reg = r /\ load_delay = cop[EPC]
    [] interrupted.step = 3 -> gpr[r] = cop[EPC]
    [] interrupted.step = 4 -> next_pc = cop[EPC]

Resuming(r) ==
  running /\ interrupted.step # 0 =>
    /\ pc = Slot(interrupted.step)
    /\ interrupted.step # 4 => ~is_branch
    /\ cop[SR] = EnteredStatus(interrupted.status)
    /\ ~interrupted.slot => cop[EPC] = interrupted.at
    /\ Carried(r)

HandlerInv(r) == IInv /\ HistoryOK /\ Resuming(r)

-----------------------------------------------------------------------------
(* The places of the handler.                                              *)
LEMMA Wrapped ==
  ASSUME NEW x \in Nat, x < 2 * WordSize
  PROVE  ToWord(x) = IF x < WordSize THEN x ELSE x - WordSize
<1>1. WordSize \in Nat /\ WordSize > 0
  BY WidthAssumption
<1>2. CASE x < WordSize
  BY <1>1, <1>2 DEF ToWord
<1>3. CASE x >= WordSize
  <2>1. x % WordSize = x - WordSize
    BY <1>1, <1>3
  <2> QED
    BY <1>1, <1>3, <2>1 DEF ToWord
<1> QED
  BY <1>1, <1>2, <1>3

LEMMA NextSlot ==
  /\ Slot(1) = RamVector
  /\ \A k \in 1 .. 3 : ToWord(Slot(k) + 4) = Slot(k + 1)
<1>1. RamVector \in Nat /\ RamVector < WordSize /\ WordSize \in Nat /\ WordSize >= 128
  BY WidthAssumption, Cop0Assumption DEF Word
<1>2. Slot(1) = RamVector
  BY <1>1, Wrapped DEF Slot
<1>3. ASSUME NEW k \in 1 .. 3 PROVE ToWord(Slot(k) + 4) = Slot(k + 1)
  <2> DEFINE x == RamVector + 4 * (k - 1)
  <2>1. x \in Nat /\ x + 4 < 2 * WordSize /\ Slot(k) = ToWord(x) /\ Slot(k + 1) = ToWord(x + 4)
    BY <1>1 DEF Slot
  <2> HIDE DEF x
  <2>2. CASE x < WordSize
    BY <1>1, <2>1, <2>2, Wrapped
  <2>3. CASE x >= WordSize
    <3>1. ToWord(x) = x - WordSize /\ ToWord(x + 4) = x + 4 - WordSize
      BY <1>1, <2>1, <2>3, Wrapped
    <3>2. ToWord(x - WordSize + 4) = x - WordSize + 4
      BY <1>1, <2>1, <2>3, Wrapped
    <3> QED
      BY <1>1, <2>1, <3>1, <3>2
  <2> QED
    BY <1>1, <2>1, <2>2, <2>3
<1> QED
  BY <1>2, <1>3

-----------------------------------------------------------------------------
(* What the instructions of the handler do, if they do not end the         *)
(* process.                                                                *)
LEMMA OnlyCop0 ==
  ASSUME NEW i, Cop0Op(i), Execute(i), ~Exit
  PROVE  op_mfc0(i) \/ op_mtc0(i) \/ op_rfe(i) \/ op_cop0_nothing(i)
<1>1. Handler(i) = "op_cop0"
  BY DEF Cop0Op
<1> QED
  BY <1>1
     DEF Execute, op_alu_register, op_alu_shift, op_alu_immediate, op_mfhi, op_mflo,
         op_mult_div, op_mthi, op_mtlo, op_add, op_addi, op_syscall, op_break, op_unusable,
         op_fatal, op_branch, op_j, op_jal, op_jr, op_jalr, op_isolated, op_load, op_lbu,
         op_merge_load, op_store, op_merge_store, AccessFault, BusFault, NameFault,
         AluRegister, AluShift, AluImmediate, MultiplyDivide, Unusable, Fatal, Branches,
         MemoryOps, DelayedLoads, MergeLoads, Stores, MergeStores

LEMMA OnlyShift ==
  ASSUME NEW i, Handler(i) = "op_sll", Execute(i), ~Exit
  PROVE  op_alu_shift(i)
  BY DEF Execute, op_alu_register, op_alu_immediate, op_mfhi, op_mflo,
         op_mult_div, op_mthi, op_mtlo, op_add, op_addi, op_syscall, op_break, op_unusable,
         op_fatal, op_branch, op_j, op_jal, op_jr, op_jalr, op_isolated, op_load, op_lbu,
         op_merge_load, op_store, op_merge_store, op_mfc0, op_mtc0, op_rfe, op_cop0_nothing,
         Cop0Op, AccessFault, BusFault, NameFault,
         AluRegister, AluShift, AluImmediate, MultiplyDivide, Unusable, Fatal, Branches,
         MemoryOps, DelayedLoads, MergeLoads, Stores, MergeStores

LEMMA OnlyJump ==
  ASSUME NEW i, Handler(i) = "op_jr", Execute(i), ~Exit
  PROVE  op_jr(i)
  BY DEF Execute, op_alu_register, op_alu_shift, op_alu_immediate, op_mfhi, op_mflo,
         op_mult_div, op_mthi, op_mtlo, op_add, op_addi, op_syscall, op_break, op_unusable,
         op_fatal, op_branch, op_j, op_jal, op_jalr, op_isolated, op_load, op_lbu,
         op_merge_load, op_store, op_merge_store, op_mfc0, op_mtc0, op_rfe, op_cop0_nothing,
         Cop0Op, AccessFault, BusFault, NameFault,
         AluRegister, AluShift, AluImmediate, MultiplyDivide, Unusable, Fatal, Branches,
         MemoryOps, DelayedLoads, MergeLoads, Stores, MergeStores

LEMMA Executes ==
  ASSUME cycle, running'
  PROVE  \E i \in Fetch(pc) : Execute(i) /\ ~Exit
  BY DEF cycle, FetchFault, Exit

LEMMA Fetched ==
  ASSUME NEW r \in 1 .. 31, HandlerInv(r), cycle, running', interrupted.step # 0
  PROVE  \E i \in HandlerAt(interrupted.step) : i \in Instruction /\ Execute(i) /\ ~Exit
<1>1. Fetch(pc) \subseteq Instruction
  BY R3000Assumption DEF HandlerInv, IInv, FlowOK
<1>2. pc = Slot(interrupted.step)
  BY DEF cycle, HandlerInv, Resuming
<1> QED
  BY <1>1, <1>2, Executes DEF HandlerAt

-----------------------------------------------------------------------------
(* Each step brings EPC one device further.                                *)
Follows == interrupted' = [interrupted EXCEPT !.step = @ + 1]

LEMMA FollowsKeeps ==
  ASSUME HistoryOK, Follows, interrupted.step \in 1 .. 3
  PROVE  /\ HistoryOK' /\ interrupted'.step = interrupted.step + 1
         /\ interrupted'.at = interrupted.at /\ interrupted'.status = interrupted.status
         /\ interrupted'.slot = interrupted.slot
  BY DEF HistoryOK, Follows

LEMMA Onward ==
  ASSUME NEW r, HandlerInv(r), running, Follows, interrupted.step \in 1 .. 3, cop' = cop,
         pc' = Slot(interrupted.step + 1), interrupted.step # 3 => ~is_branch', Carried(r)'
  PROVE  Resuming(r)'
<1>1. /\ cop[SR] = EnteredStatus(interrupted.status)
      /\ ~interrupted.slot => cop[EPC] = interrupted.at
  BY DEF HandlerInv, Resuming
<1>2. HistoryOK
  BY DEF HandlerInv
<1> QED
  BY <1>1, <1>2, FollowsKeeps DEF Resuming

LEMMA EnterStep ==
  ASSUME NEW r, HandlerInv(r), NEW ex \in ExceptionType, Trap(ex),
         interrupted' = [at |-> pc, status |-> cop[SR], slot |-> is_branch, step |-> 1]
  PROVE  HistoryOK' /\ Resuming(r)'
<1>1. pc \in Word /\ next_pc \in Word /\ is_branch \in BOOLEAN /\ cop[SR] \in Word /\ CopOK
  BY DEF HandlerInv, IInv, FlowOK, CopOK, SR, Reg
<1>2. HistoryOK'
  BY <1>1 DEF HistoryOK
<1>3. cop'[SR] = EnteredStatus(cop[SR])
  BY <1>1, ExceptionEffect DEF Trap
<1>4. pc' = Slot(1) /\ is_branch' = FALSE
  BY <1>1, <1>3, VectorIsRam, NextSlot DEF Trap
<1>5. ~is_branch => cop'[EPC] = pc
  BY EpcOfTrap DEF HandlerInv
<1> QED
  BY <1>2, <1>3, <1>4, <1>5 DEF Resuming, Carried

LEMMA FetchEpc ==
  ASSUME NEW r \in 1 .. 31, ReturnsBy(r), HandlerInv(r), cycle, running',
         interrupted.step = 1, Follows
  PROVE  Resuming(r)'
<1>1. PICK i \in HandlerAt(1) : i \in Instruction /\ Execute(i) /\ ~Exit
  BY Fetched
<1>2. op_mfc0(i) /\ i.rt = r /\ i.rd = EPC
  <2>1. Cop0Op(i) /\ i.rs = 0 /\ i.rt = r /\ i.rd = EPC
    BY <1>1 DEF ReturnsBy
  <2>2. ~op_mtc0(i) /\ ~op_rfe(i) /\ ~op_cop0_nothing(i)
    BY <2>1 DEF op_mtc0, op_rfe, IsRfe, op_cop0_nothing
  <2> QED
    BY <1>1, <2>1, <2>2, OnlyCop0
<1>3. delay_reg' = r /\ load_delay' = cop[EPC] /\ cop' = cop
  BY <1>2 DEF op_mfc0, Pend, Rest
<1>4. pc' = Slot(2) /\ is_branch' = FALSE
  <2>1. pc = Slot(1) /\ next_pc = ToWord(pc + 4)
    BY DEF HandlerInv, Resuming, IInv, FlowOK, SequentialUnlessJump, cycle
  <2> QED
    BY <1>2, <2>1, NextSlot DEF op_mfc0, Rest, Sequential
<1>5. interrupted'.step = 2 /\ running
  BY FollowsKeeps DEF HandlerInv, cycle
<1>6. Carried(r)'
  BY <1>3, <1>5 DEF Carried
<1> QED
  BY <1>3, <1>4, <1>5, <1>6, Onward

LEMMA AwaitEpc ==
  ASSUME NEW r \in 1 .. 31, ReturnsBy(r), HandlerInv(r), cycle, running',
         interrupted.step = 2, Follows
  PROVE  Resuming(r)'
<1>1. PICK i \in HandlerAt(2) : i \in Instruction /\ Execute(i) /\ ~Exit
  BY Fetched
<1>2. op_alu_shift(i) /\ i.rd = 0
  BY <1>1, OnlyShift DEF ReturnsBy
<1>3. PICK v : Compute(0, v)
  BY <1>2 DEF op_alu_shift
<1>4. gpr'[r] = cop[EPC] /\ cop' = cop
  <2>1. delay_reg = r /\ load_delay = cop[EPC] /\ gpr_delay \in [Reg -> Word]
    BY DEF HandlerInv, Resuming, Carried, cycle, IInv, RegsOK
  <2>2. gpr' = [Committed EXCEPT ![0] = v] /\ r \in Reg /\ r # 0
    BY <1>3 DEF Compute, WriteBack, Reg
  <2> QED
    BY <1>3, <2>1, <2>2 DEF Committed, Compute
<1>5. pc' = Slot(3) /\ is_branch' = FALSE
  <2>1. pc = Slot(2) /\ next_pc = ToWord(pc + 4)
    BY DEF HandlerInv, Resuming, IInv, FlowOK, SequentialUnlessJump, cycle
  <2> QED
    BY <1>3, <2>1, NextSlot DEF Compute, Sequential
<1>6. interrupted'.step = 3 /\ running
  BY FollowsKeeps DEF HandlerInv, cycle
<1>7. Carried(r)'
  BY <1>4, <1>6 DEF Carried
<1> QED
  BY <1>4, <1>5, <1>6, <1>7, Onward

LEMMA JumpToEpc ==
  ASSUME NEW r \in 1 .. 31, ReturnsBy(r), HandlerInv(r), cycle, running',
         interrupted.step = 3, Follows
  PROVE  Resuming(r)'
<1>1. PICK i \in HandlerAt(3) : i \in Instruction /\ Execute(i) /\ ~Exit
  BY Fetched
<1>2. op_jr(i) /\ i.rs = r
  BY <1>1, OnlyJump DEF ReturnsBy
<1>3. next_pc' = cop[EPC] /\ cop' = cop
  <2>1. gpr[r] = cop[EPC]
    BY DEF HandlerInv, Resuming, Carried, cycle
  <2> QED
    BY <1>2, <2>1 DEF op_jr, BranchTo, Read, Quiet
<1>4. pc' = Slot(4)
  <2>1. pc = Slot(3) /\ next_pc = ToWord(pc + 4)
    BY DEF HandlerInv, Resuming, IInv, FlowOK, SequentialUnlessJump, cycle
  <2> QED
    BY <1>2, <2>1, NextSlot DEF op_jr, BranchTo
<1>5. interrupted'.step = 4 /\ running
  BY FollowsKeeps DEF HandlerInv, cycle
<1>6. Carried(r)'
  BY <1>3, <1>5 DEF Carried
<1> QED
  BY <1>3, <1>4, <1>5, <1>6, Onward

(* The last instruction goes to EPC and pops the mode stack.               *)
LEMMA LeaveByRfe ==
  ASSUME NEW r \in 1 .. 31, ReturnsBy(r), HandlerInv(r), cycle, running',
         interrupted.step = 4
  PROVE  pc' = cop[EPC] /\ cop'[SR] = Restored(EnteredStatus(interrupted.status))
<1>1. PICK i \in HandlerAt(4) : i \in Instruction /\ Execute(i) /\ ~Exit
  BY Fetched
<1>2. op_rfe(i)
  <2>1. Cop0Op(i) /\ IsRfe(i) /\ i.rs = 16
    BY <1>1 DEF ReturnsBy, IsRfe
  <2>2. ~op_mfc0(i) /\ ~op_mtc0(i) /\ ~op_cop0_nothing(i)
    BY <2>1 DEF op_mfc0, op_mtc0, op_cop0_nothing
  <2> QED
    BY <1>1, <2>1, <2>2, OnlyCop0
<1>3. next_pc = cop[EPC] /\ cop[SR] = EnteredStatus(interrupted.status)
  BY DEF HandlerInv, Resuming, Carried, cycle
<1>4. cop \in [Reg -> Word]
  BY DEF HandlerInv, IInv, CopOK
<1> QED
  BY <1>2, <1>3, <1>4 DEF op_rfe, rfe, Sequential, SR, Reg

LEMMA InvStep ==
  ASSUME NEW r \in 1 .. 31, ReturnsBy(r), HandlerInv(r), [ExceptionNext]_exception_vars
  PROVE  HandlerInv(r)'
<1>1. IInv'
  <2>1. [Next]_vars
    BY DEF ExceptionNext, exception_vars
  <2> QED
    BY <2>1, NextInvariant DEF HandlerInv
<1>2. HistoryOK' /\ Resuming(r)'
  <2>1. CASE Enters /\ Track
    BY <2>1, EnterStep DEF Enters, Track
  <2>2. CASE Next /\ ~Enters /\ Track
    <3>1. HistoryOK'
      BY <2>2 DEF HandlerInv, HistoryOK, Track
    <3>2. CASE interrupted.step \in 1 .. 3 /\ running'
      <4>1. Follows /\ cycle
        BY <2>2, <3>2 DEF Track, Follows, Next, Ended, vars
      <4> QED
        BY <3>1, <3>2, <4>1, FetchEpc, AwaitEpc, JumpToEpc
    <3>3. CASE interrupted.step \notin 1 .. 3
      <4>1. interrupted'.step = 0
        BY <2>2, <3>3 DEF HandlerInv, HistoryOK, Track
      <4> QED
        BY <3>1, <4>1 DEF Resuming
    <3> QED
      BY <3>1, <3>2, <3>3 DEF Resuming
  <2>3. CASE UNCHANGED exception_vars
    BY <2>3 DEF exception_vars, vars, regs, flow, HandlerInv, HistoryOK, Resuming, Carried
  <2> QED
    BY <2>1, <2>2, <2>3 DEF ExceptionNext
<1> QED
  BY <1>1, <1>2 DEF HandlerInv

LEMMA InvStart == ASSUME NEW r, ExceptionInit PROVE HandlerInv(r)
<1>1. 0 \in Word
  BY WordFacts
<1> QED
  BY <1>1, InitInvariant DEF ExceptionInit, HandlerInv, HistoryOK, Resuming

-----------------------------------------------------------------------------
(* What an exception and rfe make of the current mode.                     *)
LEMMA ModeIsBits == ASSUME NEW s \in Nat PROVE Mode(s) = Bit(s, 1) + 2 * Bit(s, 2)
  BY DEF Mode, Bit

LEMMA ModeComesBack ==
  ASSUME NEW s \in Word, Recoverable(s)
  PROVE  Mode(Restored(EnteredStatus(s))) = Mode(s)
<1> DEFINE r == Restored(EnteredStatus(s))
<1>1. s \in Nat /\ r \in Nat
  <2>1. EnteredStatus(s) \in Word
    BY EnteredStatusType, WidthAssumption DEF Word
  <2> QED
    BY <2>1, RestoredType, WidthAssumption DEF Word
<1>2. Bit(r, 1) = Bit(s, 1) /\ Bit(r, 2) = Bit(s, 2)
  BY <1>1, ModeRestored DEF Recoverable
<1> HIDE DEF r
<1> QED
  BY <1>1, <1>2, ModeIsBits DEF r

(* However the program came to raise it, in whatever mode, an exception    *)
(* whose handler is the usual one is resumed where it was raised.          *)
THEOREM HandlerCorrect ==
  ASSUME UsualHandler PROVE ExceptionSpec => ResumesInterrupted
<1>1. PICK r \in 1 .. 31 : ReturnsBy(r)
  BY DEF UsualHandler
<1> DEFINE resumed ==
      running /\ running' /\ interrupted.step = 4 /\ ~interrupted.slot
        => /\ pc' = interrupted.at
           /\ Recoverable(interrupted.status)
                => Mode(cop'[SR]) = Mode(interrupted.status)
<1>2. ExceptionInit => HandlerInv(r)
  BY InvStart
<1>3. HandlerInv(r) /\ [ExceptionNext]_exception_vars => HandlerInv(r)'
  BY <1>1, InvStep
<1>4. HandlerInv(r) /\ [ExceptionNext]_exception_vars => [resumed]_exception_vars
  <2> SUFFICES ASSUME HandlerInv(r), ExceptionNext, running, running',
                      interrupted.step = 4, ~interrupted.slot
               PROVE  /\ pc' = interrupted.at
                      /\ Recoverable(interrupted.status)
                           => Mode(cop'[SR]) = Mode(interrupted.status)
    OBVIOUS
  <2>1. cycle
    BY DEF ExceptionNext, Next, Ended
  <2>2. cop[EPC] = interrupted.at /\ interrupted.status \in Word
    BY DEF HandlerInv, HistoryOK, Resuming
  <2> QED
    BY <1>1, <2>1, <2>2, LeaveByRfe, ModeComesBack
<1> QED
  BY <1>2, <1>3, <1>4, PTL DEF ExceptionSpec, ResumesInterrupted
=============================================================================
