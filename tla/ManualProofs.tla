---------------------------- MODULE ManualProofs ----------------------------
(***************************************************************************)
(* Proofs that the jumps, products, divisions and memory accesses are what *)
(* the manual says of them, for every width, program and content of the    *)
(* registers and of memory; Manual names the cases that are left out.      *)
(***************************************************************************)
EXTENDS Manual, R3000MulDiv, R3000AProofs

-----------------------------------------------------------------------------
(* Words, congruences and regions.                                         *)

LEMMA Multiple ==
  ASSUME NEW w \in Nat, w > 0, NEW p \in Int PROVE (w * p) % w = 0
<1> DEFINE x == w * p  d == x \div w  r == x % w
<1>1. x \in Int
  BY SMT
<1>2. d \in Int /\ r \in 0 .. w - 1 /\ x = w * d + r
  BY <1>1
<1> HIDE DEF d, r
<1>3. r = w * (p - d)
  BY <1>2
<1> DEFINE e == p - d
<1>4. e \in Int /\ r = w * e
  BY <1>2, <1>3
<1> HIDE DEF e
<1>5. ASSUME e >= 1 PROVE FALSE
  <2>1. w * e >= w
    BY <1>4, <1>5
  <2> QED
    BY <1>2, <1>4, <2>1
<1>6. ASSUME e <= -1 PROVE FALSE
  <2>1. w * e <= -w
    BY <1>4, <1>6
  <2> QED
    BY <1>2, <1>4, <2>1
<1>7. e = 0
  BY <1>4, <1>5, <1>6
<1>8. r = 0
  <2>1. w * 0 = 0
    BY SMT
  <2> QED
    BY <1>4, <1>7, <2>1
<1> QED
  BY <1>8 DEF r

LEMMA Remainder ==
  ASSUME NEW w \in Nat, w > 0, NEW n \in Int
  PROVE  /\ n % w \in 0 .. w - 1
         /\ (n - (n % w)) % w = 0 /\ ((n % w) - n) % w = 0
<1> DEFINE q == n \div w  r == n % w
<1>1. q \in Int /\ -q \in Int /\ r \in 0 .. w - 1 /\ n = w * q + r
  BY SMT
<1> HIDE DEF q, r
<1>2. n - r = w * q /\ r - n = w * (-q)
  BY <1>1
<1>3. (w * q) % w = 0 /\ (w * (-q)) % w = 0
  BY <1>1, Multiple
<1> QED
  BY <1>1, <1>2, <1>3 DEF r

LEMMA Wraps == ASSUME NEW n \in Int PROVE Congruent(ToWord(n), n)
<1>1. WordSize \in Nat /\ WordSize > 0
  BY WidthAssumption
<1>2. ((n % WordSize) - n) % WordSize = 0
  BY <1>1, Remainder
<1> QED
  BY <1>2 DEF Congruent, ToWord

LEMMA Shifted ==
  ASSUME NEW k \in Half, InReach(k) PROVE BranchOffset(k) = 4 * SignedHalf(k)
<1> DEFINE H == HalfSize
<1>1. H \in Nat /\ H > 1 /\ H % 2 = 0 /\ k \in Int /\ k >= 0 /\ k < H
  BY WidthAssumption DEF Half
<1>2. PICK m \in Int : H = 2 * m
  BY <1>1
<1>3. H \div 2 = m
  BY <1>1, <1>2
<1>4. CASE k < m
  <2>1. SignedHalf(k) = k /\ 4 * k < m
    BY <1>1, <1>2, <1>3, <1>4 DEF SignedHalf, InReach
  <2>2. (k * 4) % H = k * 4
    BY <1>1, <1>2, <2>1
  <2> QED
    BY <1>1, <1>2, <1>3, <2>1, <2>2 DEF BranchOffset, SignedHalf
<1>5. CASE k >= m
  <2>1. SignedHalf(k) = k - H /\ 4 * (k - H) >= -m
    BY <1>1, <1>2, <1>3, <1>5 DEF SignedHalf, InReach
  <2>2. 4 * k = (4 * k - 3 * H) + 3 * H /\ 4 * k - 3 * H >= 0 /\ 4 * k - 3 * H < H
    BY <1>1, <1>2, <2>1
  <2>3. (k * 4) % H = 4 * k - 3 * H
    BY <1>1, <2>2
  <2> QED
    BY <1>1, <1>2, <1>3, <2>1, <2>2, <2>3 DEF BranchOffset, SignedHalf
<1> QED
  BY <1>1, <1>2, <1>4, <1>5

LEMMA BranchLands ==
  ASSUME NEW s \in Word, NEW k \in Half, InReach(k)
  PROVE  Congruent(BranchTarget(s, k), s + 4 * SignedHalf(k))
<1>1. BranchOffset(k) = 4 * SignedHalf(k)
  BY Shifted
<1>2. s + 4 * SignedHalf(k) \in Int
  BY WordFacts, SignedHalfType
<1> QED
  BY <1>1, <1>2, Wraps DEF BranchTarget

LEMMA JumpLands ==
  ASSUME NEW s \in Word, NEW t \in 0 .. (Region \div 4) - 1
  PROVE  LET to == JumpTarget(s, t) IN to \div Region = s \div Region /\ to % Region = 4 * t
<1> DEFINE R == Region  W == WordSize  q == s \div R
<1>1. /\ R \in Nat /\ R >= 4 /\ R % 4 = 0 /\ W \in Nat /\ W % R = 0
      /\ s \in Nat /\ s < W
  BY WidthAssumption DEF Word
<1>2. q \in Nat /\ s = R * q + (s % R) /\ s % R \in 0 .. R - 1
  BY <1>1
<1>3. 4 * t \in 0 .. R - 1
  BY <1>1
<1>4. PICK n \in Nat : W = R * n
  <2>1. W = R * (W \div R) /\ W \div R \in Nat
    BY <1>1
  <2> QED
    BY <2>1
<1> HIDE DEF q
<1>5. q < n
  BY <1>1, <1>2, <1>4
<1>6. R * q + R <= R * n
  <2>1. q + 1 <= n
    BY <1>2, <1>4, <1>5
  <2>2. R * (q + 1) <= R * n
    BY <1>1, <1>2, <1>4, <2>1
  <2> QED
    BY <1>1, <1>2, <2>2
<1> DEFINE x == R * q + 4 * t
<1>7. x \in Nat /\ x < W /\ s - (s % R) + t * 4 = x
  <2>1. R * q \in Nat /\ x \in Nat
    BY <1>1, <1>2, <1>3
  <2>2. x < R * q + R
    BY <1>1, <1>3, <2>1
  <2>3. x < W
    BY <1>4, <1>6, <2>1, <2>2, <1>1
  <2>4. s - (s % R) = R * q
    BY <1>1, <1>2, <2>1
  <2> QED
    BY <1>3, <2>1, <2>3, <2>4
<1>8. JumpTarget(s, t) = x
  BY <1>1, <1>7 DEF JumpTarget, ToWord
<1>9. x \div R = q /\ x % R = 4 * t
  BY <1>1, <1>2, <1>3
<1> QED
  BY <1>8, <1>9 DEF q
(* The window a virtual address is in.                                     *)
LEMMA PhysicalNames == ASSUME NEW a \in Word PROVE Names(a, Physical(a))
<1> DEFINE W == WordSize
<1>1. W \in Nat /\ W > 0 /\ W % 8 = 0 /\ a \in Nat /\ a < W
  BY WidthAssumption DEF Word
<1>2. PICK m \in Nat : W = 8 * m
  <2>1. W = 8 * (W \div 8) /\ W \div 8 \in Nat
    BY <1>1
  <2> QED
    BY <2>1
<1>3. m > 0 /\ W \div 2 = 4 * m /\ W \div 8 = m
  BY <1>1, <1>2
<1> DEFINE s == (8 * a) \div W
<1>4. s \in Nat /\ W * s <= 8 * a /\ 8 * a < W * s + W
  BY <1>1
<1> HIDE DEF s
<1>5. m * s <= a /\ a < m * s + m
  BY <1>1, <1>2, <1>3, <1>4
<1>6. CASE s = 4
  <2>1. 4 * m <= a /\ a < 5 * m
    BY <1>1, <1>2, <1>5, <1>6
  <2>2. a % (4 * m) = a - 4 * m /\ a % m = a - 4 * m
    BY <1>1, <1>3, <2>1
  <2> QED
    BY <1>1, <1>2, <1>3, <1>6, <2>1, <2>2 DEF s, Physical, Names
<1>7. CASE s = 5
  <2>1. 5 * m <= a /\ a < 6 * m
    BY <1>1, <1>2, <1>5, <1>7
  <2> QED
    BY <1>1, <1>2, <1>3, <1>7, <2>1 DEF s, Physical, Names
<1>8. CASE s \notin {4, 5}
  <2>1. a < 4 * m \/ a >= 6 * m
    <3>1. CASE s <= 3
      <4>1. m * s <= m * 3
        BY <1>3, <1>4, <3>1
      <4> QED
        BY <1>1, <1>3, <1>4, <1>5, <4>1
    <3>2. CASE s >= 6
      <4>1. m * s >= m * 6
        BY <1>3, <1>4, <3>2
      <4> QED
        BY <1>1, <1>3, <1>4, <1>5, <4>1
    <3> QED
      BY <1>4, <1>8, <3>1, <3>2
  <2> QED
    BY <1>1, <1>2, <1>3, <1>8, <2>1 DEF s, Physical, Names
<1> QED
  BY <1>6, <1>7, <1>8

LEMMA Spans ==
  /\ ByteSize \in Nat /\ ByteSize > 0 /\ HalfSize \in Nat /\ HalfSize > 0
  /\ WordSize \in Nat /\ WordSize > 0
  BY WidthAssumption

LEMMA TruncateMeets ==
  ASSUME NEW h \in Stores, NEW w \in Word
  PROVE  LET n == Span(Size(h)) IN Truncate(h, w) < n /\ (w - Truncate(h, w)) % n = 0
<1>0. w \in Int /\ w \in 0 .. WordSize - 1
  BY WordFacts DEF Word
<1>1. CASE h = "op_sb"
  <2>1. Span(Size(h)) = ByteSize /\ Truncate(h, w) = w % ByteSize
    BY <1>1 DEF Span, Size, Truncate
  <2> QED
    BY <1>0, <2>1, Spans, Remainder
<1>2. CASE h = "op_sh"
  <2>1. Span(Size(h)) = HalfSize /\ Truncate(h, w) = w % HalfSize
    BY <1>2 DEF Span, Size, Truncate
  <2> QED
    BY <1>0, <2>1, Spans, Remainder
<1>3. CASE h = "op_sw"
  <2>1. Span(Size(h)) = WordSize /\ Truncate(h, w) = w
    BY <1>3 DEF Span, Size, Truncate
  <2> QED
    BY <1>0, <2>1, Spans
<1> QED
  BY <1>1, <1>2, <1>3 DEF Stores

LEMMA ExtendMeets ==
  ASSUME NEW h \in DelayedLoads \cup {"op_lbu"}, NEW v \in Word
  PROVE  LowPart(h, v, Extend(h, v)) /\ (h # "op_lb" => Extended(h, v, Extend(h, v)))
<1> USE DEF LowPart
<1> DEFINE r == Extend(h, v)
<1>0. v \in Int /\ v \in 0 .. WordSize - 1
  BY WordFacts DEF Word
<1>1. CASE h \in {"op_lb", "op_lbu"}
  <2>1. Span(Size(h)) = ByteSize /\ r = v % ByteSize
    BY <1>1 DEF Span, Size, Extend
  <2> HIDE DEF r
  <2>2. (r - v) % ByteSize = 0 /\ r < ByteSize
    <3>1. v % ByteSize \in 0 .. ByteSize - 1 /\ ((v % ByteSize) - v) % ByteSize = 0
      BY <1>0, Spans, Remainder
    <3> QED
      BY <2>1, <3>1, Spans
  <2> QED
    BY <1>1, <2>1, <2>2 DEF Extended, r
<1>2. CASE h = "op_lhu"
  <2>1. Span(Size(h)) = HalfSize /\ r = v % HalfSize
    BY <1>2 DEF Span, Size, Extend
  <2> HIDE DEF r
  <2>2. (r - v) % HalfSize = 0 /\ r < HalfSize
    <3>1. v % HalfSize \in 0 .. HalfSize - 1 /\ ((v % HalfSize) - v) % HalfSize = 0
      BY <1>0, Spans, Remainder
    <3> QED
      BY <2>1, <3>1, Spans
  <2> QED
    BY <1>2, <2>1, <2>2 DEF Extended, r
<1>3. CASE h = "op_lw"
  <2>1. Span(Size(h)) = WordSize /\ r = v
    BY <1>3 DEF Span, Size, Extend
  <2>2. (v - v) % WordSize = 0
    BY <1>0, Spans
  <2> QED
    BY <1>0, <1>3, <2>1, <2>2, Spans DEF Extended
<1>4. CASE h = "op_lh"
  <2> DEFINE H == HalfSize  W == WordSize  u == v % H
  <2>1. Span(Size(h)) = H /\ r = ToWord(SignedHalf(u))
    BY <1>4 DEF Span, Size, Extend
  <2>2. u \in 0 .. H - 1 /\ (u - v) % H = 0
    BY <1>0, Spans, Remainder
  <2>3. H \in Nat /\ H % 2 = 0 /\ W \in Nat /\ W >= 2 * H /\ W % H = 0 /\ H > 0
    BY WidthAssumption
  <2> HIDE DEF u, r
  <2>4. u \in Int /\ u >= 0 /\ u < H
    BY <2>2, <2>3
  <2>5. CASE 2 * u >= H
    <3>1. SignedHalf(u) = u - H
      BY <2>3, <2>4, <2>5 DEF SignedHalf
    <3>2. (u - H) % W = W + u - H
      BY <2>3, <2>4
    <3>3. r = W + u - H
      BY <2>1, <3>1, <3>2 DEF ToWord
    <3>4. (r - v) % H = 0
      <4>1. PICK k \in Int : W = H * k
        <5>1. W = H * (W \div H) /\ W \div H \in Int
          BY <2>3
        <5> QED
          BY <5>1
      <4> DEFINE j == (u - v) \div H
      <4>2. j \in Int /\ u - v = H * j
        BY <1>0, <2>2, <2>3, <2>4
      <4> HIDE DEF j
      <4>3. r - v = H * (k + j - 1) /\ k + j - 1 \in Int
        BY <1>0, <2>3, <2>4, <3>3, <4>1, <4>2
      <4> QED
        BY <2>3, <4>3, Multiple
    <3>5. 2 * r >= 2 * W - H
      BY <2>3, <2>4, <2>5, <3>3
    <3> QED
      BY <1>4, <2>1, <2>5, <3>4, <3>5 DEF Extended, r, u
  <2>6. CASE ~(2 * u >= H)
    <3>1. SignedHalf(u) = u
      BY <2>3, <2>4, <2>6 DEF SignedHalf
    <3>2. u % W = u
      BY <2>3, <2>4
    <3>3. r = u
      BY <2>1, <3>1, <3>2 DEF ToWord
    <3> QED
      BY <1>4, <2>1, <2>2, <2>4, <2>6, <3>3 DEF Extended, r, u
  <2> QED
    BY <2>5, <2>6
<1> QED
  BY <1>1, <1>2, <1>3, <1>4 DEF DelayedLoads

-----------------------------------------------------------------------------
(* Which action a handler that jumps or accesses memory belongs to.        *)
Elsewhere == Branches \cup Jumps \cup MemoryOps \cup MultiplyDivide

LEMMA OtherHandlers ==
  /\ AluRegister \cap Elsewhere = {} /\ AluShift \cap Elsewhere = {}
  /\ AluImmediate \cap Elsewhere = {}
  /\ Unusable \cap Elsewhere = {} /\ Fatal \cap Elsewhere = {}
  /\ \A h \in { "op_mfhi", "op_mflo", "op_mthi", "op_mtlo", "op_add", "op_addi", "op_syscall",
                 "op_break", "op_cop0" } : h \notin Elsewhere
BY DEF Elsewhere, Jumps, MemoryOps, DelayedLoads, MergeLoads, Stores, MergeStores, AluRegister,
       AluShift, AluImmediate, MultiplyDivide, Branches, Unusable, Fatal

LEMMA Dispatched ==
  ASSUME NEW i, Execute(i), running', Handler(i) \in Elsewhere
  PROVE  \/ op_branch(i) \/ op_j(i) \/ op_jal(i) \/ op_jr(i) \/ op_jalr(i)
         \/ op_isolated(i) \/ op_load(i) \/ op_lbu(i) \/ op_merge_load(i)
         \/ op_store(i) \/ op_merge_store(i) \/ op_mult_div(i)
<1>1. ~Exit
  BY DEF Exit
<1>2. ~op_alu_register(i) /\ ~op_alu_shift(i) /\ ~op_alu_immediate(i)
  BY OtherHandlers DEF op_alu_register, op_alu_shift, op_alu_immediate
<1>3. ~op_mfhi(i) /\ ~op_mflo(i) /\ ~op_mthi(i) /\ ~op_mtlo(i) /\ ~op_add(i) /\ ~op_addi(i)
  BY OtherHandlers DEF op_mfhi, op_mflo, op_mthi, op_mtlo, op_add, op_addi
<1>4. ~op_syscall(i) /\ ~op_break(i) /\ ~op_unusable(i) /\ ~op_fatal(i)
  BY OtherHandlers DEF op_syscall, op_break, op_unusable, op_fatal
<1>5. ~op_mfc0(i) /\ ~op_mtc0(i) /\ ~op_rfe(i) /\ ~op_cop0_nothing(i)
  BY OtherHandlers DEF op_mfc0, op_mtc0, op_rfe, op_cop0_nothing, Cop0Op
<1>6. ~AccessFault(i) /\ ~BusFault(i) /\ ~NameFault(i)
  BY <1>1 DEF AccessFault, BusFault, NameFault
<1> QED
  BY <1>2, <1>3, <1>4, <1>5, <1>6 DEF Execute

LEMMA Families ==
  /\ (Branches \cup Jumps) \cap MemoryOps = {}
  /\ (Branches \cup Jumps \cup MemoryOps) \cap MultiplyDivide = {} /\ Branches \cap Jumps = {}
  /\ "op_bcondz" \in Branches /\ DelayedLoads \cap Stores = {}
  /\ "op_lbu" \notin DelayedLoads \cup Stores \cup MergeLoads \cup MergeStores
  /\ (MergeLoads \cup MergeStores) \cap (DelayedLoads \cup Stores) = {}
  /\ Jumps = {"op_j", "op_jal", "op_jr", "op_jalr"}
BY DEF Jumps, MemoryOps, DelayedLoads, MergeLoads, Stores, MergeStores, Branches,
       MultiplyDivide

-----------------------------------------------------------------------------
(* Jumps.                                                                  *)

(* A branch goes exactly on its condition and links where it is named so.  *)
LEMMA BranchGoes ==
  ASSUME NEW i \in Instruction, Named(i), NEW a \in Word, NEW b \in Word
  PROVE  (Taken(i, a, b) <=> Goes(i, a, b)) /\ (Links(i) <=> Linking(i))
<1> DEFINE h == Handler(i)
<1>1. a \in Nat /\ a < WordSize /\ WordSize \in Nat /\ WordSize % 2 = 0
  BY WidthAssumption DEF Word
<1>2. /\ Negative(a) <=> SignedWord(a) < 0
      /\ a # 0 /\ ~Negative(a) <=> SignedWord(a) > 0
  BY <1>1 DEF Negative, SignedWord
<1>3. h \in {"op_beq", "op_bne", "op_bgtz", "op_bcondz"}
  BY DEF Named, Branches
<1>4. h = "op_bcondz" => i.rt \in {0, 1, 16, 17}
  BY DEF Named
<1>5. ~Negative(a) <=> SignedWord(a) >= 0
  BY <1>1 DEF Negative, SignedWord
<1>6. CASE h = "op_bcondz"
  <2>1. i.rt \in {0, 16} <=> i.rt % 2 # 1
    BY <1>4, <1>6
  <2>2. i.rt \div 2 = 8 <=> i.rt \in {16, 17}
    BY <1>4, <1>6
  <2>3. Taken(i, a, b) <=> (Negative(a) # ((i.rt % 2) = 1))
    BY <1>6 DEF Taken
  <2>4. Goes(i, a, b) <=> IF i.rt \in {0, 16} THEN SignedWord(a) < 0 ELSE SignedWord(a) >= 0
    BY <1>6 DEF Goes
  <2>5. Negative(a) \in BOOLEAN
    BY <1>1 DEF Negative
  <2>6. Taken(i, a, b) <=> Goes(i, a, b)
    BY <1>2, <1>5, <2>1, <2>3, <2>4, <2>5
  <2> QED
    BY <1>6, <2>2, <2>6 DEF Links, Linking
<1>7. CASE h # "op_bcondz"
  <2>1. Taken(i, a, b) <=> Goes(i, a, b)
    BY <1>2, <1>3, <1>7 DEF Taken, Goes
  <2> QED
    BY <1>3, <1>7, <2>1 DEF Links, Linking
<1> QED
  BY <1>6, <1>7

LEMMA Linked ==
  ASSUME RegsOK, LoadOK, NEW v, WriteBack(31, v) PROVE gpr'[31] = v
<1>1. Committed \in [Reg -> Word] /\ 31 \in Reg
  BY CommittedType DEF Reg
<1> QED
  BY <1>1 DEF WriteBack

LEMMA JumpsMeet ==
  ASSUME IInv, NEW i \in Instruction, Execute(i), running' PROVE JumpMeets(i)
<1> USE Fields
<1> DEFINE h == Handler(i)  slot == next_pc  to == next_pc'
<1>0. /\ Read(i.rs) \in Word /\ Read(i.rt) \in Word /\ slot \in Word /\ slot + 4 \in Int
      /\ RegsOK /\ LoadOK /\ i.target \in 0 .. (Region \div 4) - 1
  <2>1. RegsOK /\ LoadOK /\ slot \in Word
    BY DEF IInv, FlowOK
  <2>2. i.target \in 0 .. (Region \div 4) - 1
    BY DEF Instruction
  <2>3. slot + 4 \in Int
    BY <2>1, WordFacts
  <2> QED
    BY <2>1, <2>2, <2>3, ReadType
<1>1. Congruent(ToWord(slot + 4), slot + 4)
  BY <1>0, Wraps
<1>2. CASE h \notin Branches \cup Jumps
  BY <1>2, Families DEF JumpMeets, Named, Linking
<1>3. CASE op_branch(i)
  <2>1. h \in Branches /\ h \notin Jumps
    BY <1>3, Families DEF op_branch
  <2>2. pc' = slot
    BY <1>3 DEF op_branch, BranchTo, Sequential
  <2>3. ASSUME Linking(i) PROVE Congruent(gpr'[31], slot + 4)
    <3>1. h = "op_bcondz" /\ i.rt \in {16, 17}
      BY <2>1, <2>3, Families DEF Linking
    <3>2. Links(i)
      BY <3>1 DEF Links
    <3>3. gpr'[31] = ToWord(slot + 4)
      BY <1>0, <1>3, <3>2, Linked DEF op_branch
    <3> QED
      BY <1>1, <3>3
  <2>4. ASSUME Named(i), Goes(i, Read(i.rs), Read(i.rt)), InReach(i.imm)
        PROVE  Congruent(to, slot + 4 * SignedHalf(i.imm))
    <3>1. Taken(i, Read(i.rs), Read(i.rt))
      BY <1>0, <2>4, BranchGoes
    <3>2. to = BranchTarget(slot, i.imm)
      BY <1>3, <3>1 DEF op_branch, BranchTo
    <3> QED
      BY <1>0, <2>4, <3>2, BranchLands
  <2>5. ASSUME Named(i), ~Goes(i, Read(i.rs), Read(i.rt)) PROVE Congruent(to, slot + 4)
    <3>1. ~Taken(i, Read(i.rs), Read(i.rt))
      BY <1>0, <2>5, BranchGoes
    <3>2. to = ToWord(slot + 4)
      BY <1>3, <3>1 DEF op_branch, Sequential
    <3> QED
      BY <1>1, <3>2
  <2> QED
    BY <2>1, <2>2, <2>3, <2>4, <2>5, Families DEF JumpMeets
<1>4. CASE op_j(i) \/ op_jal(i)
  <2>1. h \in {"op_j", "op_jal"} /\ pc' = slot /\ to = JumpTarget(slot, i.target)
    BY <1>4 DEF op_j, op_jal, BranchTo
  <2>2. to \div Region = slot \div Region /\ to % Region = 4 * i.target
    BY <1>0, <2>1, JumpLands
  <2>3. ASSUME h = "op_jal" PROVE gpr'[31] = ToWord(slot + 4)
    <3>1. op_jal(i)
      BY <1>4, <2>3 DEF op_j
    <3> QED
      BY <1>0, <3>1, Linked DEF op_jal
  <2>4. Linking(i) => h = "op_jal"
    BY <2>1 DEF Linking
  <2>5. ~Named(i)
    BY <2>1, Families DEF Named
  <2> QED
    BY <1>1, <2>1, <2>2, <2>3, <2>4, <2>5 DEF JumpMeets
<1>5. CASE op_jr(i) \/ op_jalr(i)
  <2>1. h \in {"op_jr", "op_jalr"} /\ pc' = slot /\ to = Read(i.rs)
    BY <1>5 DEF op_jr, op_jalr, BranchTo
  <2>2. ASSUME h = "op_jalr" PROVE gpr'[31] = ToWord(slot + 4)
    <3>1. op_jalr(i)
      BY <1>5, <2>2 DEF op_jr
    <3> QED
      BY <1>0, <3>1, Linked DEF op_jalr
  <2>3. Linking(i) => h = "op_jalr"
    BY <2>1 DEF Linking
  <2>4. ~Named(i)
    BY <2>1, Families DEF Named
  <2> QED
    BY <1>1, <2>1, <2>2, <2>3, <2>4 DEF JumpMeets
<1>6. ASSUME h \in Branches \cup Jumps
      PROVE  op_branch(i) \/ op_j(i) \/ op_jal(i) \/ op_jr(i) \/ op_jalr(i)
  <2>1. h \notin MemoryOps /\ h \notin MultiplyDivide /\ h \in Elsewhere
    BY <1>6, Families DEF Elsewhere
  <2>2. /\ ~op_isolated(i) /\ ~op_load(i) /\ ~op_lbu(i) /\ ~op_merge_load(i)
        /\ ~op_store(i) /\ ~op_merge_store(i) /\ ~op_mult_div(i)
    BY <2>1 DEF op_mult_div, op_isolated, op_load, op_lbu, op_merge_load, op_store, op_merge_store,
                MemoryOps
  <2> QED
    BY <2>1, <2>2, Dispatched
<1> QED
  BY <1>2, <1>3, <1>4, <1>5, <1>6

-----------------------------------------------------------------------------
(* Memory.                                                                 *)

LEMMA Cell ==
  ASSUME RegsOK, NEW i \in Instruction
  PROVE  /\ Address(i) = Target(i)
         /\ Names(Address(i), Physical(Address(i)))
         /\ Names(Address(i) - (Address(i) % 4), Physical(WordOf(Address(i))))
<1>1. Address(i) \in Word
  BY Fields, ReadType, VAddrType DEF Address
<1>2. WordOf(Address(i)) \in Word
  BY <1>1, CellType DEF WordOf
<1> QED
  BY <1>1, <1>2, PhysicalNames DEF Address, Target, VAddr, WordOf

LEMMA MemoryMeetsStep ==
  ASSUME IInv, NEW i \in Instruction, Execute(i), running', Handler(i) \in MemoryOps
  PROVE  MemoryMeets(i)
<1> USE Fields
<1> DEFINE h == Handler(i)
<1>0. RegsOK /\ LoadOK /\ Committed \in [Reg -> Word] /\ Read(i.rt) \in Word
  BY CommittedType, ReadType DEF IInv
<1>1. CASE op_isolated(i)
  BY <1>1 DEF op_isolated, NoBus, Idle, MemoryMeets
<1>2. CASE op_load(i)
  <2>1. PICK v \in MemData : /\ ReadBus(Size(h), Physical(Address(i)), v)
                             /\ Pend(i.rt, Extend(h, v))
    BY <1>2 DEF op_load
  <2>2. bus'.op = "read" /\ bus'.addr = Physical(Address(i)) /\ bus'.val = v
    BY <2>1 DEF ReadBus
  <2>3. h \in DelayedLoads /\ h \notin Stores \cup MergeLoads \cup MergeStores /\ h # "op_lbu"
    BY <1>2, Families DEF op_load
  <2>4. LowPart(h, v, Extend(h, v)) /\ (h # "op_lb" => Extended(h, v, Extend(h, v)))
    BY <2>3, R3000Assumption, ExtendMeets
  <2>5. delay_reg' = i.rt /\ load_delay' = Extend(h, v)
    BY <2>1 DEF Pend
  <2> QED
    BY <1>0, <2>2, <2>3, <2>4, <2>5, Cell DEF MemoryMeets
<1>3. CASE op_lbu(i)
  <2>1. PICK v \in MemData : /\ ReadBus(1, Physical(Address(i)), v)
                             /\ WriteBack(i.rt, Extend("op_lbu", v))
    BY <1>3 DEF op_lbu
  <2>2. bus'.op = "read" /\ bus'.addr = Physical(Address(i)) /\ bus'.val = v
    BY <2>1 DEF ReadBus
  <2>3. /\ h = "op_lbu" /\ h \notin DelayedLoads
        /\ h \notin Stores \cup MergeLoads \cup MergeStores
    BY <1>3, Families DEF op_lbu
  <2>4. Extended(h, v, Extend(h, v))
    BY <2>3, R3000Assumption, ExtendMeets
  <2>5. gpr'[i.rt] = Extend(h, v)
    BY <1>0, <2>1, <2>3 DEF WriteBack
  <2> QED
    BY <1>0, <2>2, <2>3, <2>4, <2>5, Cell DEF MemoryMeets
<1>4. CASE op_merge_load(i) \/ op_merge_store(i)
  <2>1. \E v \in MemData : ReadBus(4, Physical(WordOf(Address(i))), v)
    BY <1>4 DEF op_merge_load, op_merge_store
  <2>2. bus'.op = "read" /\ bus'.addr = Physical(WordOf(Address(i)))
    BY <2>1 DEF ReadBus
  <2>3. h \in MergeLoads \cup MergeStores
    BY <1>4 DEF op_merge_load, op_merge_store
  <2>4. h \notin DelayedLoads \cup Stores /\ h # "op_lbu"
    BY <2>3, Families
  <2> QED
    BY <1>0, <2>2, <2>3, <2>4, Cell DEF MemoryMeets
<1>5. CASE op_store(i)
  <2>1. h \in Stores /\ h \notin DelayedLoads \cup MergeLoads \cup MergeStores /\ h # "op_lbu"
    BY <1>5, Families DEF op_store
  <2>2. /\ bus'.op = "write" /\ bus'.addr = Physical(Address(i)) /\ bus'.size = Size(h)
        /\ bus'.val = Truncate(h, Read(i.rt)) /\ ~Isolated
    BY <1>5 DEF op_store, WriteBus, Open
  <2>3. /\ bus'.val < Span(bus'.size)
        /\ (Read(i.rt) - bus'.val) % Span(bus'.size) = 0
    BY <1>0, <2>1, <2>2, TruncateMeets
  <2> QED
    BY <1>0, <2>1, <2>2, <2>3, Cell DEF MemoryMeets
<1>6. h \in Elsewhere /\ h \notin Branches \cup Jumps \cup MultiplyDivide
  BY Families DEF Elsewhere
<1>7. ~op_branch(i) /\ ~op_j(i) /\ ~op_jal(i) /\ ~op_jr(i) /\ ~op_jalr(i) /\ ~op_mult_div(i)
  BY <1>6, Families DEF op_mult_div, op_branch, op_j, op_jal, op_jr, op_jalr
<1> QED
  BY <1>1, <1>2, <1>3, <1>4, <1>5, <1>6, <1>7, Dispatched

-----------------------------------------------------------------------------
(* Products and division.                                                  *)

LEMMA SignedFacts ==
  ASSUME NEW w \in Word
  PROVE  /\ Signed(w) = SignedWord(w) /\ SignedWord(w) \in Int
         /\ -WordSize <= 2 * SignedWord(w) /\ 2 * SignedWord(w) < WordSize
  BY WidthAssumption DEF Word, Signed, Negative, SignedWord

LEMMA SignedOfWord ==
  ASSUME NEW z \in Int, -WordSize <= 2 * z, 2 * z < WordSize
  PROVE  ToWord(z) \in Word /\ SignedWord(ToWord(z)) = z
<1>1. WordSize \in Nat /\ WordSize > 0
  BY WidthAssumption
<1>2. CASE z >= 0
  <2>1. z % WordSize = z
    BY <1>1, <1>2
  <2> QED
    BY <1>1, <1>2, <2>1 DEF ToWord, SignedWord, Word
<1>3. CASE z < 0
  <2>1. z % WordSize = z + WordSize
    BY <1>1, <1>3
  <2> QED
    BY <1>1, <1>3, <2>1 DEF ToWord, SignedWord, Word
<1> QED
  BY <1>2, <1>3

LEMMA NaturalQuotient ==
  ASSUME NEW x \in Nat, NEW y \in Nat, y > 0
  PROVE  LET q == x \div y IN
         /\ q \in Nat /\ q <= x /\ (y >= 2 => 2 * q <= x)
         /\ x - y * q \in 0 .. y - 1
<1> DEFINE q == x \div y  r == x % y
<1>1. q \in Nat /\ r \in 0 .. y - 1 /\ x = y * q + r
  BY SMT
<1> HIDE DEF q, r
<1>2. y * q >= q
  BY <1>1
<1>3. y >= 2 => y * q >= 2 * q
  BY <1>1
<1>4. y * q \in Nat
  BY <1>1
<1> QED
  BY <1>1, <1>2, <1>3, <1>4 DEF q

(* C's quotient and what it leaves.                                        *)
LEMMA QuotientMeets ==
  ASSUME NEW n \in Int, NEW d \in Int, d # 0
  PROVE  LET q == Quotient(n, d)  m == n - d * q IN
         /\ q \in Int /\ m \in Int
         /\ Magnitude(m) < Magnitude(d) /\ (m = 0 \/ (m < 0) = (n < 0))
         /\ Magnitude(q) <= Magnitude(n)
         /\ d \notin {1, -1} => 2 * Magnitude(q) <= Magnitude(n)
         /\ d = 1 => q = n
<1> DEFINE x == Abs(n)  y == Abs(d)  p == x \div y  q == Quotient(n, d)  m == n - d * q
<1>1. x \in Nat /\ y \in Nat /\ y > 0 /\ x = Magnitude(n) /\ y = Magnitude(d)
  BY DEF Abs, Magnitude
<1>2. /\ p \in Nat /\ p <= x /\ (y >= 2 => 2 * p <= x) /\ x - y * p \in 0 .. y - 1
  BY <1>1, NaturalQuotient
<1>3. q = (IF (n < 0) = (d < 0) THEN 1 ELSE -1) * p
  BY DEF Quotient
<1> HIDE DEF p
<1>4. q = IF (n < 0) = (d < 0) THEN p ELSE -p
  BY <1>2, <1>3
<1>5. d * q = IF n < 0 THEN -(y * p) ELSE y * p
  <2>1. CASE d < 0
    <3>1. y = -d /\ y * p = -(d * p)
      BY <1>2, <2>1 DEF Abs
    <3>2. d * (-p) = -(d * p)
      BY <1>2
    <3> QED
      BY <1>2, <1>4, <2>1, <3>1, <3>2
  <2>2. CASE ~(d < 0)
    <3>1. y = d
      BY <2>2 DEF Abs
    <3>2. d * (-p) = -(d * p)
      BY <1>2
    <3> QED
      BY <1>2, <1>4, <2>2, <3>1, <3>2
  <2> QED
    BY <2>1, <2>2
<1>6. n = IF n < 0 THEN -x ELSE x
  BY DEF Abs
<1> DEFINE r == x - y * p
<1>7. m = IF n < 0 THEN -r ELSE r
  <2>1. y * p \in Int
    BY <1>1, <1>2
  <2> QED
    BY <1>1, <1>5, <1>6, <2>1
<1>8. r \in Int /\ r >= 0 /\ r < y
  BY <1>1, <1>2
<1>9. q \in Int /\ Magnitude(q) = p
  BY <1>2, <1>4 DEF Magnitude
<1>10. d \notin {1, -1} => y >= 2
  BY DEF Abs
<1>11. d = 1 => q = n
  <2> SUFFICES ASSUME d = 1 PROVE q = n
    OBVIOUS
  <2>1. p = x
    BY <1>1, <1>2 DEF Abs
  <2> QED
    BY <1>4, <1>6, <2>1
<1> HIDE DEF q, r, x, y
<1>12. m \in Int /\ Magnitude(m) < y /\ (m = 0 \/ (m < 0) = (n < 0))
  BY <1>7, <1>8 DEF Magnitude
<1> QED
  BY <1>1, <1>2, <1>9, <1>10, <1>11, <1>12 DEF q

(* MulDiv is what the four handlers compute.                               *)
MultiplyUnit ==
  \A h \in MultiplyDivide, a, b \in Word : MulDiv(h, a, b) = MulDivOf(h, a, b)

LEMMA DivisionMeets ==
  ASSUME NEW a \in Word, NEW b \in Word, SignedWord(b) # 0
  PROVE  LET r == MulDivOf("op_div", a, b)  n == SignedWord(a)  d == SignedWord(b)
             m == SignedWord(r[1])  q == SignedWord(r[2])
         IN  /\ Congruent(n, d * q + m) /\ Magnitude(m) < Magnitude(d)
             /\ m = 0 \/ (m < 0) = (n < 0)
<1> DEFINE W == WordSize  n == SignedWord(a)  d == SignedWord(b)
           k == Quotient(n, d)  l == n - d * k
<1>1. /\ Signed(a) = n /\ Signed(b) = d /\ n \in Int /\ d \in Int
      /\ -W <= 2 * n /\ 2 * n < W /\ -W <= 2 * d /\ 2 * d < W
  BY SignedFacts
<1>2. W \in Nat /\ W >= 128 /\ W % 2 = 0 /\ a \in Nat /\ a < W
  BY WidthAssumption DEF Word
<1>3. CASE a = W \div 2 /\ d = -1
  <2>1. MulDivOf("op_div", a, b) = << 0, W \div 2 >>
    BY <1>1, <1>3 DEF MulDivOf
  <2>2. n = -a /\ 2 * a = W /\ SignedWord(W \div 2) = -a /\ SignedWord(0) = 0
    BY <1>2, <1>3 DEF SignedWord
  <2>3. Congruent(-a, (-1) * (-a) + 0)
    <3>1. -a - ((-1) * (-a) + 0) = -W
      BY <1>2, <2>2
    <3>2. (-W) % W = 0
      BY <1>2
    <3> QED
      BY <3>1, <3>2 DEF Congruent
  <2>4. Magnitude(0) = 0 /\ Magnitude(-1) = 1
    <3>1. \A z \in Int : (z = 0 => Magnitude(z) = 0) /\ (z + 1 = 0 => Magnitude(z) = 1)
      BY DEF Magnitude
    <3>2. -1 \in Int /\ (-1) + 1 = 0
      OBVIOUS
    <3> QED
      BY <3>1, <3>2
  <2> QED
    BY <1>3, <2>1, <2>2, <2>3, <2>4
<1>4. CASE ~(a = W \div 2 /\ d = -1)
  <2>1. MulDivOf("op_div", a, b) = << ToWord(l), ToWord(k) >>
    BY <1>1, <1>4 DEF MulDivOf
  <2>2. /\ k \in Int /\ l \in Int
        /\ Magnitude(l) < Magnitude(d) /\ (l = 0 \/ (l < 0) = (n < 0))
        /\ Magnitude(k) <= Magnitude(n)
        /\ d \notin {1, -1} => 2 * Magnitude(k) <= Magnitude(n)
        /\ d = 1 => k = n
    BY <1>1, QuotientMeets
  <2>3. 2 * n = -W => a = W \div 2
    BY <1>2 DEF SignedWord
  <2>4. l = n - d * k
    OBVIOUS
  <2> HIDE DEF k, l
  <2>5. -W <= 2 * l /\ 2 * l < W
    BY <1>1, <1>2, <2>2 DEF Magnitude
  <2>6. -W <= 2 * k /\ 2 * k < W
    <3>1. CASE d = 1
      BY <1>1, <2>2, <3>1
    <3>2. CASE d = -1
      <4>1. 2 * n # -W
        BY <1>4, <2>3, <3>2
      <4> QED
        BY <1>1, <1>2, <2>2, <4>1 DEF Magnitude
    <3>3. CASE d \notin {1, -1}
      <4>1. 2 * Magnitude(k) <= Magnitude(n)
        BY <2>2, <3>3
      <4> QED
        BY <1>1, <1>2, <2>2, <4>1 DEF Magnitude
    <3> QED
      BY <3>1, <3>2, <3>3
  <2>7. SignedWord(ToWord(l)) = l /\ SignedWord(ToWord(k)) = k
    BY <2>2, <2>5, <2>6, SignedOfWord
  <2>8. Congruent(n, d * k + l)
    <3>1. d * k \in Int
      BY <1>1, <2>2
    <3>2. n - (d * k + l) = 0
      BY <1>1, <2>2, <2>4, <3>1
    <3>3. 0 % W = 0
      BY <1>2
    <3> QED
      BY <3>2, <3>3 DEF Congruent
  <2> QED
    BY <2>1, <2>2, <2>7, <2>8
<1> QED
  BY <1>3, <1>4

LEMMA HiLoMeetsStep ==
  ASSUME MultiplyUnit, IInv, NEW i \in Instruction, Execute(i), running'
  PROVE  HiLoMeets(i)
<1> USE Fields
<1> DEFINE h == Handler(i)  a == Read(i.rs)  b == Read(i.rt)  r == MulDivOf(h, a, b)
<1>0. a \in Word /\ b \in Word /\ a \in Nat /\ b \in Nat
  <2>1. Word \subseteq Nat
    BY WidthAssumption DEF Word
  <2> QED
    BY <2>1, ReadType DEF IInv
<1>1. CASE h \notin MultiplyDivide
  BY <1>1 DEF HiLoMeets, MultiplyDivide
<1>2. CASE h \in MultiplyDivide
  <2>1. op_mult_div(i)
    <3>1. h \in Elsewhere /\ h \notin Branches \cup Jumps \cup MemoryOps
      BY <1>2, Families DEF Elsewhere
    <3>2. ~op_branch(i) /\ ~op_j(i) /\ ~op_jal(i) /\ ~op_jr(i) /\ ~op_jalr(i)
      BY <3>1, Families DEF op_branch, op_j, op_jal, op_jr, op_jalr
    <3>3. /\ ~op_isolated(i) /\ ~op_load(i) /\ ~op_lbu(i) /\ ~op_merge_load(i)
          /\ ~op_store(i) /\ ~op_merge_store(i)
      BY <3>1 DEF op_isolated, op_load, op_lbu, op_merge_load, op_store, op_merge_store,
                  MemoryOps
    <3> QED
      BY <3>1, <3>2, <3>3, Dispatched
  <2>2. hi' = r[1] /\ lo' = r[2]
    <3>1. MulDiv(h, a, b) = r
      BY <1>0, <1>2 DEF MultiplyUnit
    <3> QED
      BY <2>1, <3>1 DEF op_mult_div, SetHiLo
  <2>3. CASE h = "op_divu"
    <3>1. b # 0 => r = << a % b, a \div b >>
      BY <2>3 DEF MulDivOf
    <3>2. b # 0 => a = b * (a \div b) + (a % b) /\ a % b < b
      BY <1>0
    <3> QED
      BY <2>2, <2>3, <3>1, <3>2 DEF HiLoMeets
  <2>4. CASE h = "op_div"
    BY <1>0, <2>2, <2>4, DivisionMeets DEF HiLoMeets
  <2>5. CASE h \in {"op_mult", "op_multu"}
    <3>1. r[2] = ToWord(a * b)
      BY <2>5 DEF MulDivOf
    <3>2. a * b \in Int
      BY <1>0
    <3>3. Congruent(ToWord(a * b), a * b)
      BY <3>2, Wraps
    <3> QED
      BY <2>2, <2>5, <3>1, <3>3 DEF HiLoMeets
  <2> QED
    BY <1>2, <2>3, <2>4, <2>5 DEF MultiplyDivide
<1> QED
  BY <1>1, <1>2

-----------------------------------------------------------------------------
(* A step that leaves the process running executes the instruction that    *)
(* the variable instruction then names, or changes nothing.                *)
LEMMA ManualSteps ==
  ASSUME ManualNext
  PROVE  /\ [Next]_vars
         /\ running' => /\ instruction' \in Fetch(pc)
                        /\ Execute(instruction')
<1>1. Fetches => align_check(pc) /\ (\E i \in Fetch(pc) : Execute(i)) /\ running
  BY DEF Fetches
<1>2. [Next]_vars
  BY <1>1 DEF ManualNext, Next, cycle
<1>3. CASE Fetches
  BY <1>2, <1>3 DEF Fetches
<1>4. CASE running /\ FetchFault
  BY <1>2, <1>4 DEF FetchFault, Exit
<1>5. CASE Ended
  BY <1>2, <1>5 DEF Ended, vars
<1> QED
  BY <1>3, <1>4, <1>5 DEF ManualNext

LEMMA ManualInvariance == ManualSpec => []IInv
<1>1. ManualInit => IInv
  BY InitInvariant DEF ManualInit
<1>2. IInv /\ [ManualNext]_manual_vars => IInv'
  <2>1. [ManualNext]_manual_vars => [Next]_vars
    BY ManualSteps DEF manual_vars
  <2> QED
    BY <2>1, NextInvariant
<1> QED
  BY <1>1, <1>2, PTL DEF ManualSpec

LEMMA Fetched ==
  ASSUME IInv, ManualNext, running'
  PROVE  instruction' \in Instruction /\ Execute(instruction')
<1>1. Fetch(pc) \subseteq Instruction
  BY R3000Assumption DEF IInv, FlowOK
<1> QED
  BY <1>1, ManualSteps

(* Every branch and jump of every program lets its delay slot go first and *)
(* goes where the manual says, and those that link r31 leave there the     *)
(* address behind it: for every word width, address and operand, but for   *)
(* blez, offsets out of reach and the link of a jalr whose rd is not 31.   *)
THEOREM JumpsCorrect == ManualSpec => JumpsMeetManual
<1>1. IInv /\ [ManualNext]_manual_vars
        => [running' /\ Fetchable => JumpMeets(instruction')]_manual_vars
  <2> SUFFICES ASSUME IInv, ManualNext, running' PROVE JumpMeets(instruction')
    OBVIOUS
  <2> QED
    BY Fetched, JumpsMeet
<1> QED
  BY <1>1, ManualInvariance, PTL DEF ManualSpec, JumpsMeetManual

(* Every load and store that the manual does not answer with an address    *)
(* error reaches the cell that its virtual address names; stores put the   *)
(* low part of their register there, loads deliver the low part with the   *)
(* extension the manual says, and nothing is written while the cache is    *)
(* isolated.  The upper bits of lb and what swl and swr store are not in   *)
(* it: there the code departs from the manual.                             *)
THEOREM MemoryCorrect == ManualSpec => MemoryMeetsManual
<1>1. IInv /\ [ManualNext]_manual_vars
        => [running' /\ Accesses(instruction') => MemoryMeets(instruction')]_manual_vars
  <2> SUFFICES ASSUME IInv, ManualNext, running', Handler(instruction') \in MemoryOps
               PROVE  MemoryMeets(instruction')
    BY DEF Accesses
  <2> QED
    BY Fetched, MemoryMeetsStep
<1> QED
  BY <1>1, ManualInvariance, PTL DEF ManualSpec, MemoryMeetsManual

(* Every division by anything but 0 leaves the quotient and the remainder  *)
(* of its defining equation, and every product the right low word, with    *)
(* the multiply and divide handlers of the code.                           *)
THEOREM HiLoCorrect == ASSUME MultiplyUnit PROVE ManualSpec => HiLoMeetsManual
<1>1. IInv /\ [ManualNext]_manual_vars
        => [running' /\ Fetchable => HiLoMeets(instruction')]_manual_vars
  <2> SUFFICES ASSUME IInv, ManualNext, running' PROVE HiLoMeets(instruction')
    OBVIOUS
  <2> QED
    BY Fetched, HiLoMeetsStep
<1> QED
  BY <1>1, ManualInvariance, PTL DEF ManualSpec, HiLoMeetsManual
=============================================================================
