------------------------------- MODULE Manual -------------------------------
(***************************************************************************)
(* What the processor's manual (Playstation.txt in documentation/hw) says  *)
(* of the instructions that jump, multiply, divide and access memory, in   *)
(* terms other than the handlers': congruences, regions, signed numbers    *)
(* and the equation that defines division.  What the code is known to do   *)
(* against the manual is left out, case by case, where a property is       *)
(* stated.                                                                 *)
(*                                                                         *)
(* The variable instruction is the member of that name: what the last      *)
(* cycle fetched.  Nothing but the properties looks at it.                 *)
(***************************************************************************)
EXTENDS R3000A

VARIABLE instruction

manual_vars == << vars, instruction >>

Unfetched == [opcode |-> 0, rs |-> 0, rt |-> 0, rd |-> 0, shamt |-> 0,
              funct |-> 0, imm |-> 0, target |-> 0]

Fetches ==
  /\ running /\ align_check(pc)
  /\ \E i \in Fetch(pc) : Execute(i) /\ instruction' = i

ManualInit == Init /\ instruction = Unfetched
ManualNext ==
  \/ Fetches
  \/ running /\ FetchFault /\ UNCHANGED instruction
  \/ Ended /\ UNCHANGED instruction

ManualSpec == ManualInit /\ [][ManualNext]_manual_vars

-----------------------------------------------------------------------------
Congruent(x, y) == (x - y) % WordSize = 0
SignedWord(w)   == IF 2 * w >= WordSize THEN w - WordSize ELSE w

(* An access of n bytes at a that the manual answers with an address error *)
(* and not with the access.  The code makes some of them: align_check lets *)
(* every even address pass, and nothing looks at the mode.                 *)
UserMode           == Bit(cop[SR], 2) = 1
AddressError(a, n) == a % n # 0 \/ (UserMode /\ 2 * a >= WordSize)

Fetchable == ~AddressError(pc, 4)

-----------------------------------------------------------------------------
(* Jumps.  The branches that the manual names, by its conditions; the rt   *)
(* field of bcondz tells bltz, bgez, bltzal and bgezal apart.  blez, which *)
(* the code never takes, is left out.                                      *)
Named(i) ==
  Handler(i) \in Branches \ {"op_blez"} /\ (Handler(i) = "op_bcondz" => i.rt \in {0, 1, 16, 17})

Goes(i, a, b) ==
  CASE Handler(i) = "op_beq"    -> a = b
    [] Handler(i) = "op_bne"    -> a # b
    [] Handler(i) = "op_bgtz"   -> SignedWord(a) > 0
    [] Handler(i) = "op_bcondz" -> IF i.rt \in {0, 16} THEN SignedWord(a) < 0 ELSE SignedWord(a) >= 0

InReach(imm) == 4 * SignedHalf(imm) \in -(HalfSize \div 2) .. (HalfSize \div 2) - 1

Jumps   == {"op_j", "op_jal", "op_jr", "op_jalr"}

(* The instructions that link r31: a jalr links its rd.                    *)
Linking(i) ==
  \/ Handler(i) = "op_jal"
  \/ Handler(i) = "op_jalr" /\ i.rd = 31
  \/ Handler(i) = "op_bcondz" /\ i.rt \in {16, 17}

(* A branch or jump lets the instruction behind it go first and then goes  *)
(* where the manual says: from the delay slot by four times the signed     *)
(* offset, to the word its target names in the delay slot's region, or to  *)
(* its register; a branch whose condition fails goes on.  Those that link  *)
(* r31 leave the address behind the delay slot there.  Offsets that do not *)
(* fit 16 bits once they count bytes and the link of a jalr whose rd is    *)
(* another register, for which the code writes r31, are left out.          *)
JumpMeets(i) ==
  LET h == Handler(i)  slot == next_pc  to == next_pc' IN
  /\ Named(i) \/ h \in Jumps => pc' = slot
  /\ Named(i) =>
       IF Goes(i, Read(i.rs), Read(i.rt))
       THEN InReach(i.imm) => Congruent(to, slot + 4 * SignedHalf(i.imm))
       ELSE Congruent(to, slot + 4)
  /\ h \in {"op_j", "op_jal"} => to \div Region = slot \div Region /\ to % Region = 4 * i.target
  /\ h \in {"op_jr", "op_jalr"} => to = Read(i.rs)
  /\ Linking(i) => Congruent(gpr'[31], slot + 4)

JumpsMeetManual == [][running' /\ Fetchable => JumpMeets(instruction')]_manual_vars

-----------------------------------------------------------------------------
Magnitude(n) == IF n < 0 THEN -n ELSE n

(* Division by a divisor other than 0 leaves the quotient and remainder of *)
(* its defining equation, truncated towards zero; a product's low word is  *)
(* the product modulo the word size, signed or not.                        *)
HiLoMeets(i) ==
  LET h == Handler(i)  a == Read(i.rs)  b == Read(i.rt)
      n == SignedWord(a)  d == SignedWord(b)  q == SignedWord(lo')  m == SignedWord(hi')
  IN  /\ h = "op_divu" /\ b # 0 => a = b * lo' + hi' /\ hi' < b
      /\ h = "op_div" /\ d # 0 =>
           /\ Congruent(n, d * q + m)
           /\ Magnitude(m) < Magnitude(d)
           /\ m = 0 \/ (m < 0) = (n < 0)
      /\ h \in {"op_mult", "op_multu"} => Congruent(lo', a * b)

HiLoMeetsManual == [][running' /\ Fetchable => HiLoMeets(instruction')]_manual_vars

-----------------------------------------------------------------------------
(* Memory instructions.  What n bytes can say.                             *)
Span(n) == CASE n = 1 -> ByteSize [] n = 2 -> HalfSize [] n = 4 -> WordSize

(* kseg0 and kseg1 are windows on the lowest eighth of the address space.  *)
Names(vaddr, paddr) ==
  paddr = IF 2 * vaddr >= WordSize /\ 4 * vaddr < 3 * WordSize
          THEN vaddr % (WordSize \div 8) ELSE vaddr

(* r has the low part of v that h loads, and above it zeroes or, for lb    *)
(* and lh, copies of its top bit.                                          *)
LowPart(h, v, r) == (r - v) % Span(Size(h)) = 0

Extended(h, v, r) ==
  LET n == Span(Size(h)) IN
  /\ LowPart(h, v, r)
  /\ IF h \in {"op_lb", "op_lh"} /\ 2 * (v % n) >= n THEN 2 * r >= 2 * WordSize - n ELSE r < n

(* What an address has to be a multiple of; lwl, lwr, swl and swr take any.*)
Alignment(h) == IF h \in MergeLoads \cup MergeStores THEN 1 ELSE Size(h)

Target(i) == ToWord(Read(i.rs) + SignedHalf(i.imm))

(* A data access reaches the physical cell its virtual address names; a    *)
(* store writes the low part of its register, and nothing but a store      *)
(* writes, nor any while the cache is isolated; a load pends or delivers   *)
(* the extended value.  Left out: accesses that ought to be address        *)
(* errors, the upper bits of lb, and what swl and swr store.               *)
MemoryMeets(i) ==
  LET h    == Handler(i)
      a    == Target(i)
      cell == IF h \in MergeLoads \cup MergeStores THEN a - (a % 4) ELSE a
      v    == bus'.val
      read == bus'.op = "read"
  IN  /\ h \in Stores /\ ~Isolated => bus'.op = "write"
      /\ bus'.op = "write" => h \in Stores \cup MergeStores /\ ~Isolated
      /\ bus'.op # "idle" => Names(cell, bus'.addr)
      /\ bus'.op = "write" /\ h \in Stores =>
           v < Span(bus'.size) /\ (Read(i.rt) - v) % Span(bus'.size) = 0
      /\ read /\ h \in DelayedLoads =>
           /\ delay_reg' = i.rt /\ LowPart(h, v, load_delay')
           /\ h # "op_lb" => Extended(h, v, load_delay')
      /\ read /\ h = "op_lbu" /\ i.rt # 0 => Extended(h, v, gpr'[i.rt])

(* Does instruction i access memory, in a way that the manual lets it?     *)
Accesses(i) ==
  Handler(i) \in MemoryOps /\ Fetchable /\ ~AddressError(Target(i), Alignment(Handler(i)))

MemoryMeetsManual ==
  [][running' /\ Accesses(instruction') => MemoryMeets(instruction')]_manual_vars
=============================================================================
