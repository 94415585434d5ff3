--------------------------- MODULE MCInstructions ---------------------------
(***************************************************************************)
(* Every handler once, on boundary operands.  The program loads a into r1  *)
(* and b into r2, waits out the load delay, executes any one instruction   *)
(* on them, then reads hi and lo back.                                     *)
(*                                                                         *)
(* What the handler left is compared with what the manual says of its      *)
(* instruction.  Manual has what it says of jumps, products, division and  *)
(* memory accesses; here is the rest of the arithmetic, on words that are  *)
(* sets of bits or sequences of bytes.                                     *)
(***************************************************************************)
EXTENDS Manual, R3000Alu, Assembler

Registers  == { RType(f, 1, 2, 3) : f \in { 4, 6, 7, 32, 33, 35, 36, 37, 38, 39, 42, 43 } }
Shifts     == { [RType(f, 0, 1, 3) EXCEPT !.shamt = n] : f \in {0, 2, 3}, n \in {0, 1, 7, 31} }
Immediates == { IType(o, 1, 3, k) : o \in 8 .. 15, k \in {0, 5, 8, 15} }
HiLo       == { RType(f, 1, 2, 0) : f \in 24 .. 27 } \cup { Mthi(1), Mtlo(2) }
Offsets    == {1, 2, 8, 14, 15}
Branching  == { IType(o, 1, 2, k) : o \in {4, 5}, k \in Offsets }
                 \cup { IType(o, 1, 0, k) : o \in {6, 7}, k \in Offsets }
                 \cup { IType(1, 1, t, k) : t \in {0, 1, 16, 17}, k \in Offsets }
                 \cup { J(5), Jal(6), Jr(1), Jalr(1), RType(9, 1, 0, 3) }
Memory     == { IType(o, 1, 2, k) : o \in {32, 33, 34, 35, 36, 37, 38, 40, 41, 42, 43, 46},
                                    k \in {0, 15} }
System     == { Mtc0(1, 12), Mtc0(2, 14), Mtc0(2, 31), Mfc0(2, 12), Mfc0(2, 30), Rfe, Tlbp,
                Cop1, Cop2, Syscall, Break, RType(1, 0, 0, 0), IType(63, 0, 0, 0) }

At == 140   \* the instruction under test

TestFetch(a) ==
  CASE a = 128 -> { Lw(1, 0, 0) }
    [] a = 132 -> { Lw(2, 0, 0) }
    [] a = 136 -> { Nop }
    [] a = At  -> Registers \cup Shifts \cup Immediates \cup HiLo \cup Branching
                    \cup Memory \cup System
    [] a = 144 -> { Mfhi(4) }
    [] a = 148 -> { Mflo(5) }
    [] OTHER   -> {}

TestData == { 0, 1, 3, 64, 102, 127, 128, 155, 162, 254, 255 }

(* SR as the boot left it: the cache isolated or not.                      *)
SomeBoot  == { [r \in Reg |-> IF r = SR THEN s ELSE 0] : s \in {0, IsCBit} }
ZeroStale == {0}

Testing == running /\ pc = At

-----------------------------------------------------------------------------
Bits(w)     == { k \in 0 .. WordBits - 1 : (w \div 2 ^ k) % 2 = 1 }
AllBits     == 0 .. WordBits - 1
Moved(S, n) == { k + n : k \in S } \cap AllBits
SignFill(w, n) == IF Negative(w) THEN { k \in AllBits : k >= WordBits - n } ELSE {}
Truth(p)    == IF p THEN 1 ELSE 0

(* r is what the manual's instruction, named as its handler, makes of a    *)
(* and b.                                                                  *)
Computes(h, a, b, r) ==
  CASE h = "op_and"  -> Bits(r) = Bits(a) \cap Bits(b)
    [] h = "op_andi" -> Bits(r) = Bits(a) \cap Bits(b)
    [] h = "op_or"   -> Bits(r) = Bits(a) \cup Bits(b)
    [] h = "op_ori"  -> Bits(r) = Bits(a) \cup Bits(b)
    [] h \in {"op_xor", "op_xori"} ->
         Bits(r) = (Bits(a) \cup Bits(b)) \ (Bits(a) \cap Bits(b))
    [] h = "op_nor"  -> Bits(r) = AllBits \ (Bits(a) \cup Bits(b))
    [] h = "op_sll"  -> Bits(r) = Moved(Bits(a), b)
    [] h = "op_srl"  -> Bits(r) = Moved(Bits(a), -b)
    [] h = "op_sra"  -> Bits(r) = Moved(Bits(a), -b) \cup SignFill(a, b)
    [] h = "op_sllv" -> Bits(r) = Moved(Bits(b), a % 32)
    [] h = "op_srav" -> Bits(r) = Moved(Bits(b), -(a % 32)) \cup SignFill(b, a % 32)
    [] h = "op_addu" -> Congruent(r, a + b)
    [] h = "op_subu" -> Congruent(r + b, a)
    [] h = "op_addiu" -> Congruent(r, a + SignedHalf(b))
    [] h = "op_lui"  -> Bits(r) = Moved(Bits(b), WordBits \div 2)
    [] h = "op_sltu" -> r = Truth(a < b)
    [] h = "op_slti" -> r = Truth(SignedWord(a) < SignedHalf(b))
    [] h = "op_sltiu" -> r = Truth(a < ToWord(SignedHalf(b)))

(* srlv, which the table sends to the handler of srl.                      *)
Srlv(i) == i.opcode = 0 /\ i.funct = 6

(* The register an arithmetic instruction writes holds what the manual     *)
(* says, for every instruction of the three arithmetic families but slt,   *)
(* which compares rs with itself, and srlv, which shifts by its shamt.     *)
AluMeetsManual ==
  [][Testing /\ running' =>
       LET i == instruction'  h == Handler(i) IN
       /\ h \in AluRegister \ {"op_slt"} => Computes(h, gpr[i.rs], gpr[i.rt], gpr'[i.rd])
       /\ h \in AluShift /\ ~Srlv(i)      => Computes(h, gpr[i.rt], i.shamt, gpr'[i.rd])
       /\ h \in AluImmediate             => Computes(h, gpr[i.rs], i.imm, gpr'[i.rt])]_manual_vars

-----------------------------------------------------------------------------
(* Memory instructions.  Byte j of a word, the lowest first.               *)
Byte(w, j) == (w \div ByteSize ^ j) % ByteSize

(* lwl takes the bytes up to the addressed one into the top of the         *)
(* register, lwr those from the addressed one on into the bottom.          *)
Merged(h, old, v, k, new) ==
  \A j \in 0 .. 3 :
    Byte(new, j) =
      CASE h = "op_lwl" /\ j >= 3 - k -> Byte(v, j - (3 - k))
        [] h = "op_lwr" /\ j <= 3 - k -> Byte(v, j + k)
        [] OTHER                      -> Byte(old, j)

(* lwl and lwr deliver the merged bytes of the register and of the word    *)
(* around the address.  lwr of an address 3 mod 4, which keeps a byte too  *)
(* many, is left out.                                                      *)
MergesMeetManual ==
  [][Testing /\ running' /\ ~Isolated /\ Handler(instruction') \in MergeLoads =>
       LET i == instruction'  k == Address(i) % 4 IN
       \/ Handler(i) = "op_lwr" /\ k = 3
       \/ Merged(Handler(i), gpr[i.rt], bus'.val, k, gpr'[i.rt])]_manual_vars

-----------------------------------------------------------------------------
(* What the manual says of instructions and the code does not do.          *)

(* "Place 64-bit result in special registers HI/LO": the product has lost  *)
(* its upper half before it is widened.                                    *)
ProductIsWide ==
  [][Testing /\ running' /\ Handler(instruction') = "op_multu" =>
       hi' * WordSize + lo' = gpr[instruction'.rs] * gpr[instruction'.rt]]_manual_vars

(* "Merge bytes from memory with contents of register rt": with the        *)
(* addressed byte the last of its word, lwr ors the byte into the whole    *)
(* register.                                                               *)
LwrMerges ==
  [][Testing /\ running' /\ Handler(instruction') = "op_lwr" /\ ~Isolated =>
       LET i == instruction' IN
       Merged("op_lwr", gpr[i.rt], bus'.val, Address(i) % 4, gpr'[i.rt])]_manual_vars
=============================================================================
