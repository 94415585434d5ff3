------------------------------ MODULE R3000Alu ------------------------------
(***************************************************************************)
(* What the arithmetic, logic and shift handlers of r3000a.cpp compute,    *)
(* one line per handler, and the merges of lwl and lwr.  With MulDivOf     *)
(* these are the values of Isa's parameters Alu, MulDiv and Merge.         *)
(* Widths are Isa's constants, so the same definitions serve the scaled    *)
(* machines that TLC runs.                                                 *)
(***************************************************************************)
EXTENDS R3000MulDiv
LOCAL INSTANCE Bitwise

CONSTANT WordBits   \* 32

ASSUME WordBitsAssumption == WordSize = 2 ^ WordBits

Flag(p)   == IF p THEN 1 ELSE 0

(* Shift counts reach 31 on every machine; all bits are gone by WordBits.  *)
Power(n)  == 2 ^ (IF n < WordBits THEN n ELSE WordBits)

ShiftLeft(w, n)        == ToWord(w * Power(n))
ShiftRight(w, n)       == w \div Power(n)

(* Mutant of ShiftRightSigned: the cast to a signed type is missing.       *)
ShiftRightUncast(w, n) == w \div Power(n)

ShiftRightSigned(w, n) == ToWord(Signed(w) \div Power(n))

AluOf(h, a, b) ==
  CASE h = "op_addu"  -> ToWord(a + b)
    [] h = "op_subu"  -> ToWord(a - b)
    [] h = "op_and"   -> a & b
    [] h = "op_or"    -> a | b
    [] h = "op_xor"   -> a ^^ b
    [] h = "op_nor"   -> WordSize - 1 - (a | b)
    [] h = "op_slt"   -> Flag(Signed(a) < Signed(a))
    [] h = "op_sltu"  -> Flag(a < b)
    [] h = "op_sllv"  -> ShiftLeft(b, a % 32)
    [] h = "op_srav"  -> ShiftRightSigned(b, a % 32)
    [] h = "op_sll"   -> ShiftLeft(a, b)
    [] h = "op_srl"   -> ShiftRight(a, b)
    [] h = "op_sra"   -> ShiftRightSigned(a, b)
    [] h = "op_addiu" -> ToWord(a + SignedHalf(b))
    [] h = "op_slti"  -> Flag(Signed(a) < SignedHalf(b))
    [] h = "op_sltiu" -> Flag(a < ToWord(SignedHalf(b)))
    [] h = "op_andi"  -> a & b
    [] h = "op_ori"   -> a | b
    [] h = "op_xori"  -> a ^^ b
    [] h = "op_lui"   -> ToWord(b * HalfSize)

(* Mutant of MergeOf: lwl counts its bytes from the other end.             *)
MergeOfMirrored(h, reg, mem, k) ==
  LET up == ByteSize ^ k  down == ByteSize ^ k IN
  CASE h = "op_lwl"           -> (reg % up) + ToWord(mem * up)
    [] h = "op_lwr" /\ k = 3  -> reg | (mem \div down)
    [] h = "op_lwr"           -> (reg - (reg % (WordSize \div down))) + (mem \div down)

(* lwl shifts the word up over the kept low bytes; lwr down under the kept *)
(* high bytes, except that for k = 3 it keeps, and ors into, all of reg.   *)
MergeOf(h, reg, mem, k) ==
  LET up == ByteSize ^ (3 - k)  down == ByteSize ^ k IN
  CASE h = "op_lwl"           -> (reg % up) + ToWord(mem * up)
    [] h = "op_lwr" /\ k = 3  -> reg | (mem \div down)
    [] h = "op_lwr"           -> (reg - (reg % (WordSize \div down))) + (mem \div down)
=============================================================================
