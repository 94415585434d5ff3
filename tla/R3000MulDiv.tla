----------------------------- MODULE R3000MulDiv -----------------------------
(***************************************************************************)
(* What the multiply and divide handlers of r3000a.cpp compute: the value  *)
(* of Isa's parameter MulDiv.  It is apart from R3000Alu, whose bitwise    *)
(* operators the provers do not know.                                      *)
(***************************************************************************)
EXTENDS Isa

Signed(w) == IF Negative(w) THEN w - WordSize ELSE w

(* C's quotient rounds towards zero; the remainder has the numerator's     *)
(* sign.                                                                   *)
Abs(n) == IF n < 0 THEN -n ELSE n

(* Mutant of Quotient: rounded towards minus infinity.                     *)
QuotientFloor(n, d) == (IF d < 0 THEN -n ELSE n) \div Abs(d)

Quotient(n, d) == (IF (n < 0) = (d < 0) THEN 1 ELSE -1) * (Abs(n) \div Abs(d))

(* The products are taken in 32 bits before they are widened; the signed   *)
(* one wraps in the multiply instruction the build emits for it.           *)
MulDivOf(h, a, b) ==
  LET n == Signed(a)  d == Signed(b)  p == ToWord(a * b) IN
  CASE h = "op_mult"  -> << IF Negative(p) THEN WordSize - 1 ELSE 0, p >>
    [] h = "op_multu" -> << 0, p >>
    [] h = "op_div"   ->
         IF d = 0 THEN << a, IF n > 0 THEN WordSize - 1 ELSE 1 >>
         ELSE IF a = WordSize \div 2 /\ d = -1 THEN << 0, WordSize \div 2 >>
         ELSE << ToWord(n - d * Quotient(n, d)), ToWord(Quotient(n, d)) >>
    [] h = "op_divu"  ->
         IF b = 0 THEN << a, WordSize - 1 >> ELSE << a % b, a \div b >>
=============================================================================
