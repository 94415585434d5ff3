----------------------------- MODULE Assembler ------------------------------
(***************************************************************************)
(* Instructions for the programs that the model-checking modules run.      *)
(* A field that a format lacks is zero; the handlers of that format never  *)
(* read it.                                                                *)
(***************************************************************************)
EXTENDS Integers

Blank == [opcode |-> 0, rs |-> 0, rt |-> 0, rd |-> 0, shamt |-> 0,
          funct |-> 0, imm |-> 0, target |-> 0]

RType(f, s, t, d)   == [Blank EXCEPT !.funct = f, !.rs = s, !.rt = t, !.rd = d]
IType(o, s, t, k)   == [Blank EXCEPT !.opcode = o, !.rs = s, !.rt = t, !.imm = k]
JType(o, t)         == [Blank EXCEPT !.opcode = o, !.target = t]

Nop           == Blank
Jr(s)         == RType( 8, s, 0, 0)
Jalr(s)       == RType( 9, s, 0, 31)
Syscall       == RType(12, 0, 0, 0)
Break         == RType(13, 0, 0, 0)
Mfhi(d)       == RType(16, 0, 0, d)
Mthi(s)       == RType(17, s, 0, 0)
Mflo(d)       == RType(18, 0, 0, d)
Mtlo(s)       == RType(19, s, 0, 0)
Multu(s, t)   == RType(25, s, t, 0)
Add(d, s, t)  == RType(32, s, t, d)
Addu(d, s, t) == RType(33, s, t, d)
Or(d, s, t)   == RType(37, s, t, d)
Sll(d, t, n)  == [RType(0, 0, t, d) EXCEPT !.shamt = n]

Bgezal(s, k)  == IType( 1, s, 17, k)
J(t)          == JType( 2, t)
Jal(t)        == JType( 3, t)
Beq(s, t, k)  == IType( 4, s, t, k)
Bne(s, t, k)  == IType( 5, s, t, k)
Blez(s, k)    == IType( 6, s, 0, k)
Bgtz(s, k)    == IType( 7, s, 0, k)
Addi(t, s, k) == IType( 8, s, t, k)
Addiu(t, s, k) == IType( 9, s, t, k)
Ori(t, s, k)  == IType(13, s, t, k)
Lui(t, k)     == IType(15, 0, t, k)
Lb(t, k, s)   == IType(32, s, t, k)
Lh(t, k, s)   == IType(33, s, t, k)
Lwl(t, k, s)  == IType(34, s, t, k)
Lw(t, k, s)   == IType(35, s, t, k)
Lbu(t, k, s)  == IType(36, s, t, k)
Lhu(t, k, s)   == IType(37, s, t, k)
Lwr(t, k, s)  == IType(38, s, t, k)
Sb(t, k, s)   == IType(40, s, t, k)
Sh(t, k, s)   == IType(41, s, t, k)
Swl(t, k, s)  == IType(42, s, t, k)
Sw(t, k, s)   == IType(43, s, t, k)

Cop0(s, t, d) == [Blank EXCEPT !.opcode = 16, !.rs = s, !.rt = t, !.rd = d]
Mfc0(t, d)    == Cop0(0, t, d)
Mtc0(t, d)    == Cop0(4, t, d)
Rfe           == [Cop0(16, 0, 0) EXCEPT !.funct = 16]
Tlbp          == [Cop0(16, 0, 0) EXCEPT !.funct = 8]
Cop1          == JType(17, 0)
Cop2          == JType(18, 0)
=============================================================================
