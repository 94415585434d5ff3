-------------------------------- MODULE Isa --------------------------------
(***************************************************************************)
(* The vocabulary of the NeoPS processor: machine words, the fields of an  *)
(* instruction (instruction.hpp), the two dispatch tables that the         *)
(* constructor of r3000a fills, and the values that instructions compute   *)
(* from their operands.                                                    *)
(*                                                                         *)
(* Words are naturals below WordSize, which is 2^32 in the code.  TLC      *)
(* works on a machine with the same proportions and narrower bytes, so     *)
(* every width is a constant.  What the arithmetic handlers compute does   *)
(* not matter to the pipeline: Alu, MulDiv and Merge are parameters here   *)
(* and are defined, handler by handler, in R3000Alu.                       *)
(***************************************************************************)
EXTENDS Integers, Sequences

CONSTANTS
  WordSize,         \* 2^32
  HalfSize,         \* 2^16, also the number of values of an immediate
  ByteSize,         \* 2^8
  Region,           \* 2^28, the span a J-type target can address
  Alu(_, _, _),     \* Alu(handler, a, b): what an ALU handler writes back
  MulDiv(_, _, _),  \* MulDiv(handler, a, b): <<hi, lo>>
  Merge(_, _, _, _) \* Merge(handler, reg, mem, k): what lwl and lwr write

Word == 0 .. WordSize - 1
Half == 0 .. HalfSize - 1
Reg  == 0 .. 31

(* One 32-bit instruction, as the bit fields of instruction_t.  The fields *)
(* of the three formats overlap in the real word and are independent here: *)
(* a handler reads the fields of one format only, or, for op_bcondz and    *)
(* op_cop0, fields that do not overlap.                                    *)
Instruction ==
  [opcode : 0 .. 63, rs : Reg, rt : Reg, rd : Reg, shamt : 0 .. 31,
   funct : 0 .. 63, imm : Half, target : 0 .. (Region \div 4) - 1]

-----------------------------------------------------------------------------
(* Dispatch.  Each row holds eight opcodes.  "null" is a nullptr entry; the *)
(* loop that clears the tables stops at 0x3e, so entry 0x3f of both is     *)
(* never written.                                                          *)
ops_normal ==
  << "null",     "op_bcondz", "op_j",    "op_jal",   "op_beq",  "op_bne",   "op_blez", "op_bgtz",
     "op_addi",  "op_addiu",  "op_slti", "op_sltiu", "op_andi", "op_ori",   "op_xori", "op_lui",
     "op_cop0",  "op_cop1",   "op_cop2", "op_cop3",  "null",    "null",     "null",    "null",
     "null",     "null",      "null",    "null",     "null",    "null",     "null",    "null",
     "op_lb",    "op_lh",     "op_lwl",  "op_lw",    "op_lbu",  "op_lhu",   "op_lwr",  "null",
     "op_sb",    "op_sh",     "op_swl",  "op_sw",    "null",    "null",     "op_swr",  "null",
     "op_lwc0",  "op_lwc1",   "op_lwc2", "op_lwc3",  "null",    "null",     "null",    "null",
     "op_swc0",  "op_swc1",   "op_swc2", "op_swc3",  "null",    "null",     "null",    "unset" >>

ops_special ==
  << "op_sll",   "null",      "op_srl",  "op_sra",   "op_sllv",    "null",     "op_srl", "op_srav",
     "op_jr",    "op_jalr",   "null",    "null",     "op_syscall", "op_break", "null",   "null",
     "op_mfhi",  "op_mthi",   "op_mflo", "op_mtlo",  "null",       "null",     "null",   "null",
     "op_mult",  "op_multu",  "op_div",  "op_divu",  "null",       "null",     "null",   "null",
     "op_add",   "op_addu",   "null",    "op_subu",  "op_and",     "op_or",    "op_xor", "op_nor",
     "null",     "null",      "op_slt",  "op_sltu",  "null",       "null",     "null",   "null",
     "null",     "null",      "null",    "null",     "null",       "null",     "null",   "null",
     "null",     "null",      "null",    "null",     "null",       "null",     "null",   "unset" >>

(* The member function that cycle() calls for instruction i.               *)
Handler(i) ==
  IF i.opcode = 0 THEN ops_special[i.funct + 1] ELSE ops_normal[i.opcode + 1]

(* Handlers that share one shape: what they read and what they write back. *)
AluRegister  == { "op_addu", "op_subu", "op_and", "op_or", "op_xor", "op_nor",
                  "op_slt", "op_sltu", "op_sllv", "op_srav" }
AluShift     == { "op_sll", "op_srl", "op_sra" }
AluImmediate == { "op_addiu", "op_slti", "op_sltiu", "op_andi", "op_ori",
                  "op_xori", "op_lui" }
MultiplyDivide == { "op_mult", "op_multu", "op_div", "op_divu" }
Branches     == { "op_beq", "op_bne", "op_blez", "op_bgtz", "op_bcondz" }
DelayedLoads == { "op_lb", "op_lh", "op_lhu", "op_lw" }
MergeLoads   == { "op_lwl", "op_lwr" }
Stores       == { "op_sb", "op_sh", "op_sw" }
MergeStores  == { "op_swl", "op_swr" }
MemoryOps    == DelayedLoads \cup MergeLoads \cup Stores \cup MergeStores \cup {"op_lbu"}
Unusable     == { "op_cop1", "op_cop3", "op_lwc0", "op_lwc1", "op_lwc3",
                  "op_swc0", "op_swc1", "op_swc3" }
Fatal        == { "op_cop2", "op_lwc2", "op_swc2", "null", "unset" }

(* The widths fit each other as 8, 16, 28 and 32 bits do, and the handlers *)
(* deliver words: gpr, hi and lo are written through uint32_t values.      *)
ASSUME WidthAssumption ==
  /\ WordSize \in Nat /\ HalfSize \in Nat /\ ByteSize \in Nat /\ Region \in Nat
  /\ ByteSize > 1 /\ HalfSize >= ByteSize /\ WordSize >= 2 * HalfSize
  /\ WordSize % 128 = 0 /\ WordSize % HalfSize = 0 /\ HalfSize % 2 = 0
  /\ Region >= 4 /\ Region % 4 = 0 /\ Region <= WordSize /\ WordSize % Region = 0

ASSUME AluAssumption ==
  /\ \A h \in AluRegister, a, b \in Word             : Alu(h, a, b) \in Word
  /\ \A h \in AluShift, a \in Word, b \in Reg        : Alu(h, a, b) \in Word
  /\ \A h \in AluImmediate, a \in Word, b \in Half   : Alu(h, a, b) \in Word
  /\ \A h \in MultiplyDivide, a, b \in Word          : MulDiv(h, a, b) \in Word \X Word

-----------------------------------------------------------------------------
(* Word arithmetic.                                                        *)
ToWord(n)     == n % WordSize
Negative(w)   == w >= WordSize \div 2
SignedHalf(h) == IF h >= HalfSize \div 2 THEN h - HalfSize ELSE h

(* overflow(): the operands agree in sign and the wrapped sum does not.    *)
overflow(x, y, z) == Negative(x) = Negative(y) /\ Negative(x) # Negative(z)

(* Mutant of BranchOffset: the cast to a signed type is missing.           *)
BranchOffsetUncast(imm) == (imm * 4) % HalfSize

(* (int16_t)(imm << 2): the shifted immediate loses its two top bits.      *)
BranchOffset(imm) == SignedHalf((imm * 4) % HalfSize)

(* A branch target, from the address of the delay slot.                    *)
BranchTarget(slot, imm) == ToWord(slot + BranchOffset(imm))
JumpTarget(slot, t)     == ToWord(slot - (slot % Region) + t * 4)
VAddr(base, imm)        == ToWord(base + SignedHalf(imm))

(* Does branch i go, on the operands a = gpr[rs] and b = gpr[rt]?  For     *)
(* bcondz bit 0 of the rt field selects bgez from bltz.                    *)
Taken(i, a, b) ==
  LET h == Handler(i) IN
  \/ h = "op_beq"    /\ a = b
  \/ h = "op_bne"    /\ a # b
  \/ h = "op_bgtz"   /\ a # 0 /\ ~Negative(a)
  \/ h = "op_blez"   /\ a = 0 /\ Negative(a)
  \/ h = "op_bcondz" /\ Negative(a) # ((i.rt % 2) = 1)

(* bltzal and bgezal: bits 17..20 of the instruction are 8.                *)
Links(i) == Handler(i) = "op_bcondz" /\ i.rt \div 2 = 8

(* The width of an access, and the register value a delayed load makes of  *)
(* the word v at its address.  lb does not extend the sign.                *)
Size(h) == CASE h \in {"op_lb", "op_lbu", "op_sb"} -> 1
             [] h \in {"op_lh", "op_lhu", "op_sh"} -> 2
             [] OTHER                              -> 4

Extend(h, v) == CASE h \in {"op_lb", "op_lbu"} -> v % ByteSize
                  [] h = "op_lhu"              -> v % HalfSize
                  [] h = "op_lh"               -> ToWord(SignedHalf(v % HalfSize))
                  [] OTHER                     -> v

(* What a store drives on the bus: the low byte, half or word of gpr[rt].  *)
Truncate(h, w) == CASE h = "op_sb" -> w % ByteSize
                    [] h = "op_sh" -> w % HalfSize
                    [] OTHER       -> w
=============================================================================
