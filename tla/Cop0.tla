-------------------------------- MODULE Cop0 --------------------------------
(***************************************************************************)
(* Coprocessor 0 (cop0.cpp): the system control registers, what an         *)
(* exception and rfe do to them, and the virtual-address layer that every  *)
(* fetch, load and store goes through.                                     *)
(*                                                                         *)
(* The coprocessor has no behaviour of its own: each operation runs inside *)
(* a cycle of the processor, so this module states the register file and   *)
(* the operations, and R3000A takes the steps.                             *)
(***************************************************************************)
EXTENDS Isa

CONSTANTS
  IsCBit,      \* 0x00010000, the weight of SR's isolate-cache bit
  BEVBit,      \* 0x00400000, the weight of SR's bootstrap-vector bit
  RamVector,   \* 0x80000080
  RomVector,   \* 0xbfc00180
  BootCop,     \* what the registers may hold when the cop0 object is made
  StaleStack   \* what the local `cause' of trigger_exception may hold

VARIABLE cop   \* gpr[0..15], then the start of the tlb array behind it

SR    == 12
CAUSE == 13
EPC   == 14

SYSCALL                == 8
BREAKPOINT             == 9
COPROCESSOR_UNUSUABLE  == 11
ARITHMETIC_OVERFLOW    == 12
ExceptionType == { SYSCALL, BREAKPOINT, COPROCESSOR_UNUSUABLE, ARITHMETIC_OVERFLOW }

ASSUME Cop0Assumption ==
  /\ IsCBit \in Nat /\ BEVBit \in Nat
  /\ IsCBit >= 64 /\ BEVBit >= 64
  /\ RamVector \in Word /\ RomVector \in Word
  /\ RamVector % 4 = 0 /\ RomVector % 4 = 0
  /\ BootCop \subseteq [Reg -> Word] /\ BootCop # {}
  /\ StaleStack \subseteq Word /\ StaleStack # {}

(* Neither constructor nor reset initialises the register file.  A number  *)
(* above 15 in mtc0 or mfc0 falls in the tlb array, which nothing else     *)
(* uses, so those numbers act as plain storage.                            *)
Cop0Init == cop \in BootCop

Bit(w, weight) == (w \div weight) % 2

Isolated == Bit(cop[SR], IsCBit) = 1

(* (status & 0x3f) | ((status << 2) & 0x3f), bit by bit: the six bits of   *)
(* the mode stack are or-ed with their own shift, everything above is lost.*)
Either(x, y) == IF x = 1 \/ y = 1 THEN 1 ELSE 0

EnteredStatus(s) ==
  Bit(s, 1) + 2 * Bit(s, 2)
  +  4 * Either(Bit(s,  4), Bit(s, 1)) +  8 * Either(Bit(s,  8), Bit(s, 2))
  + 16 * Either(Bit(s, 16), Bit(s, 4)) + 32 * Either(Bit(s, 32), Bit(s, 8))

(* The cause keeps the upper bits of a local that was never assigned.      *)
CauseWord(stale, ex) == (stale - (stale % 128)) + ((4 * ex) % 128)

(* The vector is chosen from the status just computed.                     *)
Vector(status) == IF Bit(status, BEVBit) = 1 THEN RomVector ELSE RamVector

(* Mutants of trigger_exception: EPC is the address of the next            *)
(* instruction, and EPC is computed after set_pc has moved the processor.  *)
trigger_exception_late(ex, pc) ==
  \E stale \in StaleStack :
    cop' = [cop EXCEPT ![SR]    = EnteredStatus(cop[SR]),
                       ![CAUSE] = CauseWord(stale, ex),
                       ![EPC]   = pc]

trigger_exception_moved(ex, pc) ==
  \E stale \in StaleStack :
    cop' = [cop EXCEPT ![SR]    = EnteredStatus(cop[SR]),
                       ![CAUSE] = CauseWord(stale, ex),
                       ![EPC]   = ToWord(Vector(EnteredStatus(cop[SR])) - 4)]

(* trigger_exception, for a processor whose program counter holds pc.      *)
(* set_pc(Vector(...)) is the caller's part.                               *)
trigger_exception(ex, pc) ==
  \E stale \in StaleStack :
    cop' = [cop EXCEPT ![SR]    = EnteredStatus(cop[SR]),
                       ![CAUSE] = CauseWord(stale, ex),
                       ![EPC]   = ToWord(pc - 4)]

(* Mutant of Restored: the stack is popped by one bit instead of a pair.   *)
RestoredHalf(s) == (s - (s % 16)) + ((s \div 2) % 16)

(* (sr & ~0xf) | ((sr >> 2) & 0xf)                                         *)
Restored(s) == (s - (s % 16)) + ((s \div 4) % 16)

rfe == cop' = [cop EXCEPT ![SR] = Restored(cop[SR])]

write_gpr(reg, val) == cop' = [cop EXCEPT ![reg] = val]

-----------------------------------------------------------------------------
(* virtual_read and virtual_write.  16- and 32-bit accesses are refused    *)
(* unless the address passes align_check, which any even address does.     *)
align_check(addr) == addr % 4 = 0 \/ addr % 2 = 0

Accessible(addr, size) == size = 1 \/ align_check(addr)

(* Mutant of Physical: one mask for every address in the upper half.       *)
PhysicalTopBit(vaddr) == vaddr % (WordSize \div 2)

(* address_masks: kseg0 drops the top bit, kseg1 the top three.            *)
Physical(vaddr) ==
  LET segment == (8 * vaddr) \div WordSize IN
  CASE segment = 4 -> vaddr % (WordSize \div 2)
    [] segment = 5 -> vaddr % (WordSize \div 8)
    [] OTHER       -> vaddr
=============================================================================
