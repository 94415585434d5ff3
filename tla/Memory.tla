------------------------------- MODULE Memory -------------------------------
(***************************************************************************)
(* The bytes of the machine: RAM, which bus.cpp calls kuseg, and the BIOS, *)
(* bseg in bios.cpp.  Both are pointers, null until they are allocated.    *)
(*                                                                         *)
(* A word is the set of its bits that are 1, a byte the same within its    *)
(* ByteBits bits, so that the masks and shifts of the code are set         *)
(* operations.  Words are little-endian.  Addresses are physical.          *)
(***************************************************************************)
EXTENDS Integers, FiniteSets

CONSTANTS
  ByteBits,  \* 8
  AddrBits,  \* 21,
  RamSize,   \* PSX_MEM_SIZE, 2 ^ AddrBits
  BiosSize,  \* PSX_BIOS_SIZE
  Space,     \* 2^32, the number of addresses
  Fill,      \* 0xba, which psmem_init fills RAM with
  Null       \* the null pointer

VARIABLES kuseg, bseg

Bit  == 0 .. 4 * ByteBits - 1
Word == SUBSET Bit
Byte == SUBSET (0 .. ByteBits - 1)
Ram  == 0 .. RamSize - 1
Rom  == 0 .. BiosSize - 1

ASSUME MemoryAssumption ==
  /\ ByteBits \in 4 .. 8
  /\ AddrBits \in Nat /\ 2 < AddrBits /\ AddrBits < 3 * ByteBits
  /\ RamSize \in Nat /\ RamSize = 2 ^ AddrBits
  /\ BiosSize \in Nat /\ BiosSize > 0
  /\ Space \in Nat /\ Space % RamSize = 0 /\ Space > RamSize
  /\ Fill \in Byte
  /\ Null \notin [Ram -> Byte] /\ Null \notin [Rom -> Byte]

-----------------------------------------------------------------------------
Lane(w, j)    == { k \in 0 .. ByteBits - 1 : ByteBits * j + k \in w }
InLane(b, j)  == { ByteBits * j + k : k \in b }
LowHalf(w)    == w \cap (0 .. 2 * ByteBits - 1)
HighHalf(w)   == { k \in 0 .. 2 * ByteBits - 1 : 2 * ByteBits + k \in w }

(* The number whose bits these are, and the bits of an address.            *)
Digit(w, j, k)   == IF k < ByteBits /\ ByteBits * j + k \in w THEN 2 ^ k ELSE 0
LaneNumber(w, j) == Digit(w, j, 0) + Digit(w, j, 1) + Digit(w, j, 2) + Digit(w, j, 3)
                      + Digit(w, j, 4) + Digit(w, j, 5) + Digit(w, j, 6) + Digit(w, j, 7)
Number[w \in Word] ==
  LaneNumber(w, 0) + 2 ^ ByteBits * LaneNumber(w, 1)
    + 2 ^ (2 * ByteBits) * LaneNumber(w, 2) + 2 ^ (3 * ByteBits) * LaneNumber(w, 3)
Address(n) == { k \in 0 .. AddrBits - 1 : (n \div 2 ^ k) % 2 = 1 }

(* & 0x1fffff.  The size of RAM divides what the highest byte counts.      *)
RamAddress(w) ==
  (LaneNumber(w, 0) + 2 ^ ByteBits * LaneNumber(w, 1)
     + 2 ^ (2 * ByteBits) * LaneNumber(w, 2)) % RamSize

(* The n bytes from a on, as the code indexes them: the index is a 32-bit  *)
(* sum.                                                                    *)
Index(a, j)        == (a + j) % Space
Inside(f, a, n)    == f # Null /\ \A j \in 0 .. n - 1 : Index(a, j) \in DOMAIN f
Load(f, a, n)      == UNION { InLane(f[Index(a, j)], j) : j \in 0 .. n - 1 }

(* Mutant of Stored: the second byte of a half and the upper ones of a     *)
(* word overtake each other.                                               *)
StoredSwapped(f, a, n, w) ==
  [x \in DOMAIN f |-> IF (x - a) % Space < n THEN Lane(w, n - 1 - ((x - a) % Space)) ELSE f[x]]

(* Of a store that is only partly in RAM the bytes in RAM are stored.      *)
Stored(f, a, n, w) ==
  [x \in DOMAIN f |-> IF (x - a) % Space < n THEN Lane(w, (x - a) % Space) ELSE f[x]]

-----------------------------------------------------------------------------
MemoryInit == kuseg = Null /\ bseg = Null

(* new and memset.  The assert before them holds: main calls this once.    *)
psmem_init == kuseg = Null /\ kuseg' = [a \in Ram |-> Fill]

(* file is what is at the path: Null, or the function of its bytes.  The   *)
(* caller ignores the result.  Mutant: the size is not looked at.          *)
load_bios_any(file) == bseg = Null /\ bseg' = file

load_bios(file) ==
  bseg = Null /\ bseg' = IF file # Null /\ DOMAIN file = Rom THEN file ELSE Null

MemoryTypeOK ==
  /\ kuseg = Null \/ kuseg \in [Ram -> Byte]
  /\ bseg = Null \/ bseg \in [Rom -> Byte]
=============================================================================
