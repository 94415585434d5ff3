-------------------------------- MODULE Bus ---------------------------------
(***************************************************************************)
(* The bus (bus.cpp): which device answers at a physical address.  Six     *)
(* functions, a read and a write for each width, each a list of tests on   *)
(* the address; an address that none of them knows indexes the RAM array,  *)
(* wherever that ends up.                                                  *)
(*                                                                         *)
(* What a read may deliver is a set of words: one, if the address is one   *)
(* of a device's; Wild or the end of the process (Fault) where the code    *)
(* reads outside an array.  A store outside an array goes unnoticed or     *)
(* ends the process.  What else it might overwrite is not modelled.        *)
(*                                                                         *)
(* The contents of mem_size, mem_creg and spu_creg are never read.         *)
(***************************************************************************)
EXTENDS DmaController

CONSTANTS
  BiosBase,    \* PSX_BIOS_SEGMENT_PHYS, 0x1fc00000
  IoBase,      \* PSX_MEM_CONTROL_BASE, 0x1f801000
  Expansion1,  \* 0x1f000080
  CacheCtrl,   \* PSX_CACHE_CTRL_REG, 0xfffe0130
  Wild,        \* the words that lie around outside the arrays
  Fault,       \* the read that ends the process
  Data,        \* the words that the program writes
  Files        \* what may be at the BIOS file's path

vars == << kuseg, bseg, dma_vars, running >>

-----------------------------------------------------------------------------
(* The memory map.  Offsets are from IoBase.                               *)
At(addr, offsets) == addr - IoBase \in offsets

MemControl   == 0 .. \h20
RamSizeReg   == \h60
IrqStatus    == \h70
IrqMask      == \h74

(* Mutant of DmaRegisters: the last register's test is written with <.     *)
DmaRegistersShort == { a \in \h80 .. \he7 : (a \div 16) - 8 \in Channel }

(* Of the channels there are: with all seven of them, 0x80 .. 0xe8.        *)
DmaRegisters == { a \in \h80 .. \he8 : (a \div 16) - 8 \in Channel }
Dpcr         == \hf0
Dicr         == \hf4
Counters     == { \h100 + 16 * t : t \in 0 .. 2 }
Timers       == { c + r : c \in Counters, r \in {0, 4, 8} }
Cdrom        == \h800
Gp0          == \h810
Gp1          == \h814
SpuControl   == \hd80 .. \hdbc
Spu          == \hc00 .. \he80
Expansion2   == \h1000 .. \h1042

Addresses == 0 .. Space - 1
InBios(addr, last) == addr \in BiosBase .. BiosBase + last
InExpansion1(addr) == addr \in Expansion1 .. Expansion1 + 4

ASSUME BusAssumption ==
  /\ {BiosBase, IoBase, Expansion1, CacheCtrl} \subseteq Addresses
  /\ IoBase % 256 = 0 /\ Expansion1 >= RamSize /\ IoBase > Expansion1 + 4
  /\ BiosBase > IoBase + \h1042 /\ CacheCtrl > BiosBase + BiosSize /\ CacheCtrl + 4 <= Space
  /\ Wild \subseteq Word /\ Fault \notin Word /\ Data \subseteq Word
  /\ \A file \in Files : file = Null \/
       (file \in [DOMAIN file -> Byte] /\ DOMAIN file = 0 .. Cardinality(DOMAIN file) - 1)

-----------------------------------------------------------------------------
(* Reads.  f[a] for the n bytes from a on; nothing is mapped at null.      *)
Lying(f, a, w, j) == IF Index(a, j) \in DOMAIN f THEN f[Index(a, j)] ELSE Lane(w, j)

Found(f, a, n) ==
  IF f = Null THEN {Fault}
  ELSE IF Inside(f, a, n) THEN { Load(f, a, n) }
  ELSE { UNION { InLane(Lying(f, a, w, j), j) : j \in 0 .. n - 1 } : w \in Wild } \cup {Fault}

Bios(addr, n) == Found(bseg, addr - BiosBase, n)
Ones          == 0 .. ByteBits - 1

(* GPUSTAT, 0x1c000000, and the two words behind DICR, 0x7ffac68b and      *)
(* 0x00fffff7, whose bytes are 7f fa c6 8b and 00 ff ff f7.                *)
Constant(b3, b2, b1, b0) ==
  InLane(Ones \cap b3, 3) \cup InLane(Ones \cap b2, 2)
    \cup InLane(Ones \cap b1, 1) \cup InLane(Ones \cap b0, 0)
ReadyToSend == Constant(2 .. 4, {}, {}, {})
Behind8     == Constant(0 .. 6, {1} \cup 3 .. 7, {1, 2, 6, 7}, {0, 1, 3, 7})
BehindC     == Constant({}, Ones, Ones, (0 .. 2) \cup (4 .. 7))

read_byte(addr) ==
  CASE InBios(addr, BiosSize)                         -> Bios(addr, 1)
    [] At(addr, Expansion2) \/ InExpansion1(addr)     -> {Ones}
    [] OTHER                                          -> Found(kuseg, addr, 1)

read_hword(addr) ==
  CASE InBios(addr, BiosSize - 1)                     -> Bios(addr, 2)
    [] At(addr, SpuControl \cup Spu \cup {IrqMask})   -> {{}}
    [] OTHER                                          -> Found(kuseg, addr, 2)

(* mem_creg[addr]: the whole address is the index.                         *)
read_word(addr) ==
  CASE InBios(addr, BiosSize - 1)                     -> Bios(addr, 4)
    [] At(addr, MemControl)                           -> Wild \cup {Fault}
    [] At(addr, {IrqMask, Gp0} \cup Counters)         -> {{}}
    [] At(addr, {Gp1})                                -> {ReadyToSend}
    [] At(addr, {Dpcr})                               -> {dpcr}
    [] At(addr, {Dicr})                               -> {dicr}
    [] At(addr, DmaRegisters)                         ->
         IF controller_read(addr) = {} THEN {Fault} ELSE controller_read(addr)
    [] At(addr, {\hf8})                               -> {Behind8}
    [] At(addr, {\hfc})                               -> {BehindC}
    [] OTHER                                          -> Found(kuseg, addr, 4)

Outcomes(addr, n) ==
  CASE n = 1 -> read_byte(addr) [] n = 2 -> read_hword(addr) [] n = 4 -> read_word(addr)

(* A read that delivers w.                                                 *)
Read(addr, n, w) ==
  w \in Outcomes(addr, n) /\ IF w = Fault THEN Exit ELSE UNCHANGED vars

-----------------------------------------------------------------------------
(* Writes.                                                                 *)
Ignore == UNCHANGED vars

(* kuseg[addr + j] for the bytes of val.                                   *)
Store(addr, n, val) ==
  \/ /\ kuseg' = Stored(kuseg, addr, n, val)
     /\ UNCHANGED << bseg, dma_vars, running >>
  \/ ~Inside(kuseg, addr, n) /\ Exit

(* mem_creg has ten elements, spu_creg twenty; both are indexed with the   *)
(* byte offset of the register.                                            *)
write_creg(index, elements) == Ignore \/ (index >= elements /\ Exit)

write_byte(addr, val) ==
  CASE At(addr, Expansion2) -> Ignore
    [] At(addr, {Cdrom})    -> Exit
    [] OTHER                -> Store(addr, 1, val)

(* The value is 16 bits wide, and so are the controller's registers then.  *)
write_hword(addr, val) ==
  CASE At(addr, SpuControl)                             -> write_creg(addr - IoBase - \hd80, 20)
    [] At(addr, (Spu \ SpuControl) \cup Timers \cup {IrqMask}) -> Ignore
    [] At(addr, DmaRegisters)                           -> controller_write(addr, LowHalf(val))
    [] OTHER                                            -> Store(addr, 2, val)

write_word(addr, val) ==
  CASE At(addr, {IrqStatus, IrqMask, RamSizeReg, Gp0, Gp1} \cup Timers)
                                       -> Ignore
    [] At(addr, MemControl)            -> write_creg(addr - IoBase, 10)
    [] addr = CacheCtrl                -> Ignore
    [] At(addr, {Dpcr})                -> write_dpcr(val)
    [] At(addr, {Dicr})                -> write_dicr(val)
    [] At(addr, DmaRegisters)          -> controller_write(addr, val)
    [] OTHER                           -> Store(addr, 4, val)

Write(addr, n, val) ==
  CASE n = 1 -> write_byte(addr, val) [] n = 2 -> write_hword(addr, val)
    [] n = 4 -> write_word(addr, val)

-----------------------------------------------------------------------------
(* main() fills RAM, loads the BIOS, and then lets the processor access    *)
(* what it likes; while a transfer runs the processor waits.  Nothing      *)
(* calls psmem_destroy.                                                    *)
Boot ==
  /\ psmem_init /\ \E file \in Files : load_bios(file)
  /\ UNCHANGED << dma_vars, running >>

Ready == running /\ kuseg # Null /\ transfer.phase = "none"

Access ==
  /\ Ready
  /\ \E addr \in Addresses, n \in {1, 2, 4} :
       \/ \E w \in Outcomes(addr, n) : Read(addr, n, w)
       \/ \E val \in Data : Write(addr, n, val)

Ended == ~running /\ UNCHANGED vars

Init == MemoryInit /\ ControllerInit
Next == Boot \/ Access \/ Transferring \/ Ended

(* Inside a register write the loops of a transfer run on.                 *)
Spec == Init /\ [][Next]_vars /\ WF_vars(Transferring)

-----------------------------------------------------------------------------
Register == [base_address : Word, block_control : Word, channel_control : Word,
             from_ram : BOOLEAN, syncmode : {IMMEDIATE, REQUEST, LINKED_LIST}]
Transfer == [phase : {"none", "block", "entry", "packet"}, channel : Channel,
             addr : Ram, words_left : Nat, entry : Word]

TypeOK ==
  /\ MemoryTypeOK
  /\ dpcr \in Word /\ dicr \in Word
  /\ channels \in [Channel -> Register]
  /\ transfer \in Transfer
  /\ running \in BOOLEAN

(* Bit 31 of DICR, in the word the program reads, is what the other bits   *)
(* make it.                                                                *)
ActiveIsCurrent == dicr = update_irq_active(dicr)

=============================================================================
