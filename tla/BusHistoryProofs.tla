-------------------------- MODULE BusHistoryProofs --------------------------
(***************************************************************************)
(* Proofs that memory is memory: what the program reads of RAM and of the  *)
(* controller's registers is what it wrote there, for every memory map,    *)
(* size, width and sequence of accesses and transfers; and that on the     *)
(* console's memory map the documented accesses are answered.              *)
(***************************************************************************)
EXTENDS BusHistory, BusProofs

-----------------------------------------------------------------------------
(* Bytes put together into a word come back.                               *)
LEMMA LaneOfUnion ==
  ASSUME NEW n \in {1, 2, 4}, NEW g \in [0 .. n - 1 -> Byte], NEW j \in 0 .. n - 1
  PROVE  Lane(UNION { InLane(g[i], i) : i \in 0 .. n - 1 }, j) = g[j]
<1> DEFINE w == UNION { InLane(g[i], i) : i \in 0 .. n - 1 }
<1>1. ByteBits \in 4 .. 8
  BY MemoryAssumption
<1>2. \A i \in 0 .. n - 1 : i \in 0 .. 3 /\ g[i] \subseteq 0 .. ByteBits - 1
  BY DEF Byte
<1>3. \A i, l \in 0 .. 3 : \A m, k \in 0 .. ByteBits - 1 :
        ByteBits * i + m = ByteBits * l + k => i = l /\ m = k
  BY <1>1
<1>4. ASSUME NEW k \in 0 .. ByteBits - 1
      PROVE  ByteBits * j + k \in w <=> k \in g[j]
  <2>1. ASSUME k \in g[j] PROVE ByteBits * j + k \in w
    BY <2>1 DEF InLane
  <2>2. ASSUME ByteBits * j + k \in w PROVE k \in g[j]
    <3>1. PICK i \in 0 .. n - 1 : ByteBits * j + k \in InLane(g[i], i)
      BY <2>2
    <3>2. PICK m \in g[i] : ByteBits * j + k = ByteBits * i + m
      BY <3>1 DEF InLane
    <3>3. i = j /\ m = k
      BY <1>2, <1>3, <3>2
    <3> QED
      BY <3>2, <3>3
  <2> QED
    BY <2>1, <2>2
<1> HIDE DEF w
<1>5. Lane(w, j) = { k \in 0 .. ByteBits - 1 : k \in g[j] }
  BY <1>4 DEF Lane
<1> QED
  BY <1>2, <1>5 DEF w

-----------------------------------------------------------------------------
(* Where the devices are.                                                  *)
Devices == 0 .. \h1042

LEMMA Offsets ==
  /\ MemControl \subseteq Devices /\ DmaRegisters \subseteq Devices /\ Counters \subseteq Devices
  /\ Timers \subseteq Devices /\ SpuControl \subseteq Devices /\ Spu \subseteq Devices
  /\ Expansion2 \subseteq Devices
  /\ {RamSizeReg, IrqStatus, IrqMask, Dpcr, Dicr, Cdrom, Gp0, Gp1, \hf8, \hfc} \subseteq Devices
<1> USE DEF Devices
<1>1. MemControl \subseteq Devices
  BY DEF MemControl
<1>2. DmaRegisters \subseteq Devices
  BY DEF DmaRegisters
<1>3. Counters \subseteq 256 .. 288
  BY DEF Counters
<1>4. Timers \subseteq Devices
  BY <1>3 DEF Timers
<1>5. SpuControl \subseteq Devices
  BY DEF SpuControl
<1>6. Spu \subseteq Devices
  BY DEF Spu
<1>7. Expansion2 \subseteq Devices
  BY DEF Expansion2
<1>8. {RamSizeReg, IrqStatus, IrqMask, Dpcr, Dicr, Cdrom, Gp0, Gp1, \hf8, \hfc} \subseteq Devices
  BY DEF RamSizeReg, IrqStatus, IrqMask, Dpcr, Dicr, Cdrom, Gp0, Gp1
<1>9. Counters \subseteq Devices
  BY <1>3
<1> HIDE DEF Devices
<1> QED
  BY <1>1, <1>2, <1>4, <1>5, <1>6, <1>7, <1>8, <1>9

(* Nothing but RAM answers at addr.                                        *)
Plain(addr) ==
  /\ ~InBios(addr, BiosSize) /\ ~InBios(addr, BiosSize - 1) /\ ~InExpansion1(addr)
  /\ \A offsets \in SUBSET Devices : ~At(addr, offsets)
  /\ addr # CacheCtrl

(* An access that reaches RAM, even around the end of the address space,   *)
(* is one that no device answers.                                          *)
LEMMA RamIsPlain ==
  ASSUME NEW addr \in Addresses, NEW j \in 0 .. 3, Index(addr, j) \in Ram
  PROVE  Plain(addr)
<1>1. /\ RamSize \in Nat /\ Space \in Nat /\ Space > RamSize /\ BiosSize \in Nat
      /\ BiosSize > 0 /\ addr \in Nat /\ addr < Space
  BY MemoryAssumption DEF Addresses
<1>2. /\ IoBase \in Nat /\ BiosBase \in Nat /\ Expansion1 \in Nat /\ CacheCtrl \in Nat
      /\ Expansion1 >= RamSize /\ IoBase > Expansion1 + 4 /\ BiosBase > IoBase + \h1042
      /\ CacheCtrl > BiosBase + BiosSize /\ CacheCtrl + 4 <= Space
  BY BusAssumption, <1>1 DEF Addresses
<1>3. addr < RamSize \/ addr + 3 >= Space
  <2>1. CASE addr + j < Space
    BY <1>1, <2>1 DEF Index, Ram
  <2>2. CASE addr + j >= Space
    BY <1>1, <2>2
  <2> QED
    BY <1>1, <2>1, <2>2
<1>4. addr < Expansion1 \/ addr > CacheCtrl
  BY <1>1, <1>2, <1>3
<1>5. addr - IoBase < 0 \/ addr - IoBase > \h1042
  BY <1>1, <1>2, <1>4
<1>6. \A offsets \in SUBSET Devices : ~At(addr, offsets)
  BY <1>1, <1>2, <1>5 DEF At, Devices
<1>7. ~InBios(addr, BiosSize) /\ ~InBios(addr, BiosSize - 1) /\ ~InExpansion1(addr)
      /\ addr # CacheCtrl
  BY <1>1, <1>2, <1>4 DEF InBios, InExpansion1
<1> QED
  BY <1>6, <1>7 DEF Plain

LEMMA PlainRead ==
  ASSUME NEW addr, Plain(addr), NEW n \in {1, 2, 4}
  PROVE  Outcomes(addr, n) = Found(kuseg, addr, n)
<1> USE Offsets DEF Plain
<1>1. read_byte(addr) = Found(kuseg, addr, 1)
  BY DEF read_byte
<1>2. read_hword(addr) = Found(kuseg, addr, 2)
  <2>1. SpuControl \cup Spu \cup {IrqMask} \subseteq Devices
    OBVIOUS
  <2> QED
    BY <2>1 DEF read_hword
<1>3. read_word(addr) = Found(kuseg, addr, 4)
  <2>1. /\ {IrqMask, Gp0} \cup Counters \subseteq Devices
        /\ {Gp1} \subseteq Devices /\ {Dpcr} \subseteq Devices /\ {Dicr} \subseteq Devices
        /\ {\hf8} \subseteq Devices /\ {\hfc} \subseteq Devices
    OBVIOUS
  <2> QED
    BY <2>1 DEF read_word
<1> QED
  BY <1>1, <1>2, <1>3 DEF Outcomes

LEMMA PlainWrite ==
  ASSUME NEW addr, Plain(addr), NEW n \in {1, 2, 4}, NEW val, Write(addr, n, val)
  PROVE  Store(addr, n, val)
<1> USE Offsets DEF Plain
<1>1. write_byte(addr, val) => Store(addr, 1, val)
  <2>1. {Cdrom} \subseteq Devices
    OBVIOUS
  <2> QED
    BY <2>1 DEF write_byte
<1>2. write_hword(addr, val) => Store(addr, 2, val)
  <2>1. (Spu \ SpuControl) \cup Timers \cup {IrqMask} \subseteq Devices
    OBVIOUS
  <2> QED
    BY <2>1 DEF write_hword
<1>3. write_word(addr, val) => Store(addr, 4, val)
  <2>1. /\ {IrqStatus, IrqMask, RamSizeReg, Gp0, Gp1} \cup Timers \subseteq Devices
        /\ {Dpcr} \subseteq Devices /\ {Dicr} \subseteq Devices
    OBVIOUS
  <2> QED
    BY <2>1 DEF write_word
<1> QED
  BY <1>1, <1>2, <1>3 DEF Write

-----------------------------------------------------------------------------
(* What a read of RAM delivers, byte by byte.                              *)
LEMMA RamRead ==
  ASSUME kuseg \in [Ram -> Byte], NEW addr \in Addresses, NEW n \in {1, 2, 4},
         NEW w \in Outcomes(addr, n), w # Fault,
         NEW j \in 0 .. n - 1, Index(addr, j) \in Ram
  PROVE  Lane(w, j) = kuseg[Index(addr, j)]
<1>1. kuseg # Null /\ DOMAIN kuseg = Ram
  BY MemoryAssumption
<1>2. w \in Found(kuseg, addr, n)
  <2>1. j \in 0 .. 3
    OBVIOUS
  <2> QED
    BY <2>1, RamIsPlain, PlainRead
<1>3. CASE Inside(kuseg, addr, n)
  <2> DEFINE g == [i \in 0 .. n - 1 |-> kuseg[Index(addr, i)]]
  <2>1. g \in [0 .. n - 1 -> Byte]
    BY <1>1, <1>3 DEF Inside
  <2>2. w = Load(kuseg, addr, n)
    BY <1>1, <1>2, <1>3 DEF Found
  <2>3. w = UNION { InLane(g[i], i) : i \in 0 .. n - 1 }
    BY <2>2 DEF Load
  <2>4. g[j] = kuseg[Index(addr, j)]
    OBVIOUS
  <2> HIDE DEF g
  <2>5. Lane(w, j) = g[j]
    BY <2>1, <2>3, LaneOfUnion
  <2> QED
    BY <2>4, <2>5
<1>4. CASE ~Inside(kuseg, addr, n)
  <2>1. PICK wild \in Wild :
          w = UNION { InLane(Lying(kuseg, addr, wild, i), i) : i \in 0 .. n - 1 }
    BY <1>1, <1>2, <1>4 DEF Found
  <2> DEFINE g == [i \in 0 .. n - 1 |-> Lying(kuseg, addr, wild, i)]
  <2>2. \A i : Lying(kuseg, addr, wild, i) \in Byte
    BY <1>1, LaneType DEF Lying
  <2>3. g \in [0 .. n - 1 -> Byte]
    BY <2>2
  <2>4. w = UNION { InLane(g[i], i) : i \in 0 .. n - 1 }
    BY <2>1
  <2>5. g[j] = kuseg[Index(addr, j)]
    BY <1>1 DEF Lying
  <2> HIDE DEF g
  <2>6. Lane(w, j) = g[j]
    BY <2>3, <2>4, LaneOfUnion
  <2> QED
    BY <2>5, <2>6
<1> QED
  BY <1>3, <1>4

(* What a write does to RAM, if it does not end the process.               *)
LEMMA WriteOrStore ==
  ASSUME NEW addr, NEW n \in {1, 2, 4}, NEW val, Write(addr, n, val)
  PROVE  Exit \/ UNCHANGED kuseg \/ Store(addr, n, val)
<1> DEFINE Either == Exit \/ UNCHANGED kuseg
<1>1. (Ignore => Either) /\ \A i, k : write_creg(i, k) => Either
  BY DEF Ignore, vars, write_creg
<1>2. \A a, v : controller_write(a, v) => Either
  BY DEF controller_write, write_register, write_chcr
<1>3. \A v : (write_dpcr(v) => Either) /\ (write_dicr(v) => Either)
  BY DEF write_dpcr, write_dicr
<1> HIDE DEF Either
<1>4. write_byte(addr, val) => Either \/ Store(addr, 1, val)
  BY <1>1 DEF write_byte, Either
<1>5. write_hword(addr, val) => Either \/ Store(addr, 2, val)
  BY <1>1, <1>2 DEF write_hword
<1>6. write_word(addr, val) => Either \/ Store(addr, 4, val)
  BY <1>1, <1>2, <1>3 DEF write_word
<1> QED
  BY <1>4, <1>5, <1>6 DEF Write, Either

LEMMA RamWrite ==
  ASSUME kuseg \in [Ram -> Byte], NEW addr \in Addresses, NEW n \in {1, 2, 4}, NEW val,
         Write(addr, n, val), running', NEW a \in Ram
  PROVE  kuseg'[a] = IF (a - addr) % Space < n THEN Lane(val, (a - addr) % Space)
                                               ELSE kuseg[a]
<1> DEFINE j == (a - addr) % Space
<1>1. ~Exit
  BY DEF Exit
<1>2. CASE Store(addr, n, val)
  BY <1>1, <1>2 DEF Store, Stored
<1>3. CASE kuseg' = kuseg /\ ~Store(addr, n, val)
  <2>1. ~Plain(addr)
    BY <1>3, PlainWrite
  <2>2. ~(j < n)
    <3> SUFFICES ASSUME j < n PROVE FALSE
      OBVIOUS
    <3>1. /\ Space \in Nat /\ Space > RamSize /\ RamSize \in Nat
          /\ addr \in Nat /\ addr < Space /\ a \in Nat /\ a < RamSize
      BY MemoryAssumption DEF Addresses, Ram
    <3>2. j = a - addr \/ j = a - addr + Space
      BY <3>1
    <3>3. j \in 0 .. Space - 1
      BY <3>1
    <3> HIDE DEF j
    <3>4. j \in 0 .. 3
      BY <3>3
    <3>5. (addr + j) % Space = a
      <4>1. CASE addr + j = a
        BY <3>1, <4>1
      <4>2. CASE addr + j = a + Space
        BY <3>1, <4>2
      <4> QED
        BY <3>1, <3>2, <3>3, <4>1, <4>2
    <3> QED
      BY <2>1, <3>4, <3>5, RamIsPlain DEF Index
  <2> QED
    BY <1>3, <2>2
<1> QED
  BY <1>1, <1>2, <1>3, WriteOrStore

-----------------------------------------------------------------------------
(* The registers of the controller and their addresses.                    *)
LEMMA ChannelNumbers == ASSUME NEW c \in Channel PROVE c \in 0 .. 6
  BY ControllerAssumption

LEMMA Base == IoBase \in Nat /\ IoBase % 256 = 0 /\ \E q \in Nat : IoBase = 256 * q
<1>1. IoBase \in Nat /\ IoBase % 256 = 0
  BY BusAssumption, MemoryAssumption DEF Addresses
<1>2. IoBase \div 256 \in Nat /\ IoBase = 256 * (IoBase \div 256)
  BY <1>1
<1> QED
  BY <1>1, <1>2

LEMMA AddressOfRegister ==
  ASSUME NEW c \in Channel, NEW r \in {0, 4, 8}
  PROVE  LET a == Register0(c) + r IN
         /\ a - IoBase \in \h80 .. \he8 /\ (a - IoBase) \div 16 - 8 = c
         /\ ChannelAt(a) = c /\ RegisterAt(a) = r
<1>1. PICK q \in Nat : IoBase = 256 * q
  BY Base
<1>2. c \in 0 .. 6
  BY ChannelNumbers
<1> DEFINE a == Register0(c) + r
<1>3. a = 256 * q + 128 + 16 * c + r
  BY <1>1, <1>2 DEF Register0
<1>4. a - IoBase \in \h80 .. \he8 /\ (a - IoBase) \div 16 - 8 = c
  BY <1>1, <1>2, <1>3
<1>5. a \div 16 = 16 * q + 8 + c
  BY <1>2, <1>3
<1>6. (16 * q + 8 + c) % 16 = 8 + c
  BY <1>2
<1>7. a % 16 = r
  BY <1>2, <1>3
<1> QED
  BY <1>2, <1>4, <1>5, <1>6, <1>7 DEF ChannelAt, RegisterAt

LEMMA RegisterOfAddress ==
  ASSUME NEW addr \in Addresses, At(addr, DmaRegisters)
  PROVE  /\ ChannelAt(addr) \in Channel /\ RegisterAt(addr) \in 0 .. 15
         /\ addr = Register0(ChannelAt(addr)) + RegisterAt(addr)
<1>1. PICK q \in Nat : IoBase = 256 * q
  BY Base
<1> DEFINE o == addr - IoBase
<1>2. o \in \h80 .. \he8
  BY DEF At, DmaRegisters
<1>3. addr = 256 * q + o
  BY <1>1, <1>2, MemoryAssumption DEF Addresses
<1> HIDE DEF o
<1>4. ChannelAt(addr) = (o \div 16) - 8 /\ RegisterAt(addr) = o % 16
  <2>1. addr \div 16 = 16 * q + (o \div 16) /\ o \div 16 \in 8 .. 14
    BY <1>2, <1>3
  <2>2. (16 * q + (o \div 16)) % 16 = o \div 16
    BY <2>1
  <2>3. addr % 16 = o % 16
    BY <1>2, <1>3
  <2> QED
    BY <2>1, <2>2, <2>3 DEF ChannelAt, RegisterAt
<1>5. o = 16 * (o \div 16) + (o % 16) /\ o % 16 \in 0 .. 15
  BY <1>2
<1>6. Register0(ChannelAt(addr)) + RegisterAt(addr) = IoBase + 128 + 16 * ((o \div 16) - 8) + (o % 16)
  BY <1>4 DEF Register0
<1> QED
  BY <1>1, <1>2, <1>3, <1>4, <1>5, <1>6, ChannelType

(* Different registers have different addresses.                           *)
LEMMA Distinct ==
  ASSUME NEW c \in Channel, NEW d \in Channel, NEW r \in {0, 4, 8}, NEW s \in {0, 4, 8}
  PROVE  /\ Register0(c) + r = Register0(d) + s => c = d /\ r = s
         /\ Register0(c) + r # IoBase + Dpcr /\ Register0(c) + r # IoBase + Dicr
<1>1. IoBase \in Nat /\ c \in 0 .. 6 /\ d \in 0 .. 6
  BY Base, ChannelNumbers
<1> QED
  BY <1>1 DEF Register0, Dpcr, Dicr

LEMMA NarrowIs ==
  ASSUME NEW val \in Word
  PROVE  Narrow(4, val) = val /\ Narrow(2, val) = LowHalf(val)
<1>1. ByteBits \in Nat /\ \A k \in val : k \in Nat /\ k < 4 * ByteBits
  BY MemoryAssumption DEF Word, Bit
<1> QED
  BY <1>1 DEF Narrow, LowHalf

LEMMA PlacesOf ==
  ASSUME NEW c \in Channel, NEW r \in {0, 4, 8}, NEW addr, addr = Register0(c) + r
  PROVE  /\ addr \in Addresses /\ At(addr, DmaRegisters)
         /\ addr - IoBase \in \h80 .. \he8 /\ addr # CacheCtrl
         /\ ~InBios(addr, BiosSize - 1)
<1>1. addr - IoBase \in \h80 .. \he8 /\ (addr - IoBase) \div 16 - 8 = c
  BY AddressOfRegister
<1>2. At(addr, DmaRegisters)
  BY <1>1 DEF At, DmaRegisters
<1>3. /\ IoBase \in Nat /\ BiosBase \in Nat /\ CacheCtrl \in Nat /\ Space \in Nat
      /\ BiosBase > IoBase + \h1042 /\ BiosBase < Space /\ CacheCtrl > BiosBase
  <2>1. Space \in Nat /\ BiosSize \in Nat
    BY MemoryAssumption
  <2> QED
    BY <2>1, BusAssumption DEF Addresses
<1>4. addr \in Int
  BY <1>3, ChannelNumbers DEF Register0
<1> QED
  BY <1>1, <1>2, <1>3, <1>4 DEF Addresses, InBios

(* Which of the bus's tests a register of a channel passes.                *)
LEMMA WriteOfRegister ==
  ASSUME NEW c \in Channel, NEW r \in {0, 4, 8}, NEW n \in {2, 4}, NEW val \in Word,
         NEW addr, addr = Register0(c) + r, Write(addr, n, val)
  PROVE  controller_write(addr, Narrow(n, val))
<1> DEFINE o == addr - IoBase
<1>1. o \in \h80 .. \he8 /\ At(addr, DmaRegisters) /\ addr # CacheCtrl
  BY PlacesOf
<1>2. o \notin SpuControl /\ o \notin Spu /\ o \notin Timers /\ o \notin MemControl
      /\ o \notin {IrqStatus, IrqMask, RamSizeReg, Gp0, Gp1, Dpcr, Dicr}
  <2> HIDE DEF o
  <2>1. o \notin MemControl
    BY <1>1 DEF MemControl
  <2>2. \A t \in Timers \cup Spu \cup SpuControl : t \in Int /\ t >= 256
    BY DEF Timers, Counters, Spu, SpuControl
  <2>3. o \notin {IrqStatus, IrqMask, RamSizeReg, Gp0, Gp1, Dpcr, Dicr}
    BY <1>1 DEF IrqStatus, IrqMask, RamSizeReg, Gp0, Gp1, Dpcr, Dicr
  <2> QED
    BY <1>1, <2>1, <2>2, <2>3
<1>3. \A offsets : At(addr, offsets) <=> o \in offsets
  BY DEF At
<1> HIDE DEF o
<1>4. CASE n = 2
  <2>1. write_hword(addr, val)
    BY <1>4 DEF Write
  <2>2. ~At(addr, SpuControl) /\ ~At(addr, (Spu \ SpuControl) \cup Timers \cup {IrqMask})
    BY <1>2, <1>3
  <2>3. controller_write(addr, LowHalf(val))
    BY <1>1, <2>1, <2>2 DEF write_hword
  <2> QED
    BY <1>4, <2>3, NarrowIs
<1>5. CASE n = 4
  <2>1. write_word(addr, val)
    BY <1>5 DEF Write
  <2>2. /\ ~At(addr, {IrqStatus, IrqMask, RamSizeReg, Gp0, Gp1} \cup Timers)
        /\ ~At(addr, MemControl) /\ ~At(addr, {Dpcr}) /\ ~At(addr, {Dicr})
    BY <1>2, <1>3
  <2>3. controller_write(addr, val)
    BY <1>1, <2>1, <2>2 DEF write_word
  <2> QED
    BY <1>5, <2>3, NarrowIs
<1> QED
  BY <1>4, <1>5

LEMMA WriteOfControl ==
  ASSUME NEW val, NEW addr, addr \in {IoBase + Dpcr, IoBase + Dicr}, Write(addr, 4, val)
  PROVE  /\ addr = IoBase + Dpcr => write_dpcr(val)
         /\ addr = IoBase + Dicr => write_dicr(val)
<1> DEFINE o == addr - IoBase
<1>1. IoBase \in Nat /\ CacheCtrl \in Nat /\ CacheCtrl > IoBase + \h1042
  <2>1. Space \in Nat /\ BiosSize \in Nat
    BY MemoryAssumption
  <2> QED
    BY <2>1, BusAssumption DEF Addresses
<1>2. o \in \hf0 .. \hf4 /\ addr # CacheCtrl /\ o \in {Dpcr, Dicr}
  BY <1>1 DEF Dpcr, Dicr
<1>3. o \notin {IrqStatus, IrqMask, RamSizeReg, Gp0, Gp1} \cup Timers /\ o \notin MemControl
  <2>1. \A t \in Timers : t \in Int /\ t >= 256
    BY DEF Timers, Counters
  <2>2. o \notin MemControl
    BY <1>2 DEF MemControl
  <2>3. o \notin {IrqStatus, IrqMask, RamSizeReg, Gp0, Gp1}
    BY <1>2 DEF IrqStatus, IrqMask, RamSizeReg, Gp0, Gp1
  <2> QED
    BY <1>2, <2>1, <2>2, <2>3
<1>4. Dpcr # Dicr /\ (addr = IoBase + Dpcr <=> o = Dpcr) /\ (addr = IoBase + Dicr <=> o = Dicr)
  BY <1>1, <1>2 DEF Dpcr, Dicr
<1>5. \A offsets : At(addr, offsets) <=> o \in offsets
  BY DEF At
<1> HIDE DEF o
<1>6. write_word(addr, val)
  BY DEF Write
<1>7. /\ ~At(addr, {IrqStatus, IrqMask, RamSizeReg, Gp0, Gp1} \cup Timers)
      /\ ~At(addr, MemControl) /\ ~At(addr, DmaRegisters)
      /\ (At(addr, {Dpcr}) <=> o = Dpcr) /\ (At(addr, {Dicr}) <=> o = Dicr)
  <2>1. o \notin DmaRegisters
    BY <1>2 DEF DmaRegisters
  <2> QED
    BY <1>3, <1>5, <2>1
<1> QED
  BY <1>2, <1>4, <1>6, <1>7 DEF write_word

(* Nothing else reaches a register, unless the process ends.               *)
LEMMA WriteElsewhere ==
  ASSUME NEW addr \in Addresses, NEW n \in {1, 2, 4}, NEW val \in Word,
         addr \notin Programmed(n), Write(addr, n, val), running'
  PROVE  UNCHANGED << dpcr, dicr, channels, transfer >>
<1> DEFINE Same == UNCHANGED << dpcr, dicr, channels, transfer >>
<1>1. /\ Ignore => Same
      /\ \A i, k : write_creg(i, k) => Same
      /\ \A k : Store(addr, k, val) => Same
      /\ ~Exit
  BY DEF Ignore, vars, dma_vars, write_creg, Store, Exit
<1>2. ASSUME n \in {2, 4}, At(addr, DmaRegisters), NEW v, controller_write(addr, v)
      PROVE  FALSE
  <2>1. RegisterAt(addr) \in {0, 4, 8}
    BY <1>1, <1>2 DEF controller_write
  <2>2. addr \in ChannelRegisters
    BY <1>2, <2>1, RegisterOfAddress DEF ChannelRegisters
  <2> QED
    BY <1>2, <2>2 DEF Programmed, Programmable
<1>3. ASSUME n = 4, At(addr, {Dpcr}) \/ At(addr, {Dicr})
      PROVE  FALSE
  <2>1. addr = IoBase + Dpcr \/ addr = IoBase + Dicr
    BY <1>3, Base DEF At, Addresses, Dpcr, Dicr
  <2> QED
    BY <1>3, <2>1 DEF Programmed, Programmable
<1> HIDE DEF Same
<1>4. ASSUME n = 1 PROVE Same
  BY <1>1, <1>4 DEF Write, write_byte
<1>5. ASSUME n = 2 PROVE Same
  <2>1. write_hword(addr, val)
    BY <1>5 DEF Write
  <2> QED
    BY <1>1, <1>2, <1>5, <2>1 DEF write_hword
<1>6. ASSUME n = 4 PROVE Same
  <2>1. write_word(addr, val)
    BY <1>6 DEF Write
  <2> QED
    BY <1>1, <1>2, <1>3, <1>6, <2>1 DEF write_word
<1> QED
  BY <1>4, <1>5, <1>6 DEF Same

-----------------------------------------------------------------------------
(* The word in register r of channel c.                                    *)
Contents(c, r) ==
  IF r = 0 THEN channels[c].base_address
  ELSE IF r = 4 THEN channels[c].block_control ELSE channels[c].channel_control

LEMMA WriteContents ==
  ASSUME ControlOK, NEW c \in Channel, NEW r \in {0, 4, 8}, NEW n \in {2, 4}, NEW val \in Word,
         Write(Register0(c) + r, n, val), running'
  PROVE  /\ UNCHANGED << dpcr, dicr >>
         /\ \A d \in Channel, s \in {0, 4, 8} :
              Contents(d, s)' = IF d = c /\ s = r THEN Narrow(n, val) ELSE Contents(d, s)
<1> DEFINE addr == Register0(c) + r
           v == Narrow(n, val)
<1>1. ChannelAt(addr) = c /\ RegisterAt(addr) = r
  BY AddressOfRegister
<1>2. controller_write(addr, v)
  BY WriteOfRegister
<1>3. ~Exit
  BY DEF Exit
<1>4. channels \in [Channel -> Register]
  BY DEF ControlOK
<1> HIDE DEF addr, v
<1>5. CASE r = 0
  <2>1. write_register(c, "base_address", v)
    BY <1>1, <1>2, <1>3, <1>5 DEF controller_write
  <2> QED
    BY <1>4, <1>5, <2>1 DEF write_register, Contents, Register, v
<1>6. CASE r = 4
  <2>1. write_register(c, "block_control", v)
    BY <1>1, <1>2, <1>3, <1>6 DEF controller_write
  <2> QED
    BY <1>4, <1>6, <2>1 DEF write_register, Contents, Register, v
<1>7. CASE r = 8
  <2>1. write_chcr(c, v)
    BY <1>1, <1>2, <1>3, <1>7 DEF controller_write
  <2>2. channels' = [channels EXCEPT ![c] = Decoded(channels[c], v)] /\ UNCHANGED << dpcr, dicr >>
    BY <1>3, <2>1 DEF write_chcr
  <2>3. LET q == Decoded(channels[c], v) IN
        /\ q.channel_control = v /\ q.base_address = channels[c].base_address
        /\ q.block_control = channels[c].block_control
    BY <1>4 DEF Decoded, Register
  <2> QED
    BY <1>4, <1>7, <2>2, <2>3 DEF Contents, v
<1> QED
  BY <1>5, <1>6, <1>7

LEMMA FinishContents ==
  ASSUME ControlOK, NEW c \in Channel, NEW chcr, finish(c, chcr)
  PROVE  \A d \in Channel, s \in {0, 4, 8} :
           Contents(d, s)' = IF d = c /\ s = 8 THEN chcr ELSE Contents(d, s)
<1>1. channels \in [Channel -> Register]
  BY DEF ControlOK
<1> QED
  BY <1>1 DEF finish, Contents, Register

(* Reads of the registers, as words.                                       *)
LEMMA ReadContents ==
  ASSUME NEW c \in Channel, NEW r \in {0, 4, 8}
  PROVE  Outcomes(Register0(c) + r, 4) = { Contents(c, r) }
<1> DEFINE addr == Register0(c) + r
           o == addr - IoBase
<1>1. /\ o \in \h80 .. \he8 /\ At(addr, DmaRegisters) /\ ~InBios(addr, BiosSize - 1)
      /\ ChannelAt(addr) = c /\ RegisterAt(addr) = r
  BY PlacesOf, AddressOfRegister
<1>2. controller_read(addr) = { Contents(c, r) }
  <2> HIDE DEF addr
  <2> QED
    BY <1>1 DEF controller_read, Contents
<1>3. \A offsets : At(addr, offsets) <=> o \in offsets
  BY DEF At
<1> HIDE DEF addr, o
<1>4. /\ o \notin MemControl /\ o \notin {IrqMask, Gp0} \cup Counters
      /\ o \notin {Gp1} /\ o \notin {Dpcr} /\ o \notin {Dicr}
      /\ o \notin {\hf8} /\ o \notin {\hfc}
  <2>1. \A t \in Counters : t \in Int /\ t >= 256
    BY DEF Counters
  <2>2. o \notin MemControl
    BY <1>1 DEF MemControl
  <2> QED
    BY <1>1, <2>1, <2>2 DEF IrqMask, Gp0, Gp1, Dpcr, Dicr
<1>5. /\ ~At(addr, MemControl) /\ ~At(addr, {IrqMask, Gp0} \cup Counters)
      /\ ~At(addr, {Gp1}) /\ ~At(addr, {Dpcr}) /\ ~At(addr, {Dicr})
      /\ ~At(addr, {\hf8}) /\ ~At(addr, {\hfc})
  BY <1>3, <1>4
<1>6. read_word(addr) = { Contents(c, r) }
  BY <1>1, <1>2, <1>5 DEF read_word
<1> QED
  BY <1>6 DEF Outcomes, addr

LEMMA ReadControl ==
  Outcomes(IoBase + Dpcr, 4) = {dpcr} /\ Outcomes(IoBase + Dicr, 4) = {dicr}
<1> SUFFICES ASSUME NEW addr \in {IoBase + Dpcr, IoBase + Dicr}
             PROVE  read_word(addr) = IF addr = IoBase + Dpcr THEN {dpcr} ELSE {dicr}
  <2>1. IoBase + Dpcr # IoBase + Dicr
    BY Base DEF Dpcr, Dicr
  <2> QED
    BY <2>1 DEF Outcomes
<1> DEFINE o == addr - IoBase
<1>1. o \in {Dpcr, Dicr} /\ o \in \hf0 .. \hf4 /\ (addr = IoBase + Dpcr <=> o = Dpcr)
  BY Base DEF Dpcr, Dicr
<1>2. ~InBios(addr, BiosSize - 1)
  <2>1. IoBase \in Nat /\ BiosBase \in Nat /\ BiosBase > IoBase + \h1042
    <3>1. Space \in Nat
      BY MemoryAssumption
    <3> QED
      BY <3>1, BusAssumption DEF Addresses
  <2> QED
    BY <2>1 DEF InBios, Dpcr, Dicr
<1>3. \A offsets : At(addr, offsets) <=> o \in offsets
  BY DEF At
<1> HIDE DEF o
<1>4. /\ o \notin MemControl /\ o \notin {IrqMask, Gp0} \cup Counters /\ o \notin DmaRegisters
      /\ o \notin {Gp1} /\ o \notin {\hf8} /\ o \notin {\hfc} /\ Dpcr # Dicr
  <2>1. \A t \in Counters : t \in Int /\ t >= 256
    BY DEF Counters
  <2>2. o \notin MemControl
    BY <1>1 DEF MemControl
  <2>3. o \notin DmaRegisters
    BY <1>1 DEF DmaRegisters
  <2> QED
    BY <1>1, <2>1, <2>2, <2>3 DEF IrqMask, Gp0, Gp1, Dpcr, Dicr
<1>5. /\ ~At(addr, MemControl) /\ ~At(addr, {IrqMask, Gp0} \cup Counters)
      /\ ~At(addr, DmaRegisters) /\ ~At(addr, {Gp1}) /\ ~At(addr, {\hf8}) /\ ~At(addr, {\hfc})
      /\ (At(addr, {Dpcr}) <=> o = Dpcr) /\ (At(addr, {Dicr}) <=> o = Dicr)
  BY <1>3, <1>4
<1> QED
  BY <1>1, <1>2, <1>4, <1>5 DEF read_word

-----------------------------------------------------------------------------
(* The settable bits of DICR change only when the program sets them.       *)
LEMMA SettableBits ==
  /\ Active \notin Settable /\ \A c \in Channel : FlagBit(c) \notin Settable
  /\ \A k \in Settable : k \notin Flags /\ k \notin Acked
<1>1. ByteBits \in 4 .. 8 /\ \A c \in Channel : Slot(c) \in 0 .. ByteBits - 2
  BY MemoryAssumption, ControllerAssumption
<1>2. \A k \in Settable : k \in Int /\ k < 3 * ByteBits
  BY <1>1 DEF Settable, Forced
<1> QED
  BY <1>1, <1>2 DEF Active, FlagBit, Flags, Acked

LEMMA UpdateKeepsSettable ==
  ASSUME NEW d PROVE update_irq_active(d) \cap Settable = d \cap Settable
  BY SettableBits DEF update_irq_active

LEMMA DicrWrite ==
  ASSUME NEW val, write_dicr(val) PROVE dicr' \cap Settable = val \cap Settable
<1> DEFINE d == ((dicr \cap Flags) \cup (val \cap Settable)) \ (val \cap Acked)
<1>1. dicr' = update_irq_active(d)
  BY DEF write_dicr
<1>2. d \cap Settable = val \cap Settable
  BY SettableBits
<1> QED
  BY <1>1, <1>2, UpdateKeepsSettable

LEMMA DicrFinish ==
  ASSUME NEW c \in Channel, NEW chcr, finish(c, chcr)
  PROVE  dicr' \cap Settable = dicr \cap Settable
<1> DEFINE d == IF MaskBit(c) \in dicr THEN dicr \cup {FlagBit(c)} ELSE dicr
<1>1. dicr' = update_irq_active(d)
  BY DEF finish
<1>2. d \cap Settable = dicr \cap Settable
  BY SettableBits
<1> QED
  BY <1>1, <1>2, UpdateKeepsSettable

-----------------------------------------------------------------------------
(* The inductive invariant: as long as the process runs, what is           *)
(* remembered is what the memory and the registers hold.                   *)
RamRemembered ==
  \A a \in Ram : stored[a] # Unknown => kuseg # Null /\ kuseg[a] = stored[a]

ChannelsRemembered ==
  \A c \in Channel, r \in {0, 4, 8} :
    LET a == Register0(c) + r IN written[a] # Unknown => Contents(c, r) = Expected(a)

ControlRemembered ==
  LET p == written[IoBase + Dpcr]  i == written[IoBase + Dicr] IN
  /\ p # Unknown => dpcr = p
  /\ i # Unknown => dicr \cap Settable = i \cap Settable

Remembered == RamRemembered /\ ChannelsRemembered /\ ControlRemembered

HistoryInv ==
  /\ BusInv
  /\ done \subseteq Channel
  /\ running => Remembered

(* What is expected of a register, when the channels that ran are known.   *)
LEMMA ExpectedIs ==
  ASSUME done \subseteq Channel, NEW c \in Channel, NEW r \in {0, 4, 8}
  PROVE  LET a == Register0(c) + r IN
         /\ a \in Programmable
         /\ Expected(a) = IF r = 8 /\ c \in done THEN written[a] \ {Enabled} ELSE written[a]
<1>1. Register0(c) + r \in Programmable
  BY DEF Programmable, ChannelRegisters
<1>2. \A d \in done : Register0(c) + r = Chcr(d) <=> c = d /\ r = 8
  BY Distinct DEF Chcr
<1> QED
  BY <1>1, <1>2 DEF Expected

(* A step of the bus and of its history is one of the bus.                 *)
LEMMA HistoryStep ==
  ASSUME HistoryInv, [HistoryNext]_history_vars
  PROVE  [Next]_vars
<1>1. CASE Start
  BY <1>1 DEF Start, Next
<1>2. ASSUME Ready, NEW addr \in Addresses, NEW n \in {1, 2, 4}, Sense(addr, n)
      PROVE  Next
  BY <1>2 DEF Sense, Sensed, Access, Next
<1>3. ASSUME Ready, NEW addr \in Addresses, NEW n \in {1, 2, 4}, NEW val \in Data,
             Drive(addr, n, val)
      PROVE  Next
  BY <1>3 DEF Drive, Driven, Access, Next
<1>4. CASE Carry
  BY <1>4 DEF Carry, Next
<1>5. CASE UNCHANGED history_vars
  BY <1>5 DEF history_vars
<1> QED
  BY <1>1, <1>2, <1>3, <1>4, <1>5 DEF HistoryNext

(* When neither the memory nor its registers change, nor what is known of  *)
(* them, it is still true.                                                 *)
LEMMA NothingChanges ==
  ASSUME Remembered, UNCHANGED << kuseg, dpcr, dicr, channels, stored, written, done >>
  PROVE  Remembered'
  BY DEF Remembered, RamRemembered, ChannelsRemembered, ControlRemembered, Contents, Expected

LEMMA StartRemembers ==
  ASSUME HistoryInv, running, Start
  PROVE  Remembered'
<1>1. kuseg = Null /\ UNCHANGED << dpcr, dicr, channels, stored, written, done >>
  BY BootLoads DEF Start
<1>2. Remembered
  BY DEF HistoryInv
<1>3. RamRemembered'
  BY <1>1, <1>2 DEF Remembered, RamRemembered
<1> QED
  BY <1>1, <1>2, <1>3
     DEF Remembered, ChannelsRemembered, ControlRemembered, Contents, Expected

LEMMA DriveRemembers ==
  ASSUME HistoryInv, Ready, NEW addr \in Addresses, NEW n \in {1, 2, 4}, NEW val \in Word,
         Drive(addr, n, val), running'
  PROVE  Remembered'
<1>1. /\ kuseg \in [Ram -> Byte] /\ ControlOK /\ Remembered /\ done \subseteq Channel
      /\ Write(addr, n, val)
  BY DEF HistoryInv, BusInv, MemoryTypeOK, Ready, Drive, Driven
<1>2. done' \subseteq Channel
  BY <1>1 DEF Drive, Driven
<1>3. RamRemembered'
  <2> SUFFICES ASSUME NEW a \in Ram, stored'[a] # Unknown
               PROVE  kuseg' # Null /\ kuseg'[a] = stored'[a]
    BY DEF RamRemembered
  <2>1. kuseg'[a] = IF (a - addr) % Space < n THEN Lane(val, (a - addr) % Space) ELSE kuseg[a]
    BY <1>1, RamWrite
  <2>2. stored'[a] = IF (a - addr) % Space < n THEN Lane(val, (a - addr) % Space) ELSE stored[a]
    BY DEF Drive, Driven
  <2>3. kuseg' # Null
    BY <1>1, WriteKeeps, MemoryAssumption DEF Kept
  <2> QED
    BY <1>1, <2>1, <2>2, <2>3 DEF Remembered, RamRemembered
<1>4. \A a \in Programmable :
        written'[a] = IF a = addr /\ a \in Programmed(n) THEN Narrow(n, val) ELSE written[a]
  BY DEF Drive, Driven
<1>5. CASE addr \notin Programmed(n)
  <2>1. UNCHANGED << dpcr, dicr, channels >>
    BY <1>1, <1>5, WriteElsewhere
  <2>2. done' = done /\ \A a \in Programmable : written'[a] = written[a]
    BY <1>4, <1>5 DEF Drive, Driven
  <2>3. ChannelsRemembered'
    <3> SUFFICES ASSUME NEW c \in Channel, NEW r \in {0, 4, 8},
                        written'[Register0(c) + r] # Unknown
                 PROVE  Contents(c, r)' = Expected(Register0(c) + r)'
      BY DEF ChannelsRemembered
    <3>1. Register0(c) + r \in Programmable
      BY DEF Programmable, ChannelRegisters
    <3>2. Contents(c, r)' = Contents(c, r) /\ Expected(Register0(c) + r)' = Expected(Register0(c) + r)
      BY <2>1, <2>2, <3>1 DEF Contents, Expected
    <3> QED
      BY <1>1, <2>2, <3>1, <3>2 DEF Remembered, ChannelsRemembered
  <2>4. ControlRemembered'
    BY <1>1, <2>1, <2>2 DEF Remembered, ControlRemembered, Programmable
  <2> QED
    BY <1>3, <2>3, <2>4 DEF Remembered
<1>6. ASSUME NEW c \in Channel, NEW r \in {0, 4, 8}, addr = Register0(c) + r, n \in {2, 4}
      PROVE  Remembered'
  <2>1. /\ UNCHANGED << dpcr, dicr >>
        /\ \A d \in Channel, s \in {0, 4, 8} :
             Contents(d, s)' = IF d = c /\ s = r THEN Narrow(n, val) ELSE Contents(d, s)
    BY <1>1, <1>6, WriteContents
  <2>2. addr \in Programmed(n)
    BY <1>6 DEF Programmed, Programmable, ChannelRegisters
  <2>3. ChannelsRemembered'
    <3> SUFFICES ASSUME NEW d \in Channel, NEW s \in {0, 4, 8},
                        written'[Register0(d) + s] # Unknown
                 PROVE  Contents(d, s)' = Expected(Register0(d) + s)'
      BY DEF ChannelsRemembered
    <3> DEFINE a == Register0(d) + s
    <3>1. a \in Programmable /\ (a = addr <=> d = c /\ s = r)
      BY <1>6, Distinct DEF Programmable, ChannelRegisters
    <3>2. Expected(a)' = IF s = 8 /\ d \in done' THEN written'[a] \ {Enabled} ELSE written'[a]
      <4>1. \A e \in done' : a = Chcr(e) <=> d = e /\ s = 8
        BY <1>2, Distinct DEF Chcr
      <4> QED
        BY <4>1 DEF Expected
    <3>3. CASE d = c /\ s = r
      <4>1. Contents(d, s)' = Narrow(n, val) /\ written'[a] = Narrow(n, val)
        BY <1>4, <2>1, <2>2, <3>1, <3>3
      <4>2. ~(s = 8 /\ d \in done')
        BY <1>6, <2>2, <3>3 DEF Drive, Driven, Chcr
      <4> QED
        BY <3>2, <4>1, <4>2
    <3>4. CASE ~(d = c /\ s = r)
      <4>1. Contents(d, s)' = Contents(d, s) /\ written'[a] = written[a]
        BY <1>4, <2>1, <3>1, <3>4
      <4>2. s = 8 => (d \in done' <=> d \in done)
        BY <3>1, <3>4 DEF Drive, Driven, Chcr
      <4>3. Expected(a) = IF s = 8 /\ d \in done THEN written[a] \ {Enabled} ELSE written[a]
        BY <1>1, ExpectedIs
      <4>4. Contents(d, s) = Expected(a)
        BY <1>1, <4>1 DEF Remembered, ChannelsRemembered
      <4> QED
        BY <3>2, <4>1, <4>2, <4>3, <4>4
    <3> QED
      BY <3>3, <3>4
  <2>4. ControlRemembered'
    <3>1. addr # IoBase + Dpcr /\ addr # IoBase + Dicr
      BY <1>6, Distinct
    <3>2. /\ written'[IoBase + Dpcr] = written[IoBase + Dpcr]
          /\ written'[IoBase + Dicr] = written[IoBase + Dicr]
      BY <1>4, <3>1 DEF Programmable
    <3> QED
      BY <1>1, <2>1, <3>2 DEF Remembered, ControlRemembered
  <2> QED
    BY <1>3, <2>3, <2>4 DEF Remembered
<1>7. CASE n = 4 /\ addr \in {IoBase + Dpcr, IoBase + Dicr}
  <2>1. /\ addr = IoBase + Dpcr => write_dpcr(val)
        /\ addr = IoBase + Dicr => write_dicr(val)
    BY <1>1, <1>7, WriteOfControl
  <2>2. UNCHANGED channels
    BY <1>7, <2>1 DEF write_dpcr, write_dicr
  <2>3. ChannelsRemembered'
    <3> SUFFICES ASSUME NEW d \in Channel, NEW s \in {0, 4, 8},
                        written'[Register0(d) + s] # Unknown
                 PROVE  Contents(d, s)' = Expected(Register0(d) + s)'
      BY DEF ChannelsRemembered
    <3>1. Register0(d) + s \in Programmable /\ Register0(d) + s # addr
      BY <1>7, Distinct DEF Programmable, ChannelRegisters
    <3>2. written'[Register0(d) + s] = written[Register0(d) + s]
      BY <1>4, <3>1
    <3>3. \A e \in done : addr # Chcr(e)
      BY <1>1, <1>7, Distinct DEF Chcr
    <3>4. done' = done
      BY <3>3 DEF Drive, Driven
    <3>5. Contents(d, s)' = Contents(d, s) /\ Expected(Register0(d) + s)' = Expected(Register0(d) + s)
      BY <2>2, <3>2, <3>4 DEF Contents, Expected
    <3> QED
      BY <1>1, <3>2, <3>5 DEF Remembered, ChannelsRemembered
  <2>4. ControlRemembered'
    <3>1. addr \in Programmed(n) /\ Narrow(n, val) = val
      BY <1>7, NarrowIs DEF Programmed, Programmable
    <3>2. IoBase + Dpcr # IoBase + Dicr
      BY Base DEF Dpcr, Dicr
    <3>3. /\ IoBase + Dpcr \in Programmable /\ IoBase + Dicr \in Programmable
      BY DEF Programmable
    <3>4. CASE addr = IoBase + Dpcr
      <4>1. dpcr' = val /\ dicr' = dicr
        BY <2>1, <3>4 DEF write_dpcr
      <4>2. written'[IoBase + Dpcr] = val /\ written'[IoBase + Dicr] = written[IoBase + Dicr]
        BY <1>4, <3>1, <3>2, <3>3, <3>4
      <4> QED
        BY <1>1, <4>1, <4>2 DEF Remembered, ControlRemembered
    <3>5. CASE addr = IoBase + Dicr
      <4>1. dicr' \cap Settable = val \cap Settable /\ dpcr' = dpcr
        BY <2>1, <3>5, DicrWrite DEF write_dicr
      <4>2. written'[IoBase + Dicr] = val /\ written'[IoBase + Dpcr] = written[IoBase + Dpcr]
        BY <1>4, <3>1, <3>2, <3>3, <3>5
      <4> QED
        BY <1>1, <4>1, <4>2 DEF Remembered, ControlRemembered
    <3> QED
      BY <1>7, <3>4, <3>5
  <2> QED
    BY <1>3, <2>3, <2>4 DEF Remembered
<1>8. addr \in Programmed(n) =>
        \/ n \in {2, 4} /\ \E c \in Channel, r \in {0, 4, 8} : addr = Register0(c) + r
        \/ n = 4 /\ addr \in {IoBase + Dpcr, IoBase + Dicr}
  BY DEF Programmed, Programmable, ChannelRegisters
<1> QED
  BY <1>5, <1>6, <1>7, <1>8

(* A transfer leaves the registers alone until it is done; then it clears  *)
(* the busy bit of its channel, and may raise its flag.                    *)
LEMMA CarryKeeps ==
  ASSUME ControlOK, Transferring
  PROVE  LET c == transfer.channel IN
         \/ /\ transfer'.phase # "none"
            /\ UNCHANGED << dpcr, dicr, channels >>
         \/ /\ transfer'.phase = "none" /\ c \in Channel
            /\ finish(c, channels[c].channel_control \ {Enabled})
<1>1. transfer \in Transfer
  BY DEF ControlOK
<1>2. CASE block_word
  BY <1>1, <1>2 DEF block_word, Transfer
<1>3. CASE list_entry
  BY <1>1, <1>3 DEF list_entry, Transfer
<1>4. CASE list_packet
  BY <1>1, <1>4 DEF list_packet, Transfer
<1>5. CASE list_follow
  BY <1>1, <1>5 DEF list_follow, Transfer
<1>6. CASE block_done \/ list_done
  <2>1. transfer_done(transfer.channel) /\ transfer.channel \in Channel
    BY <1>1, <1>6 DEF block_done, list_done, Transfer
  <2>2. transfer'.phase = "none"
    BY <2>1, NoTransferType DEF transfer_done, finish
  <2> QED
    BY <2>1, <2>2 DEF transfer_done
<1> QED
  BY <1>2, <1>3, <1>4, <1>5, <1>6 DEF Transferring

LEMMA CarryRemembers ==
  ASSUME HistoryInv, Carry
  PROVE  Remembered' /\ done' \subseteq Channel
<1> DEFINE c == transfer.channel
<1>1. /\ Transferring /\ running /\ kuseg \in [Ram -> Byte] /\ ControlOK
      /\ Remembered /\ done \subseteq Channel
  BY DEF HistoryInv, BusInv, MemoryTypeOK, Carry, Transferring
<1>2. RamRemembered'
  <2>1. CASE kuseg' = kuseg
    BY <1>1, <2>1 DEF Carry, Carried, Remembered, RamRemembered
  <2>2. CASE kuseg' # kuseg
    BY <2>2 DEF Carry, Carried, RamRemembered, Forgotten
  <2> QED
    BY <2>1, <2>2
<1>3. CASE transfer'.phase # "none" /\ UNCHANGED << dpcr, dicr, channels >>
  <2>1. UNCHANGED << written, done >>
    BY <1>3 DEF Carry, Carried
  <2>2. ChannelsRemembered' /\ ControlRemembered'
    BY <1>1, <1>3, <2>1
       DEF Remembered, ChannelsRemembered, ControlRemembered, Contents, Expected
  <2> QED
    BY <1>1, <1>2, <2>1, <2>2 DEF Remembered
<1>4. CASE /\ transfer'.phase = "none" /\ c \in Channel
           /\ finish(c, channels[c].channel_control \ {Enabled})
  <2>1. done' = done \cup {c} /\ written' = written /\ done' \subseteq Channel
    BY <1>1, <1>4 DEF Carry, Carried
  <2>2. \A d \in Channel, s \in {0, 4, 8} :
          Contents(d, s)' = IF d = c /\ s = 8 THEN Contents(c, 8) \ {Enabled} ELSE Contents(d, s)
    BY <1>1, <1>4, FinishContents DEF Contents
  <2> HIDE DEF c
  <2>3. ChannelsRemembered'
    <3> SUFFICES ASSUME NEW d \in Channel, NEW s \in {0, 4, 8},
                        written'[Register0(d) + s] # Unknown
                 PROVE  Contents(d, s)' = Expected(Register0(d) + s)'
      BY DEF ChannelsRemembered
    <3> DEFINE a == Register0(d) + s
    <3>1. Expected(a)' = IF s = 8 /\ d \in done' THEN written[a] \ {Enabled} ELSE written[a]
      <4>1. \A e \in done' : a = Chcr(e) <=> d = e /\ s = 8
        BY <2>1, Distinct DEF Chcr
      <4> QED
        BY <2>1, <4>1 DEF Expected
    <3>2. Contents(d, s) = IF s = 8 /\ d \in done THEN written[a] \ {Enabled} ELSE written[a]
      BY <1>1, <2>1, ExpectedIs DEF Remembered, ChannelsRemembered
    <3>3. CASE d = c /\ s = 8
      BY <2>1, <2>2, <3>1, <3>2, <3>3
    <3>4. CASE ~(d = c /\ s = 8)
      BY <2>1, <2>2, <3>1, <3>2, <3>4
    <3> QED
      BY <3>3, <3>4
  <2>4. ControlRemembered'
    <3>1. dpcr' = dpcr /\ dicr' \cap Settable = dicr \cap Settable
      BY <1>4, DicrFinish DEF finish
    <3> QED
      BY <1>1, <2>1, <3>1 DEF Remembered, ControlRemembered
  <2> QED
    BY <1>2, <2>1, <2>3, <2>4 DEF Remembered
<1> QED
  BY <1>1, <1>3, <1>4, CarryKeeps

LEMMA SenseRemembers ==
  ASSUME HistoryInv, NEW addr, NEW n, Sense(addr, n), running'
  PROVE  Remembered'
<1>1. UNCHANGED << kuseg, dpcr, dicr, channels, stored, written, done, running >>
  BY DEF Sense, Sensed, Read, Exit, vars, dma_vars
<1>2. Remembered
  BY <1>1 DEF HistoryInv
<1> QED
  BY <1>1, <1>2, NothingChanges

LEMMA HistoryInitInv == ASSUME HistoryInit PROVE HistoryInv
<1>1. BusInv
  BY InitInv DEF HistoryInit
<1>2. \A c \in Channel, r \in {0, 4, 8} : Register0(c) + r \in Programmable
  BY DEF Programmable, ChannelRegisters
<1>3. IoBase + Dpcr \in Programmable /\ IoBase + Dicr \in Programmable
  BY DEF Programmable
<1>4. RamRemembered /\ ChannelsRemembered /\ ControlRemembered
  BY <1>2, <1>3
     DEF HistoryInit, Forgotten, RamRemembered, ChannelsRemembered, ControlRemembered
<1> QED
  BY <1>1, <1>4 DEF HistoryInit, HistoryInv, Remembered

LEMMA HistoryNextInv ==
  ASSUME HistoryInv, [HistoryNext]_history_vars
  PROVE  HistoryInv'
<1>1. BusInv'
  BY HistoryStep, NextInv DEF HistoryInv
<1>2. CASE Start
  <2>1. done' = done /\ running' = running
    BY <1>2, BootLoads DEF Start
  <2> QED
    BY <1>1, <1>2, <2>1, StartRemembers DEF HistoryInv
<1>3. ASSUME Ready, NEW addr \in Addresses, NEW n \in {1, 2, 4}, Sense(addr, n)
      PROVE  HistoryInv'
  <2>1. done' = done
    BY <1>3 DEF Sense, Sensed
  <2> QED
    BY <1>1, <1>3, <2>1, SenseRemembers DEF HistoryInv
<1>4. ASSUME Ready, NEW addr \in Addresses, NEW n \in {1, 2, 4}, NEW val \in Data,
             Drive(addr, n, val)
      PROVE  HistoryInv'
  <2>1. val \in Word
    BY BusAssumption
  <2>2. done' \subseteq Channel
    BY <1>4 DEF Drive, Driven, HistoryInv
  <2> QED
    BY <1>1, <1>4, <2>1, <2>2, DriveRemembers DEF HistoryInv
<1>5. CASE Carry
  BY <1>1, <1>5, CarryRemembers DEF HistoryInv
<1>6. CASE UNCHANGED history_vars
  <2>1. UNCHANGED << kuseg, dpcr, dicr, channels, stored, written, done, running >>
    BY <1>6 DEF history_vars, vars, dma_vars
  <2> QED
    BY <1>1, <2>1, NothingChanges DEF HistoryInv
<1> QED
  BY <1>2, <1>3, <1>4, <1>5, <1>6 DEF HistoryNext

LEMMA HistoryInvariant == HistorySpec => []HistoryInv
  BY HistoryInitInv, HistoryNextInv, PTL DEF HistorySpec

-----------------------------------------------------------------------------
(* A step after which the last access is another read is one that read.    *)
Delivered ==
  /\ Ready /\ access'.addr \in Addresses /\ access'.n \in {1, 2, 4}
  /\ access'.val \in Outcomes(access'.addr, access'.n) /\ access'.val # Fault

LEMMA ReadStep ==
  ASSUME [HistoryNext]_history_vars, Reads
  PROVE  Delivered
<1>1. access' # access /\ access'.op = "read" /\ access'.val # Fault
  BY DEF Reads
<1>2. ~Start /\ ~Carry /\ ~(UNCHANGED history_vars)
  BY <1>1 DEF Start, Carry, Carried, history_vars
<1>3. ASSUME NEW addr, NEW n, NEW val, Drive(addr, n, val)
      PROVE  FALSE
  BY <1>1, <1>3 DEF Drive, Driven
<1>4. PICK addr \in Addresses, n \in {1, 2, 4} : Ready /\ Sense(addr, n)
  BY <1>2, <1>3 DEF HistoryNext
<1> QED
  BY <1>1, <1>4 DEF Sense, Sensed, Delivered

LEMMA DeliversRam ==
  ASSUME HistoryInv, Delivered, NEW j \in 0 .. access'.n - 1,
         Index(access'.addr, j) \in Ram, stored[Index(access'.addr, j)] # Unknown
  PROVE  Lane(access'.val, j) = stored[Index(access'.addr, j)]
<1> DEFINE a == Index(access'.addr, j)
<1>1. /\ Ready /\ access'.addr \in Addresses /\ access'.n \in {1, 2, 4}
      /\ access'.val \in Outcomes(access'.addr, access'.n) /\ access'.val # Fault
  BY DEF Delivered
<1>2. kuseg \in [Ram -> Byte] /\ kuseg[a] = stored[a]
  BY <1>1 DEF HistoryInv, BusInv, MemoryTypeOK, Ready, Remembered, RamRemembered
<1>3. Lane(access'.val, j) = kuseg[a]
  BY <1>1, <1>2, RamRead
<1> QED
  BY <1>2, <1>3

LEMMA DeliversRegisters ==
  ASSUME HistoryInv, Delivered, access'.n = 4,
         access'.addr \in Programmable, written[access'.addr] # Unknown
  PROVE  IF access'.addr = IoBase + Dicr
         THEN access'.val \cap Settable = written[access'.addr] \cap Settable
         ELSE access'.val = Expected(access'.addr)
<1> DEFINE Back == IF access'.addr = IoBase + Dicr
                   THEN access'.val \cap Settable = written[access'.addr] \cap Settable
                   ELSE access'.val = Expected(access'.addr)
<1>1. Ready /\ access'.val \in Outcomes(access'.addr, 4)
  BY DEF Delivered
<1>2. Remembered /\ done \subseteq Channel
  BY <1>1 DEF HistoryInv, Ready
<1>3. ASSUME NEW c \in Channel, NEW r \in {0, 4, 8}, access'.addr = Register0(c) + r
      PROVE  Back
  <2>1. access'.val = Contents(c, r) /\ access'.addr # IoBase + Dicr
    BY <1>1, <1>3, ReadContents, Distinct
  <2>2. Contents(c, r) = Expected(access'.addr)
    BY <1>2, <1>3 DEF Remembered, ChannelsRemembered
  <2> QED
    BY <2>1, <2>2
<1>4. ASSUME access'.addr \in {IoBase + Dpcr, IoBase + Dicr}
      PROVE  Back
  <2>1. IoBase + Dpcr # IoBase + Dicr
    BY Base DEF Dpcr, Dicr
  <2>2. CASE access'.addr = IoBase + Dpcr
    <3>1. access'.val = dpcr /\ dpcr = written[access'.addr]
      BY <1>1, <1>2, <2>2, ReadControl DEF Remembered, ControlRemembered
    <3>2. \A c \in done : access'.addr # Chcr(c)
      BY <1>2, <2>2, Distinct DEF Chcr
    <3> QED
      BY <2>1, <2>2, <3>1, <3>2 DEF Expected
  <2>3. CASE access'.addr = IoBase + Dicr
    BY <1>1, <1>2, <2>3, ReadControl DEF Remembered, ControlRemembered
  <2> QED
    BY <1>4, <2>2, <2>3
<1> QED
  BY <1>3, <1>4 DEF Programmable, ChannelRegisters

(* The two properties, as what a step does.                                *)
LEMMA ReadsFollow ==
  ASSUME HistoryInv, Reads => Delivered
  PROVE  Reads => \A j \in 0 .. access'.n - 1 :
           LET a == Index(access'.addr, j) IN
           a \in Ram /\ stored[a] # Unknown => Lane(access'.val, j) = stored[a]
  BY DeliversRam

LEMMA RegistersFollow ==
  ASSUME HistoryInv, Reads => Delivered
  PROVE  Reads /\ access'.n = 4 /\ access'.addr \in Programmable /\ written[access'.addr] # Unknown
           => IF access'.addr = IoBase + Dicr
              THEN access'.val \cap Settable = written[access'.addr] \cap Settable
              ELSE access'.val = Expected(access'.addr)
  BY DeliversRegisters

(* Whatever the program stores, with any width, at any alignment, across   *)
(* the end of the address space, and whatever transfers run in between,    *)
(* each byte it reads of RAM is the one last stored there.                 *)
THEOREM ReadsCorrect == HistorySpec => ReadsLastStored
<1>1. HistoryInv /\ [HistoryNext]_history_vars =>
        [Reads => \A j \in 0 .. access'.n - 1 :
           LET a == Index(access'.addr, j) IN
           a \in Ram /\ stored[a] # Unknown => Lane(access'.val, j) = stored[a]]_history_vars
  BY ReadStep, ReadsFollow
<1> QED
  BY <1>1, HistoryInvariant, PTL DEF HistorySpec, ReadsLastStored

(* A register of the controller reads as it was written, whatever other    *)
(* accesses and transfers lie between, but for the busy bit of a channel   *)
(* that has run; and so do the settable bits of DICR.                      *)
THEOREM RegistersCorrect == HistorySpec => RegistersReadBack
<1>1. HistoryInv /\ [HistoryNext]_history_vars =>
        [Reads /\ access'.n = 4 /\ access'.addr \in Programmable
           /\ written[access'.addr] # Unknown
           => IF access'.addr = IoBase + Dicr
              THEN access'.val \cap Settable = written[access'.addr] \cap Settable
              ELSE access'.val = Expected(access'.addr)]_history_vars
  BY ReadStep, RegistersFollow
<1> QED
  BY <1>1, HistoryInvariant, PTL DEF HistorySpec, RegistersReadBack

-----------------------------------------------------------------------------
(* The accesses the manual describes.  It names the addresses, so they are *)
(* the console's here.                                                     *)
ConsoleMap == IoBase = \h1f801000 /\ BiosBase = \h1fc00000

InRam(addr, n)   == addr \in Ram /\ addr + n <= RamSize
InRom(addr, n)   == bseg # Null /\ addr >= BiosBase /\ addr + n <= BiosBase + BiosSize
OfChannel(addr)  == addr \in ChannelRegisters
OfControl(addr)  == addr \in { IoBase + Dpcr, IoBase + Dicr }
Unkept           == {Gp0, Gp1} \cup Counters
Voices           == \hc00 .. \hd7f

LEMMA DocumentedIs ==
  ASSUME ConsoleMap, NEW op, NEW addr \in Addresses, NEW n \in {1, 2, 4}, Documented(op, addr, n)
  PROVE  \/ InRam(addr, n)
         \/ op = "read" /\ InRom(addr, n)
         \/ n = 4 /\ (OfChannel(addr) \/ OfControl(addr) \/ At(addr, Unkept))
         \/ n = 2 /\ At(addr, Voices)
<1>1. addr \in Nat
  BY MemoryAssumption DEF Addresses
<1>2. CASE addr + n <= RamSize
  <2>1. addr \in Ram
    BY <1>1, <1>2, RamSizeType DEF Ram
  <2> QED
    BY <1>2, <2>1 DEF InRam
<1>3. CASE op = "read" /\ bseg # Null /\ addr >= BiosBase /\ addr + n <= BiosBase + BiosSize
  BY <1>3 DEF InRom
<1>4. ASSUME n = 4, NEW c \in Channel, NEW r \in {0, 4, 8}, addr = \h1f801080 + 16 * c + r
      PROVE  OfChannel(addr)
  <2>1. addr = Register0(c) + r
    BY <1>4, ChannelNumbers DEF ConsoleMap, Register0
  <2> QED
    BY <2>1 DEF OfChannel, ChannelRegisters
<1>5. CASE n = 4 /\ addr \in { \h1f8010f0, \h1f8010f4, \h1f801810, \h1f801814, \h1f801100, \h1f801110, \h1f801120 }
  <2>1. \h100 \in Counters /\ \h110 \in Counters /\ \h120 \in Counters
    BY DEF Counters
  <2> QED
    BY <1>5, <2>1 DEF ConsoleMap, OfControl, At, Unkept, Dpcr, Dicr, Gp0, Gp1
<1>6. CASE n = 2 /\ addr \in \h1f801c00 .. \h1f801d7f
  BY <1>1, <1>6 DEF ConsoleMap, At, Voices
<1> QED
  BY <1>2, <1>3, <1>4, <1>5, <1>6 DEF Documented

(* Each test of the bus that they pass, and those they do not.             *)
LEMMA RamIsInside ==
  ASSUME kuseg \in [Ram -> Byte], NEW addr \in Addresses, NEW n \in {1, 2, 4}, InRam(addr, n)
  PROVE  Inside(kuseg, addr, n) /\ Plain(addr)
<1>1. Inside(kuseg, addr, n)
  BY RamInside DEF InRam
<1>2. Index(addr, 0) = addr
  BY MemoryAssumption DEF Index, Addresses
<1>3. Plain(addr)
  BY <1>2, RamIsPlain DEF InRam
<1> QED
  BY <1>1, <1>3

LEMMA LowOffsets ==
  ASSUME NEW addr \in Addresses, NEW S \in SUBSET Devices, At(addr, S)
  PROVE  /\ ~InBios(addr, BiosSize - 1) /\ addr # CacheCtrl
         /\ \E o \in S : \A offsets : At(addr, offsets) <=> o \in offsets
<1>1. Space \in Nat /\ BiosSize \in Nat /\ addr \in Int
  BY MemoryAssumption DEF Addresses
<1>2. /\ IoBase \in Nat /\ BiosBase \in Nat /\ CacheCtrl \in Nat
      /\ BiosBase > IoBase + \h1042 /\ CacheCtrl > BiosBase + BiosSize
  BY <1>1, BusAssumption DEF Addresses
<1>3. addr - IoBase \in S /\ \A offsets : At(addr, offsets) <=> addr - IoBase \in offsets
  BY DEF At
<1>4. addr - IoBase \in 0 .. \h1042
  <2>1. addr - IoBase \in Devices
    BY DEF At
  <2> QED
    BY <2>1 DEF Devices
<1> QED
  BY <1>1, <1>2, <1>3, <1>4 DEF InBios

LEMMA OffsetsApart ==
  /\ Unkept \in SUBSET Devices /\ Voices \in SUBSET Devices
  /\ \A o \in Unkept : /\ o \notin MemControl /\ o \notin DmaRegisters
                       /\ o \notin {Dpcr, Dicr, \hf8, \hfc}
                       /\ o \in {IrqMask, Gp0} \cup Counters <=> o # Gp1
                       /\ o \in {IrqStatus, IrqMask, RamSizeReg, Gp0, Gp1} \cup Timers
  /\ \A o \in Voices : /\ o \in Spu /\ o \notin SpuControl
                       /\ o \notin DmaRegisters
<1>1. Counters \subseteq 256 .. 288 /\ Counters \subseteq Timers
  <2>1. \A c \in Counters : c + 0 = c
    BY DEF Counters
  <2> QED
    BY <2>1 DEF Counters, Timers
<1>2. Gp0 = \h810 /\ Gp1 = \h814 /\ IrqMask = \h74 /\ Dpcr = \hf0 /\ Dicr = \hf4
  BY DEF Gp0, Gp1, IrqMask, Dpcr, Dicr
<1>3. \A o \in Unkept : o \in 256 .. \h814
  BY <1>1, <1>2 DEF Unkept
<1>4. ASSUME NEW o \in Int, o >= 256
      PROVE  o \notin MemControl /\ o \notin DmaRegisters /\ o \notin {Dpcr, Dicr, \hf8, \hfc}
  <2>1. o \notin MemControl
    BY <1>4 DEF MemControl
  <2>2. o \notin DmaRegisters
    BY <1>4 DEF DmaRegisters
  <2> QED
    BY <1>2, <1>4, <2>1, <2>2
<1>5. \A o \in Unkept : o \in {IrqMask, Gp0} \cup Counters <=> o # Gp1
  BY <1>1, <1>2 DEF Unkept
<1>6. ASSUME NEW o \in Voices
      PROVE  o \in Spu /\ o \notin SpuControl /\ o \in Int /\ o >= 256 /\ o \in Devices
  <2>1. o \in \hc00 .. \hd7f
    BY DEF Voices
  <2> QED
    BY <2>1 DEF Spu, SpuControl, Devices
<1>7. \A o \in Unkept : o \in Devices
  BY <1>3 DEF Devices
<1>8. \A o \in Unkept : o \in {IrqStatus, IrqMask, RamSizeReg, Gp0, Gp1} \cup Timers
  BY <1>1 DEF Unkept
<1>9. ASSUME NEW o \in Unkept PROVE o \in Int /\ o >= 256
  <2>1. o \in 256 .. \h814
    BY <1>3
  <2> QED
    BY <2>1
<1>10. Unkept \in SUBSET Devices /\ Voices \in SUBSET Devices
  BY <1>6, <1>7
<1>11. \A o \in Voices : o \in Spu /\ o \notin SpuControl /\ o \notin DmaRegisters
  BY <1>4, <1>6
<1>12. \A o \in Unkept : /\ o \notin MemControl /\ o \notin DmaRegisters
                         /\ o \notin {Dpcr, Dicr, \hf8, \hfc}
  BY <1>4, <1>9
<1> QED
  BY <1>5, <1>8, <1>10, <1>11, <1>12

LEMMA OnlyTheBios ==
  ASSUME NEW addr \in Addresses, InBios(addr, BiosSize)
  PROVE  ~InExpansion1(addr) /\ \A offsets \in SUBSET Devices : ~At(addr, offsets)
<1>1. Space \in Nat /\ BiosSize \in Nat /\ addr \in Int
  BY MemoryAssumption DEF Addresses
<1>2. /\ IoBase \in Nat /\ BiosBase \in Nat /\ Expansion1 \in Nat
      /\ BiosBase > IoBase + \h1042 /\ IoBase > Expansion1 + 4
  BY <1>1, BusAssumption DEF Addresses
<1>3. addr >= BiosBase
  BY <1>1, <1>2 DEF InBios
<1>4. ~InExpansion1(addr)
  BY <1>1, <1>2, <1>3 DEF InExpansion1
<1>5. ASSUME addr - IoBase \in Devices PROVE FALSE
  <2>1. PICK o \in 0 .. \h1042 : addr - IoBase = o
    BY <1>5 DEF Devices
  <2> QED
    BY <1>1, <1>2, <1>3, <2>1
<1> QED
  BY <1>4, <1>5 DEF At

LEMMA BiosRead ==
  ASSUME NEW addr \in Addresses, NEW n \in {1, 2, 4},
         InBios(addr, BiosSize), InBios(addr, BiosSize - 1)
  PROVE  Outcomes(addr, n) = Bios(addr, n)
<1> USE Offsets, OnlyTheBios
<1>1. read_byte(addr) = Bios(addr, 1)
  BY DEF read_byte
<1>2. read_hword(addr) = Bios(addr, 2)
  <2>1. SpuControl \cup Spu \cup {IrqMask} \subseteq Devices
    OBVIOUS
  <2> QED
    BY <2>1 DEF read_hword
<1>3. read_word(addr) = Bios(addr, 4)
  <2>1. /\ {IrqMask, Gp0} \cup Counters \subseteq Devices
        /\ {Gp1} \subseteq Devices /\ {Dpcr} \subseteq Devices /\ {Dicr} \subseteq Devices
        /\ {\hf8} \subseteq Devices /\ {\hfc} \subseteq Devices
    OBVIOUS
  <2> QED
    BY <2>1 DEF read_word
<1> QED
  BY <1>1, <1>2, <1>3 DEF Outcomes

(* What it reads is one word.                                              *)
LEMMA AnswersRead ==
  ASSUME kuseg \in [Ram -> Byte], MemoryTypeOK, ControlOK,
         ConsoleMap, NEW addr \in Addresses, NEW n \in {1, 2, 4}, Documented("read", addr, n)
  PROVE  \E w \in Word : Outcomes(addr, n) = {w}
<1>1. CASE InRam(addr, n)
  <2>1. Inside(kuseg, addr, n) /\ Plain(addr) /\ kuseg # Null
    BY <1>1, RamIsInside, MemoryAssumption
  <2>2. Outcomes(addr, n) = { Load(kuseg, addr, n) }
    BY <2>1, PlainRead DEF Found
  <2> QED
    BY <2>1, <2>2, LoadType
<1>2. CASE InRom(addr, n)
  <2>1. /\ Space \in Nat /\ BiosSize \in Nat /\ addr \in Nat /\ BiosBase \in Nat
        /\ BiosBase + BiosSize < Space
    <3>1. Space \in Nat /\ BiosSize \in Nat
      BY MemoryAssumption
    <3> QED
      BY <3>1, BusAssumption DEF Addresses
  <2>2. bseg \in [Rom -> Byte] /\ bseg # Null
    BY <1>2 DEF InRom, MemoryTypeOK
  <2>3. \A j \in 0 .. n - 1 : Index(addr - BiosBase, j) \in Rom
    BY <1>2, <2>1 DEF InRom, Index, Rom
  <2>4. Inside(bseg, addr - BiosBase, n)
    BY <2>2, <2>3 DEF Inside
  <2>5. Bios(addr, n) = { Load(bseg, addr - BiosBase, n) }
    BY <2>2, <2>4 DEF Bios, Found
  <2>6. InBios(addr, BiosSize - 1) /\ InBios(addr, BiosSize)
    BY <1>2, <2>1 DEF InRom, InBios
  <2>7. Outcomes(addr, n) = Bios(addr, n)
    BY <2>6, BiosRead
  <2> QED
    BY <2>2, <2>4, <2>5, <2>7, LoadType
<1>3. CASE n = 4 /\ OfChannel(addr)
  <2>1. PICK c \in Channel, r \in {0, 4, 8} : addr = Register0(c) + r
    BY <1>3 DEF OfChannel, ChannelRegisters
  <2>2. Contents(c, r) \in Word
    BY DEF Contents, ControlOK, Register
  <2> QED
    BY <1>3, <2>1, <2>2, ReadContents
<1>4. CASE n = 4 /\ OfControl(addr)
  <2>1. Outcomes(addr, n) = {dpcr} \/ Outcomes(addr, n) = {dicr}
    BY <1>4, ReadControl DEF OfControl
  <2> QED
    BY <2>1 DEF ControlOK
<1>5. CASE n = 4 /\ At(addr, Unkept)
  <2>1. /\ ~InBios(addr, BiosSize - 1)
        /\ \E o \in Unkept : \A offsets : At(addr, offsets) <=> o \in offsets
    BY <1>5, LowOffsets, OffsetsApart
  <2>2. PICK o \in Unkept : \A offsets : At(addr, offsets) <=> o \in offsets
    BY <2>1
  <2>3. /\ ~At(addr, MemControl) /\ ~At(addr, DmaRegisters)
        /\ ~At(addr, {Dpcr}) /\ ~At(addr, {Dicr}) /\ ~At(addr, {\hf8}) /\ ~At(addr, {\hfc})
        /\ At(addr, {IrqMask, Gp0} \cup Counters) <=> ~At(addr, {Gp1})
    BY <2>2, OffsetsApart
  <2>4. read_word(addr) = {{}} \/ read_word(addr) = {ReadyToSend}
    BY <2>1, <2>3 DEF read_word
  <2>5. {} \in Word /\ ReadyToSend \in Word
    BY OnesType, ConstantType DEF ReadyToSend
  <2>6. Outcomes(addr, n) = read_word(addr)
    BY <1>5 DEF Outcomes
  <2> QED
    BY <2>4, <2>5, <2>6
<1>6. CASE n = 2 /\ At(addr, Voices)
  <2>1. /\ ~InBios(addr, BiosSize - 1)
        /\ \E o \in Voices : \A offsets : At(addr, offsets) <=> o \in offsets
    BY <1>6, LowOffsets, OffsetsApart
  <2>2. At(addr, SpuControl \cup Spu \cup {IrqMask})
    BY <2>1, OffsetsApart
  <2>3. read_hword(addr) = {{}}
    BY <2>1, <2>2 DEF read_hword
  <2>4. Outcomes(addr, n) = {{}}
    BY <1>6, <2>3 DEF Outcomes
  <2> QED
    BY <2>4, OnesType
<1> QED
  BY <1>1, <1>2, <1>3, <1>4, <1>5, <1>6, DocumentedIs

(* What it writes reaches no RAM but its own, and ends the process only if *)
(* it sends a list that is not the GPU's.                                  *)
LEMMA ChannelAnswers ==
  ASSUME ControlOK, running, NEW c \in Channel, NEW r \in {0, 4, 8}, NEW val \in Word,
         Write(Register0(c) + r, 4, val)
  PROVE  UNCHANGED kuseg /\ (running' \/ SendsOtherList(Register0(c) + r, val))
<1> DEFINE addr == Register0(c) + r
<1>1. controller_write(addr, val)
  BY WriteOfRegister, NarrowIs
<1>2. ChannelAt(addr) = c /\ RegisterAt(addr) = r
  BY AddressOfRegister
<1> HIDE DEF addr
<1>3. CASE r # 8
  BY <1>1, <1>2, <1>3 DEF controller_write, write_register
<1>4. CASE r = 8
  <2> DEFINE s == Decoded(channels[c], val)
  <2>1. write_chcr(c, val)
    BY <1>1, <1>2, <1>4 DEF controller_write
  <2>2. UNCHANGED kuseg
    BY <2>1 DEF write_chcr, Exit
  <2>3. channels[c] \in Register
    BY DEF ControlOK
  <2>4. /\ s.channel_control = val /\ s.from_ram = (FromRam \in val)
        /\ s.syncmode = IF Mode(val) < 3 THEN Mode(val) ELSE channels[c].syncmode
    BY <2>3 DEF Decoded, Register
  <2> HIDE DEF s
  <2>5. \/ running' = running
        \/ /\ channel_active(s) /\ s.syncmode = LINKED_LIST
           /\ ~s.from_ram \/ c # GPU
    BY <2>1 DEF write_chcr, s
  <2>6. s.syncmode = LINKED_LIST => ByteBits + 2 \in val
    <3>1. CASE Mode(val) < 3
      BY <2>4, <3>1 DEF Mode, LINKED_LIST
    <3>2. CASE ~(Mode(val) < 3)
      BY <3>2 DEF Mode
    <3> QED
      BY <3>1, <3>2
  <2>7. channel_active(s) => Enabled \in val
    BY <2>4 DEF channel_active
  <2>8. addr = Chcr(c)
    BY <1>4 DEF addr, Chcr
  <2> QED
    BY <2>2, <2>4, <2>5, <2>6, <2>7, <2>8 DEF SendsOtherList, addr
<1> QED
  BY <1>3, <1>4 DEF addr

LEMMA AnswersWrite ==
  ASSUME kuseg \in [Ram -> Byte], ControlOK, running, ConsoleMap,
         NEW addr \in Addresses, NEW n \in {1, 2, 4}, NEW val \in Word,
         Documented("write", addr, n), Write(addr, n, val)
  PROVE  (running' \/ SendsOtherList(addr, val)) /\ (kuseg' # kuseg => addr \in Ram)
<1>1. CASE InRam(addr, n)
  <2>1. Store(addr, n, val) /\ Inside(kuseg, addr, n)
    BY <1>1, RamIsInside, PlainWrite
  <2>2. running' = running
    BY <2>1 DEF Store
  <2> QED
    BY <1>1, <2>2 DEF InRam
<1>2. CASE n = 4 /\ OfChannel(addr)
  <2>1. PICK c \in Channel, r \in {0, 4, 8} : addr = Register0(c) + r
    BY <1>2 DEF OfChannel, ChannelRegisters
  <2> QED
    BY <1>2, <2>1, ChannelAnswers
<1>3. CASE n = 4 /\ OfControl(addr)
  <2>1. write_dpcr(val) \/ write_dicr(val)
    BY <1>3, WriteOfControl DEF OfControl
  <2> QED
    BY <2>1 DEF write_dpcr, write_dicr
<1>4. CASE n = 4 /\ At(addr, Unkept)
  <2>1. /\ addr # CacheCtrl
        /\ \E o \in Unkept : \A offsets : At(addr, offsets) <=> o \in offsets
    BY <1>4, LowOffsets, OffsetsApart
  <2>2. PICK o \in Unkept : \A offsets : At(addr, offsets) <=> o \in offsets
    BY <2>1
  <2>3. /\ ~At(addr, MemControl) /\ ~At(addr, DmaRegisters)
        /\ ~At(addr, {Dpcr}) /\ ~At(addr, {Dicr})
        /\ At(addr, {IrqStatus, IrqMask, RamSizeReg, Gp0, Gp1} \cup Timers)
    BY <2>2, OffsetsApart
  <2>4. write_word(addr, val)
    BY <1>4 DEF Write
  <2>5. Ignore
    BY <2>1, <2>3, <2>4 DEF write_word
  <2> QED
    BY <2>5 DEF Ignore, vars
<1>5. CASE n = 2 /\ At(addr, Voices)
  <2>1. \E o \in Voices : \A offsets : At(addr, offsets) <=> o \in offsets
    BY <1>5, LowOffsets, OffsetsApart
  <2>2. PICK o \in Voices : \A offsets : At(addr, offsets) <=> o \in offsets
    BY <2>1
  <2>3. /\ ~At(addr, SpuControl) /\ ~At(addr, DmaRegisters)
        /\ At(addr, (Spu \ SpuControl) \cup Timers \cup {IrqMask})
    BY <2>2, OffsetsApart
  <2>4. write_hword(addr, val)
    BY <1>5 DEF Write
  <2>5. Ignore
    BY <2>3, <2>4 DEF write_hword
  <2> QED
    BY <2>5 DEF Ignore, vars
<1> QED
  BY <1>1, <1>2, <1>3, <1>4, <1>5, DocumentedIs

(* Whatever the program did before, whatever its transfers wrote and       *)
(* whichever BIOS file was found: no access that the manual describes runs *)
(* into the end of the process or into RAM that it does not name, and no   *)
(* read of it depends on what lies around an array.                        *)
THEOREM AnswersCorrect == ASSUME ConsoleMap PROVE HistorySpec => Answered
<1> DEFINE Answer == LET a == access'.addr  n == access'.n IN
                     /\ running' \/ SendsOtherList(a, access'.val)
                     /\ kuseg' # kuseg => a \in Ram
                     /\ access'.op = "read" => \E w \in Outcomes(a, n) : Outcomes(a, n) = {w}
<1>1. ASSUME HistoryInv, [HistoryNext]_history_vars, access' # access,
             Documented(access'.op, access'.addr, access'.n)
      PROVE  Answer
  <2>1. ~Start /\ ~Carry /\ ~(UNCHANGED history_vars)
    BY <1>1 DEF Start, Carry, Carried, history_vars
  <2>2. PICK addr \in Addresses, n \in {1, 2, 4} :
          Ready /\ (Sense(addr, n) \/ \E val \in Data : Drive(addr, n, val))
    BY <1>1, <2>1 DEF HistoryNext
  <2>3. MemoryTypeOK /\ ControlOK /\ kuseg \in [Ram -> Byte] /\ running
    BY <1>1, <2>2 DEF HistoryInv, BusInv, MemoryTypeOK, Ready
  <2>4. CASE Sense(addr, n)
    <3>1. PICK w \in Outcomes(addr, n) : Read(addr, n, w) /\ Sensed(addr, n, w)
      BY <2>4 DEF Sense
    <3>2. access'.op = "read" /\ access'.addr = addr /\ access'.n = n
      BY <3>1 DEF Sensed
    <3>3. PICK v \in Word : Outcomes(addr, n) = {v}
      BY <1>1, <2>3, <3>2, AnswersRead
    <3>4. w # Fault
      BY <3>1, <3>3, BusAssumption
    <3>5. UNCHANGED << kuseg, running >>
      BY <3>1, <3>4 DEF Read, vars
    <3> QED
      BY <2>3, <3>2, <3>3, <3>5
  <2>5. ASSUME NEW val \in Data, Drive(addr, n, val)
        PROVE  Answer
    <3>1. /\ access'.op = "write" /\ access'.addr = addr /\ access'.n = n /\ access'.val = val
          /\ Write(addr, n, val)
      BY <2>5 DEF Drive, Driven
    <3>2. val \in Word
      BY BusAssumption
    <3>3. (running' \/ SendsOtherList(addr, val)) /\ (kuseg' # kuseg => addr \in Ram)
      BY <1>1, <2>3, <3>1, <3>2, AnswersWrite
    <3> QED
      BY <3>1, <3>3
  <2> QED
    BY <2>2, <2>4, <2>5
<1> HIDE DEF Answer
<1>2. HistoryInv /\ [HistoryNext]_history_vars =>
        [access' # access /\ Documented(access'.op, access'.addr, access'.n) => Answer]_history_vars
  BY <1>1
<1>3. Answered <=> [][access' # access /\ Documented(access'.op, access'.addr, access'.n)
                        => Answer]_history_vars
  BY DEF Answered, Answer
<1> QED
  BY <1>2, <1>3, HistoryInvariant, PTL DEF HistorySpec
=============================================================================
