---------------------------- MODULE BusDmaProofs ----------------------------
(***************************************************************************)
(* Proof that the bus with the word-level controller implements Dma, for   *)
(* every width, size of RAM and memory map; what is proved of Dma          *)
(* therefore holds of the words and byte addresses of the program.         *)
(***************************************************************************)
EXTENDS BusDma, BusProofs

-----------------------------------------------------------------------------
(* Words of RAM.                                                           *)
Cells == Cell(RamSize)

LEMMA CellsType == Cells \in Nat /\ Cells > 0 /\ RamSize = 4 * Cells
  BY RamSizeType DEF Cells, Cell

LEMMA CellType == ASSUME NEW a \in Ram PROVE Cell(a) \in 0 .. Cells - 1
  BY CellsType DEF Ram, Cell

LEMMA PlaceType == ASSUME NEW w PROVE Place(w) \in 0 .. Cells - 1
  BY CellType, RamAddressType DEF Place

LEMMA EntryIs ==
  ASSUME NEW w \in Word
  PROVE  /\ Entry[w] = [words |-> LaneNumber(w, 3), last |-> Last \in w, next |-> Place(w)]
         /\ Entry[w] \in D!Entry
         /\ Entry[w].words = LaneNumber(w, 3) /\ Entry[w].next = Place(w)
         /\ Entry[w].last <=> Last \in w
<1>1. Entry[w] = [words |-> LaneNumber(w, 3), last |-> Last \in w, next |-> Place(w)]
  BY DEF Entry
<1>2. LaneNumber(w, 3) \in 0 .. 2 ^ ByteBits - 1 /\ Place(w) \in 0 .. Cells - 1
  BY LaneNumberType, PlaceType
<1>3. Entry[w] \in D!Entry
  BY <1>1, <1>2 DEF D!Entry, D!Cell, Cells
<1>4. Entry[w].words = LaneNumber(w, 3) /\ Entry[w].next = Place(w)
  BY DEF Entry
<1>5. Entry[w].last <=> Last \in w
  BY DEF Entry
<1> QED
  BY <1>1, <1>3, <1>4, <1>5

LEMMA LoadCell ==
  ASSUME NEW f \in [Ram -> Byte], NEW a \in 0 .. Cells - 1
  PROVE  /\ 4 * a \in Ram /\ 4 * a + 4 <= RamSize
         /\ Load(f, 4 * a, 4) \in Word
         /\ \A j \in 0 .. 3 : Index(4 * a, j) = 4 * a + j /\ 4 * a + j \in Ram
<1>1. 4 * a \in Ram /\ 4 * a + 4 <= RamSize
  BY CellsType DEF Ram
<1>2. \A j \in 0 .. 3 : Index(4 * a, j) = 4 * a + j /\ 4 * a + j \in Ram
  <2>1. Space \in Nat /\ Space > RamSize
    BY MemoryAssumption
  <2> QED
    BY <1>1, <2>1, CellsType DEF Index, Ram
<1>3. Load(f, 4 * a, 4) \in Word
  <2>1. \A j \in 0 .. 3 : InLane(f[Index(4 * a, j)], j) \subseteq Bit
    BY <1>2, InLaneType
  <2>2. Load(f, 4 * a, 4) = UNION { InLane(f[Index(4 * a, j)], j) : j \in 0 .. 3 }
    BY DEF Load
  <2> QED
    BY <2>1, <2>2 DEF Word
<1> QED
  BY <1>1, <1>2, <1>3

LEMMA FreshType == (UNION { InLane(Fill, j) : j \in 0 .. 3 }) \in Word /\ FreshEntry \in D!Entry
<1>1. \A j \in 0 .. 3 : InLane(Fill, j) \subseteq Bit
  BY InLaneType, MemoryAssumption
<1>2. (UNION { InLane(Fill, j) : j \in 0 .. 3 }) \in Word
  BY <1>1 DEF Word
<1> QED
  BY <1>2, EntryIs DEF FreshEntry

LEMMA EntriesIs ==
  ASSUME kuseg \in [Ram -> Byte]
  PROVE  /\ Entries = [a \in 0 .. Cells - 1 |-> Entry[Load(kuseg, 4 * a, 4)]]
         /\ Entries \in [D!Cell -> D!Entry]
<1>1. kuseg # Null
  BY MemoryAssumption
<1>2. Entries = [a \in 0 .. Cells - 1 |-> Entry[Load(kuseg, 4 * a, 4)]]
  BY <1>1 DEF Entries, Cells
<1>3. \A a \in 0 .. Cells - 1 : Entry[Load(kuseg, 4 * a, 4)] \in D!Entry
  BY LoadCell, EntryIs
<1> QED
  BY <1>2, <1>3 DEF D!Cell, Cells

(* A word of the program's and one of Dma's are stored alike.              *)
LEMMA StoreEntry ==
  ASSUME kuseg \in [Ram -> Byte], NEW a \in 0 .. Cells - 1, NEW v \in Word,
         kuseg' = Stored(kuseg, 4 * a, 4, v)
  PROVE  Entries' = [Entries EXCEPT ![a] = Entry[v]]
<1>1. kuseg' \in [Ram -> Byte]
  BY StoredType
<1>2. Entries' = [b \in 0 .. Cells - 1 |-> Entry[Load(kuseg', 4 * b, 4)]]
  <2>1. kuseg' # Null
    BY <1>1, MemoryAssumption
  <2> QED
    BY <2>1 DEF Entries, Cells
<1>3. \A b \in 0 .. Cells - 1 :
        Load(kuseg', 4 * b, 4) = IF b = a THEN v ELSE Load(kuseg, 4 * b, 4)
  <2> SUFFICES ASSUME NEW b \in 0 .. Cells - 1
               PROVE  Load(kuseg', 4 * b, 4) = IF b = a THEN v ELSE Load(kuseg, 4 * b, 4)
    OBVIOUS
  <2>1. /\ 4 * a \in Ram /\ 4 * a + 4 <= RamSize
        /\ 4 * b \in Ram /\ 4 * b + 4 <= RamSize
    BY LoadCell
  <2>2. CASE b = a
    <3>1. Load(kuseg', 4 * a, 4) = v \cap (0 .. ByteBits * 4 - 1)
      BY <2>1, LoadAfterStore
    <3>2. v \cap (0 .. ByteBits * 4 - 1) = v
      <4>1. ByteBits * 4 = 4 * ByteBits
        BY MemoryAssumption
      <4> QED
        BY <4>1 DEF Word, Bit
    <3> QED
      BY <2>2, <3>1, <3>2
  <2>3. CASE b # a
    <3>1. 4 * b + 4 <= 4 * a \/ 4 * a + 4 <= 4 * b
      BY <2>3, CellsType
    <3>2. Load(kuseg', 4 * b, 4) = Load(kuseg, 4 * b, 4)
      BY <2>1, <3>1, LoadBesideStore
    <3> QED
      BY <2>3, <3>2
  <2> QED
    BY <2>2, <2>3
<1> QED
  BY <1>2, <1>3, EntriesIs

(* A store of any width and alignment changes a word or two neighbours.    *)
LEMMA StoreNeighbours ==
  ASSUME kuseg \in [Ram -> Byte], NEW addr \in Addresses, NEW n \in {1, 2, 4}, NEW val,
         kuseg' = Stored(kuseg, addr, n, val)
  PROVE  \E a \in 0 .. Cells - 1 :
           \A b \in (0 .. Cells - 1) \ {a, (a + 1) % Cells} : Entries'[b] = Entries[b]
<1> DEFINE a == IF addr < RamSize THEN Cell(addr) ELSE Cells - 1
<1>1. /\ Cells \in Nat /\ Cells > 0 /\ RamSize = 4 * Cells /\ RamSize \in Nat
      /\ Space \in Nat /\ Space > RamSize /\ addr \in Nat /\ addr < Space
  BY CellsType, MemoryAssumption DEF Addresses
<1>2. a \in 0 .. Cells - 1
  BY <1>1 DEF Cell
<1>3. (a + 1) % Cells = IF a = Cells - 1 THEN 0 ELSE a + 1
  BY <1>1, <1>2
<1>4. ASSUME NEW b \in (0 .. Cells - 1) \ {a, (a + 1) % Cells}, NEW j \in 0 .. 3
      PROVE  kuseg'[4 * b + j] = kuseg[4 * b + j]
  <2> DEFINE x == 4 * b + j
             d == (x - addr) % Space
  <2>1. x \in Ram /\ x \in Nat /\ x < RamSize
    BY <1>1 DEF Ram
  <2>2. d = IF addr <= x THEN x - addr ELSE x - addr + Space
    <3>1. CASE addr <= x
      BY <1>1, <2>1, <3>1
    <3>2. CASE addr > x
      BY <1>1, <2>1, <3>2, Wraps
    <3> QED
      BY <1>1, <2>1, <3>1, <3>2
  <2>3. ~(d < 4)
    <3>1. CASE addr <= x
      <4>1. addr < RamSize /\ a = addr \div 4
        BY <1>1, <2>1, <3>1 DEF Cell
      <4>2. b # a /\ (b # a + 1 \/ a = Cells - 1)
        BY <1>3, <1>4
      <4> QED
        BY <1>1, <2>2, <3>1, <4>1, <4>2
    <3>2. CASE addr > x
      <4>1. d = x - addr + Space
        BY <1>1, <2>1, <2>2, <3>2
      <4>2. CASE addr < RamSize
        <5>1. Space - RamSize >= 8
          BY <1>1, MemoryAssumption, RamSizes
        <5> QED
          BY <1>1, <2>1, <4>1, <4>2, <5>1
      <4>3. CASE addr >= RamSize
        <5>1. b # 0 /\ b \in 0 .. Cells - 1
          BY <1>1, <1>3, <1>4, <4>3
        <5> QED
          BY <1>1, <2>1, <4>1, <5>1
      <4> QED
        BY <1>1, <4>2, <4>3
    <3> QED
      BY <1>1, <2>1, <3>1, <3>2
  <2>4. d \in Int
    BY <1>1, <2>1, <2>2
  <2>5. ~(d < n)
    BY <2>3, <2>4
  <2> QED
    BY <2>1, <2>5 DEF Stored
<1>5. ASSUME NEW b \in (0 .. Cells - 1) \ {a, (a + 1) % Cells}
      PROVE  Entries'[b] = Entries[b]
  <2>1. kuseg' \in [Ram -> Byte]
    BY StoredType
  <2>2. kuseg # Null /\ kuseg' # Null
    BY <2>1, MemoryAssumption
  <2>3. \A j \in 0 .. 3 : kuseg'[Index(4 * b, j)] = kuseg[Index(4 * b, j)]
    BY <1>4, LoadCell
  <2>4. Load(kuseg', 4 * b, 4) = Load(kuseg, 4 * b, 4)
    BY <2>3 DEF Load
  <2> QED
    BY <2>2, <2>4 DEF Entries, Cells
<1> HIDE DEF a
<1> QED
  BY <1>2, <1>5

-----------------------------------------------------------------------------
(* DICR.  Its flags are those of channels there are: the program can clear *)
(* flags only, and a transfer sets its own.                                *)
FlagsIn(d) == \A k \in 0 .. ByteBits - 2 : 3 * ByteBits + k \in d => \E c \in Channel : Slot(c) = k
FlagsOK    == FlagsIn(dicr)

AsDicr(d) == [force |-> Forced \in d, master |-> Master \in d, mask |-> Masked(d),
              flags |-> Flagged(d), irq |-> Active \in d]

LEMMA BitNumbers ==
  /\ ByteBits \in Nat /\ ByteBits >= 4
  /\ \A c \in Channel : Slot(c) \in 0 .. ByteBits - 2
  /\ \A c, d \in Channel : Slot(c) = Slot(d) => c = d
<1>1. ByteBits \in Nat /\ ByteBits >= 4
  BY MemoryAssumption
<1>2. /\ \A c \in Channel : Slot(c) \in 0 .. ByteBits - 2
      /\ \A c, d \in Channel : Slot(c) = Slot(d) => c = d
  BY ControllerAssumption
<1> QED
  BY <1>1, <1>2

LEMMA ActiveApart ==
  /\ Active # Forced /\ Active # Master
  /\ \A c \in Channel : Active # MaskBit(c) /\ Active # FlagBit(c)
  /\ \A k \in 0 .. ByteBits - 2 : Active # 3 * ByteBits + k
  BY BitNumbers DEF Active, Forced, Master, MaskBit, FlagBit

LEMMA SignalIs ==
  ASSUME NEW d, FlagsIn(d)
  PROVE  signal(d) <=> Masked(d) \cap Flagged(d) # {}
<1>1. ASSUME signal(d)
      PROVE  Masked(d) \cap Flagged(d) # {}
  <2>1. PICK k \in 0 .. ByteBits - 2 : { 2 * ByteBits + k, 3 * ByteBits + k } \subseteq d
    BY <1>1 DEF signal
  <2>2. PICK c \in Channel : Slot(c) = k
    BY <2>1 DEF FlagsIn
  <2>3. c \in Masked(d) /\ c \in Flagged(d)
    BY <2>1, <2>2 DEF Masked, Flagged, MaskBit, FlagBit
  <2> QED
    BY <2>3
<1>2. ASSUME Masked(d) \cap Flagged(d) # {}
      PROVE  signal(d)
  <2>1. PICK c \in Channel : MaskBit(c) \in d /\ FlagBit(c) \in d
    BY <1>2 DEF Masked, Flagged
  <2>2. Slot(c) \in 0 .. ByteBits - 2
    BY BitNumbers
  <2> QED
    BY <2>1, <2>2 DEF signal, MaskBit, FlagBit
<1> QED
  BY <1>1, <1>2

LEMMA UpdateMaps ==
  ASSUME NEW d, FlagsIn(d)
  PROVE  /\ AsDicr(update_irq_active(d)) = D!update_irq_active(AsDicr(d))
         /\ FlagsIn(update_irq_active(d))
<1> DEFINE u == update_irq_active(d)
           l == Forced \in d \/ (Master \in d /\ signal(d))
<1>1. u = IF l THEN d \cup {Active} ELSE d \ {Active}
  BY DEF update_irq_active
<1>2. \A x : x # Active => (x \in u <=> x \in d)
  BY <1>1
<1>3. Active \in u <=> l
  BY <1>1
<1>4. (Forced \in u <=> Forced \in d) /\ (Master \in u <=> Master \in d)
  BY <1>2, ActiveApart
<1>5. Masked(u) = Masked(d) /\ Flagged(u) = Flagged(d)
  BY <1>2, ActiveApart DEF Masked, Flagged
<1>6. l <=> D!Line(AsDicr(d))
  BY SignalIs DEF D!Line, AsDicr
<1>7. FlagsIn(u)
  BY <1>2, ActiveApart DEF FlagsIn
<1> HIDE DEF l, u
<1>8. AsDicr(u) = [AsDicr(d) EXCEPT !.irq = D!Line(AsDicr(d))]
  <2>1. (Active \in u) = D!Line(AsDicr(d))
    BY <1>3, <1>6 DEF D!Line, AsDicr
  <2>2. (Forced \in u) = (Forced \in d) /\ (Master \in u) = (Master \in d)
    BY <1>4
  <2> QED
    BY <1>5, <2>1, <2>2 DEF AsDicr
<1> QED
  BY <1>7, <1>8 DEF D!update_irq_active, u

LEMMA DicrMaps ==
  ASSUME FlagsOK, NEW val, write_dicr(val)
  PROVE  /\ DicrFields' = D!update_irq_active(
              [DicrFields EXCEPT !.force = Settings(val).force, !.master = Settings(val).master,
                                 !.mask = Settings(val).mask, !.flags = @ \ Settings(val).ack])
         /\ FlagsOK'
<1> DEFINE e == ((dicr \cap Flags) \cup (val \cap Settable)) \ (val \cap Acked)
<1>1. dicr' = update_irq_active(e)
  BY DEF write_dicr
<1>2. /\ Forced \in Settable /\ Forced \notin Flags /\ Master \in Settable /\ Master \notin Flags
      /\ Active \in Flags /\ Active \notin Settable
  BY BitNumbers DEF Forced, Master, Active, Settable, Flags
<1>3. /\ \A c \in Channel : MaskBit(c) \in Settable /\ MaskBit(c) \notin Flags
      /\ \A k \in 0 .. ByteBits - 2 : /\ 3 * ByteBits + k \in Flags
                                      /\ 3 * ByteBits + k \notin Settable
  BY BitNumbers DEF MaskBit, Settable, Forced, Flags
<1>4. \A c \in Channel : FlagBit(c) \in Flags /\ FlagBit(c) \notin Settable /\ FlagBit(c) # Active
  BY <1>3, BitNumbers, ActiveApart DEF FlagBit
<1>5. /\ Forced \in e <=> Forced \in val
      /\ Master \in e <=> Master \in val
      /\ Active \in e <=> Active \in dicr
  BY <1>2 DEF Acked
<1>6. Masked(e) = Masked(val)
  BY <1>3 DEF Masked, Acked
<1>7. Flagged(e) = Flagged(dicr) \ Flagged(val)
  BY <1>4 DEF Flagged, Acked
<1>8. FlagsIn(e)
  BY <1>3 DEF FlagsOK, FlagsIn, Acked
<1> HIDE DEF e
<1>9. AsDicr(e) = [DicrFields EXCEPT !.force = Settings(val).force,
                     !.master = Settings(val).master,
                     !.mask = Settings(val).mask, !.flags = @ \ Settings(val).ack]
  <2>1. (Forced \in e) = (Forced \in val) /\ (Master \in e) = (Master \in val)
    BY <1>5
  <2>2. (Active \in e) = (Active \in dicr)
    BY <1>5
  <2>3. AsDicr(e) = [force |-> Forced \in val, master |-> Master \in val, mask |-> Masked(val),
                     flags |-> Flagged(dicr) \ Flagged(val), irq |-> Active \in dicr]
    BY <1>6, <1>7, <2>1, <2>2 DEF AsDicr
  <2>4. [DicrFields EXCEPT !.force = Settings(val).force, !.master = Settings(val).master,
                           !.mask = Settings(val).mask, !.flags = @ \ Settings(val).ack]
          = [force |-> Forced \in val, master |-> Master \in val, mask |-> Masked(val),
             flags |-> Flagged(dicr) \ Flagged(val), irq |-> Active \in dicr]
    <3>1. DicrFields = [force |-> Forced \in dicr, master |-> Master \in dicr,
                        mask |-> Masked(dicr), flags |-> Flagged(dicr), irq |-> Active \in dicr]
      BY DEF DicrFields
    <3>2. /\ Settings(val).force = (Forced \in val) /\ Settings(val).master = (Master \in val)
          /\ Settings(val).mask = Masked(val) /\ Settings(val).ack = Flagged(val)
      BY DEF Settings
    <3> DEFINE f == Settings(val)
               d == [DicrFields EXCEPT !.force = f.force, !.master = f.master, !.mask = f.mask,
                                       !.flags = @ \ f.ack]
    <3> HIDE DEF f
    <3>3. d = [DicrFields EXCEPT !.force = f.force, !.master = f.master, !.mask = f.mask,
                                 !.flags = Flagged(dicr) \ f.ack]
      BY <3>1
    <3> HIDE DEF d
    <3>4. /\ d.force = f.force /\ d.master = f.master /\ d.mask = f.mask
          /\ d.flags = Flagged(dicr) \ f.ack /\ d.irq = (Active \in dicr)
      BY <3>1, <3>3
    <3>5. d = [force |-> d.force, master |-> d.master, mask |-> d.mask, flags |-> d.flags,
               irq |-> d.irq]
      BY <3>1, <3>3
    <3>6. d = [force |-> Forced \in val, master |-> Master \in val, mask |-> Masked(val),
               flags |-> Flagged(dicr) \ Flagged(val), irq |-> Active \in dicr]
      BY <3>2, <3>4, <3>5 DEF f
    <3> QED
      BY <3>6 DEF d, f
  <2> QED
    BY <2>3, <2>4
<1>10. DicrFields' = AsDicr(dicr')
  BY DEF DicrFields, AsDicr
<1> QED
  BY <1>1, <1>8, <1>9, <1>10, UpdateMaps DEF FlagsOK, FlagsIn

-----------------------------------------------------------------------------
(* The registers of a channel.                                             *)
LEMMA FieldsIs ==
  ASSUME NEW r \in Register
  PROVE  /\ Fields[r] =
              [base |-> Place(r.base_address), size |-> Number[LowHalf(r.block_control)],
               amount |-> Number[HighHalf(r.block_control)],
               chcr |-> Control(r.channel_control), from_ram |-> r.from_ram,
               syncmode |-> r.syncmode]
         /\ Fields[r].base = Place(r.base_address)
         /\ Fields[r].size = Number[LowHalf(r.block_control)]
         /\ Fields[r].amount = Number[HighHalf(r.block_control)]
         /\ Fields[r].chcr = Control(r.channel_control)
         /\ Fields[r].from_ram = r.from_ram /\ Fields[r].syncmode = r.syncmode
<1>1. Fields[r].base = Place(r.base_address) /\ Fields[r].size = Number[LowHalf(r.block_control)]
  BY DEF Fields
<1>2. /\ Fields[r].amount = Number[HighHalf(r.block_control)]
      /\ Fields[r].chcr = Control(r.channel_control)
  BY DEF Fields
<1>3. Fields[r].from_ram = r.from_ram
  BY DEF Fields
<1>4. Fields[r].syncmode = r.syncmode
  BY DEF Fields
<1>5. Fields[r] =
        [base |-> Place(r.base_address), size |-> Number[LowHalf(r.block_control)],
         amount |-> Number[HighHalf(r.block_control)],
         chcr |-> Control(r.channel_control), from_ram |-> r.from_ram,
         syncmode |-> r.syncmode]
  BY DEF Fields
<1> QED
  BY <1>1, <1>2, <1>3, <1>4, <1>5

LEMMA ControlIs ==
  ASSUME NEW w
  PROVE  /\ Control(w).from_ram = (FromRam \in w) /\ Control(w).mode = Mode(w)
         /\ Control(w).enabled = (Enabled \in w) /\ Control(w).trigger = (Trigger \in w)
<1>1. Control(w).from_ram = (FromRam \in w)
  BY DEF Control
<1>2. Control(w).mode = Mode(w)
  BY DEF Control
<1>3. Control(w).enabled = (Enabled \in w)
  BY DEF Control
<1>4. Control(w).trigger = (Trigger \in w)
  BY DEF Control
<1> QED
  BY <1>1, <1>2, <1>3, <1>4

LEMMA DecodedMaps ==
  ASSUME NEW r \in Register, NEW val \in Word
  PROVE  Fields[Decoded(r, val)] = D!Decoded(Fields[r], Control(val))
<1> DEFINE mode == IF Mode(val) < 3 THEN Mode(val) ELSE r.syncmode
           from == FromRam \in val
           e == Decoded(r, val)
<1>1. e \in Register
  BY DecodedType
<1>2. e = [r EXCEPT !.channel_control = val, !.from_ram = from, !.syncmode = mode]
  BY DEF Decoded
<1>3. /\ e.base_address = r.base_address /\ e.block_control = r.block_control
      /\ e.channel_control = val /\ e.from_ram = from /\ e.syncmode = mode
  BY <1>2 DEF Register
<1>4. Control(val).from_ram = from /\ Control(val).mode = Mode(val)
  BY ControlIs
<1> HIDE DEF e, from
<1>5. Fields[e] = [base |-> Place(r.base_address), size |-> Number[LowHalf(r.block_control)],
                   amount |-> Number[HighHalf(r.block_control)], chcr |-> Control(val),
                   from_ram |-> from, syncmode |-> mode]
  BY <1>1, <1>3, FieldsIs
<1>6. D!Decoded(Fields[r], Control(val)) =
        [base |-> Place(r.base_address), size |-> Number[LowHalf(r.block_control)],
         amount |-> Number[HighHalf(r.block_control)], chcr |-> Control(val),
         from_ram |-> from, syncmode |-> mode]
  <2> DEFINE new == IF Mode(val) < 3 THEN Mode(val) ELSE Fields[r].syncmode
  <2>1. D!Decoded(Fields[r], Control(val)) =
          [Fields[r] EXCEPT !.chcr = Control(val), !.from_ram = from, !.syncmode = new]
    BY <1>4 DEF D!Decoded
  <2>2. new = mode
    BY FieldsIs
  <2> HIDE DEF mode, new
  <2> DEFINE d == D!Decoded(Fields[r], Control(val))
  <2> HIDE DEF d
  <2>3. d = [Fields[r] EXCEPT !.chcr = Control(val), !.from_ram = from, !.syncmode = mode]
    BY <2>1, <2>2 DEF d
  <2>4. /\ d.base = Fields[r].base /\ d.size = Fields[r].size /\ d.amount = Fields[r].amount
        /\ d.chcr = Control(val) /\ d.from_ram = from /\ d.syncmode = mode
    BY <2>3, FieldsIs
  <2>5. d = [base |-> d.base, size |-> d.size, amount |-> d.amount, chcr |-> d.chcr,
             from_ram |-> d.from_ram, syncmode |-> d.syncmode]
    BY <2>3, FieldsIs
  <2> QED
    BY <2>4, <2>5, FieldsIs DEF d
<1> QED
  BY <1>5, <1>6 DEF e

LEMMA StartsIs ==
  ASSUME NEW r \in Register
  PROVE  (channel_active(r) /\ AnyEnabled) <=> D!Starts(Fields[r])
<1>1. /\ Fields[r].syncmode = r.syncmode /\ Fields[r].chcr.trigger = (Trigger \in r.channel_control)
      /\ Fields[r].chcr.enabled = (Enabled \in r.channel_control)
  BY FieldsIs, ControlIs
<1>2. AnyEnabled <=> EnabledBy(dpcr) # {}
  BY DEF AnyEnabled, EnabledBy
<1>3. channel_active(r) <=> D!channel_active(Fields[r])
  BY <1>1 DEF channel_active, D!channel_active, D!channel_trigger, IMMEDIATE, D!IMMEDIATE
<1> QED
  BY <1>2, <1>3 DEF D!Starts

LEMMA RefusedIs ==
  ASSUME NEW r \in Register, NEW c
  PROVE  (r.syncmode = LINKED_LIST /\ (~r.from_ram \/ c # GPU)) <=> D!Refused(c, Fields[r])
<1>1. Fields[r].syncmode = r.syncmode /\ Fields[r].from_ram = r.from_ram
  BY FieldsIs
<1> QED
  BY <1>1 DEF D!Refused, LINKED_LIST, D!LINKED_LIST, GPU, D!GPU

LEMMA ReleasedMaps ==
  ASSUME NEW r \in Register
  PROVE  Fields[[r EXCEPT !.channel_control = r.channel_control \ {Enabled}]]
           = D!Released(Fields[r])
<1> DEFINE w == r.channel_control
           v == w \ {Enabled}
           e == [r EXCEPT !.channel_control = v]
<1>1. /\ Enabled # FromRam /\ Enabled # ByteBits + 1 /\ Enabled # ByteBits + 2
      /\ Enabled # Trigger
  BY BitNumbers DEF Enabled, FromRam, Trigger
<1>2. /\ FromRam \in v <=> FromRam \in w
      /\ Trigger \in v <=> Trigger \in w
      /\ ByteBits + 1 \in v <=> ByteBits + 1 \in w
      /\ ByteBits + 2 \in v <=> ByteBits + 2 \in w
      /\ Enabled \notin v
  BY <1>1
<1>3. e \in Register
  BY DEF Register, Word
<1>4. /\ e.base_address = r.base_address /\ e.block_control = r.block_control
      /\ e.channel_control = v /\ e.from_ram = r.from_ram /\ e.syncmode = r.syncmode
  BY DEF Register
<1> HIDE DEF v, w, e
<1>5. Control(v) = [Control(w) EXCEPT !.enabled = FALSE]
  <2>1. Mode(v) = Mode(w)
    BY <1>2 DEF Mode
  <2>2. (FromRam \in v) = (FromRam \in w) /\ (Trigger \in v) = (Trigger \in w)
    BY <1>2
  <2>3. (Enabled \in v) = FALSE
    BY <1>2
  <2>4. Control(v) = [from_ram |-> FromRam \in w, mode |-> Mode(w), enabled |-> FALSE,
                      trigger |-> Trigger \in w]
    BY <2>1, <2>2, <2>3 DEF Control
  <2>5. [Control(w) EXCEPT !.enabled = FALSE]
          = [from_ram |-> FromRam \in w, mode |-> Mode(w), enabled |-> FALSE,
             trigger |-> Trigger \in w]
    <3> DEFINE c == Control(w)
               d == [c EXCEPT !.enabled = FALSE]
    <3>1. c = [from_ram |-> FromRam \in w, mode |-> Mode(w), enabled |-> Enabled \in w,
               trigger |-> Trigger \in w]
      BY DEF Control
    <3> HIDE DEF c
    <3>2. d = [c EXCEPT !.enabled = FALSE]
      OBVIOUS
    <3> HIDE DEF d
    <3>3. /\ d.from_ram = (FromRam \in w) /\ d.mode = Mode(w) /\ d.enabled = FALSE
          /\ d.trigger = (Trigger \in w)
      BY <3>1, <3>2
    <3>4. d = [from_ram |-> d.from_ram, mode |-> d.mode, enabled |-> d.enabled,
               trigger |-> d.trigger]
      BY <3>1, <3>2
    <3> QED
      BY <3>3, <3>4 DEF c, d
  <2> QED
    BY <2>4, <2>5
<1>6. Fields[e] = [base |-> Place(r.base_address), size |-> Number[LowHalf(r.block_control)],
                   amount |-> Number[HighHalf(r.block_control)], chcr |-> Control(v),
                   from_ram |-> r.from_ram, syncmode |-> r.syncmode]
  BY <1>3, <1>4, FieldsIs
<1>7. D!Released(Fields[r]) =
        [base |-> Place(r.base_address), size |-> Number[LowHalf(r.block_control)],
         amount |-> Number[HighHalf(r.block_control)],
         chcr |-> [Control(w) EXCEPT !.enabled = FALSE],
         from_ram |-> r.from_ram, syncmode |-> r.syncmode]
  <2> DEFINE new == [Control(w) EXCEPT !.enabled = FALSE]
  <2>1. D!Released(Fields[r]) = [Fields[r] EXCEPT !.chcr = new]
    BY FieldsIs DEF D!Released, w
  <2> HIDE DEF new
  <2> QED
    BY <2>1, FieldsIs DEF new
<1> QED
  BY <1>5, <1>6, <1>7 DEF e, v, w

LEMMA ChannelsMap ==
  ASSUME channels \in [Channel -> Register], NEW c \in Channel, NEW r \in Register,
         channels' = [channels EXCEPT ![c] = r]
  PROVE  ChannelFields' = [ChannelFields EXCEPT ![c] = Fields[r]]
<1>1. ChannelFields' = [d \in Channel |-> Fields[channels'[d]]]
  BY DEF ChannelFields
<1>2. \A d \in Channel : channels'[d] = IF d = c THEN r ELSE channels[d]
  OBVIOUS
<1> QED
  BY <1>1, <1>2 DEF ChannelFields

-----------------------------------------------------------------------------
(* The words a transfer writes, and the places it writes them to.          *)
LEMMA EmptyEntry == {} \in Word /\ Entry[{}] = D!Zero
<1>1. {} \in Word
  BY DEF Word
<1>2. LaneNumber({}, 3) = 0 /\ RamAddress({}) = 0
  BY NumberOfNothing
<1>3. Place({}) = 0
  BY <1>2 DEF Place, Cell
<1>4. (Last \in {}) = FALSE
  OBVIOUS
<1> QED
  BY <1>1, <1>2, <1>3, <1>4, EntryIs DEF D!Zero

LEMMA MarkerEntry == (0 .. 3 * ByteBits - 1) \in Word /\ Entry[0 .. 3 * ByteBits - 1] = D!Marker
<1> DEFINE w == 0 .. 3 * ByteBits - 1
<1>1. w \in Word /\ LaneNumber(w, 3) = 0 /\ RamAddress(w) = RamSize - 1
  BY LowBytes
<1>2. Place(w) = Cells - 1
  <2>1. (RamSize - 1) \div 4 = Cells - 1
    BY CellsType
  <2> QED
    BY <1>1, <2>1 DEF Place, Cell
<1>3. (Last \in w) = TRUE
  BY BitNumbers DEF Last
<1> HIDE DEF w
<1>4. Entry[w] = [words |-> 0, last |-> TRUE, next |-> Cells - 1]
  BY <1>1, <1>2, <1>3, EntryIs
<1> QED
  BY <1>1, <1>4 DEF w, D!Marker, Cells

LEMMA LinkEntry ==
  ASSUME NEW n \in Ram
  PROVE  /\ Address(n) \in Word
         /\ Entry[Address(n)] = [words |-> 0, last |-> FALSE, next |-> Cell(n)]
<1> DEFINE w == Address(n)
<1>1. AddrBits \in Nat /\ AddrBits < 3 * ByteBits
  BY MemoryAssumption
<1>2. \A k \in w : k \in 0 .. 3 * ByteBits - 1 /\ k # Last /\ k < AddrBits
  <2>1. \A k \in w : k \in 0 .. AddrBits - 1
    BY DEF Address
  <2>2. AddrBits <= Last
    <3>1. AddrBits <= 3 * ByteBits - 1
      BY <1>1, BitNumbers
    <3> QED
      BY <3>1 DEF Last
  <2> HIDE DEF w
  <2> QED
    BY <1>1, <2>1, <2>2, BitNumbers DEF Last
<1>3. w \in Word
  <2>1. \A k \in 0 .. 3 * ByteBits - 1 : k \in Bit
    BY BitNumbers DEF Bit
  <2> QED
    BY <1>2, <2>1 DEF Word
<1>4. LaneNumber(w, 3) = 0
  <2>1. \A k \in 0 .. 7 : ByteBits * 3 + k \notin 0 .. 3 * ByteBits - 1
    BY BitNumbers
  <2>2. \A k \in 0 .. 7 : ByteBits * 3 + k \notin w
    BY <1>2, <2>1
  <2> HIDE DEF w
  <2>3. \A k \in 0 .. 7 : Digit(w, 3, k) = 0
    BY <2>2 DEF Digit
  <2> QED
    BY <2>3 DEF LaneNumber
<1>5. (Last \in w) = FALSE
  BY <1>2
<1>6. Place(w) = Cell(n)
  BY AddressBack DEF Place
<1> HIDE DEF w
<1>7. Entry[w] = [words |-> 0, last |-> FALSE, next |-> Cell(n)]
  BY <1>3, <1>4, <1>5, <1>6, EntryIs
<1> QED
  BY <1>3, <1>7 DEF w

LEMMA AlignedCell ==
  ASSUME NEW a \in Ram
  PROVE  Cell(WordAddress(a)) = Cell(a) /\ WordAddress(a) = 4 * Cell(a)
  BY CellsType DEF Ram, Cell, WordAddress

LEMMA MoveCell ==
  ASSUME transfer.addr \in Ram
  PROVE  /\ Cell(Move(4)) = D!Wrap(Cell(transfer.addr) + 1)
         /\ Cell(Move(-4)) = D!Wrap(Cell(transfer.addr) - 1)
<1> DEFINE x == transfer.addr
           a == Cell(x)
<1>1. x \in Nat /\ x < 4 * Cells /\ RamSize = 4 * Cells /\ Cells \in Nat /\ Cells > 0
  BY CellsType DEF Ram
<1>2. a = x \div 4 /\ a \in Nat /\ a < Cells
  BY <1>1 DEF Cell
<1>3. Move(4) = (x + 4) % RamSize /\ Move(-4) = (x + (-4)) % RamSize
  BY DEF Move
<1>4. /\ D!Wrap(a + 1) = (a + 1) % Cells
      /\ D!Wrap(a - 1) = (a - 1) % Cells
  BY DEF D!Wrap, Cells
<1> HIDE DEF x, a
<1>5. Cell(Move(4)) = (a + 1) % Cells
  <2>1. CASE a + 1 < Cells
    <3>1. x + 4 < RamSize /\ Move(4) = x + 4
      BY <1>1, <1>2, <1>3, <2>1
    <3> QED
      BY <1>1, <1>2, <2>1, <3>1 DEF Cell
  <2>2. CASE a + 1 = Cells
    <3>1. x + 4 >= RamSize /\ x + 4 < RamSize + 4
      BY <1>1, <1>2, <2>2
    <3>2. Move(4) = x + 4 - RamSize
      BY <1>1, <1>3, <3>1
    <3> QED
      BY <1>1, <1>2, <2>2, <3>1, <3>2 DEF Cell
  <2> QED
    BY <1>1, <1>2, <2>1, <2>2
<1>6. Cell(Move(-4)) = (a - 1) % Cells
  <2>1. CASE a > 0
    <3>1. x >= 4 /\ Move(-4) = x - 4
      BY <1>1, <1>2, <1>3, <2>1
    <3> QED
      BY <1>1, <1>2, <2>1, <3>1 DEF Cell
  <2>2. CASE a = 0
    <3>1. x < 4 /\ Move(-4) = x - 4 + RamSize
      BY <1>1, <1>2, <1>3, <2>2
    <3>2. (a - 1) % Cells = Cells - 1
      BY <1>1, <2>2
    <3> QED
      BY <1>1, <1>2, <3>1, <3>2 DEF Cell
  <2> QED
    BY <1>1, <1>2, <2>1, <2>2
<1> QED
  BY <1>4, <1>5, <1>6 DEF x, a

LEMMA ValueMaps ==
  ASSUME transfer.addr \in Ram
  PROVE  /\ Value \in Word
         /\ Entry[Value] = D!Value(transfer.channel, Cell(transfer.addr), transfer.words_left)
<1>1. CASE transfer.channel # OTC
  BY <1>1, EmptyEntry DEF Value, D!Value, OTC, D!OTC
<1>2. CASE transfer.channel = OTC /\ transfer.words_left = 1
  BY <1>2, MarkerEntry DEF Value, D!Value, OTC, D!OTC
<1>3. CASE transfer.channel = OTC /\ transfer.words_left # 1
  <2>1. Move(-4) \in Ram /\ Cell(Move(-4)) = D!Wrap(Cell(transfer.addr) - 1)
    BY MoveType, MoveCell
  <2>2. Value = Address(Move(-4))
    BY <1>3 DEF Value
  <2>3. Value \in Word
        /\ Entry[Value] = [words |-> 0, last |-> FALSE, next |-> D!Wrap(Cell(transfer.addr) - 1)]
    BY <2>1, <2>2, LinkEntry
  <2> QED
    BY <1>3, <2>3 DEF D!Value, D!Link, OTC, D!OTC
<1> QED
  BY <1>1, <1>2, <1>3

-----------------------------------------------------------------------------
(* The transfer.                                                           *)
AsTransfer(t) == [t EXCEPT !.addr = Cell(@), !.entry = Entry[@]]

LEMMA TransferIs ==
  ASSUME NEW t \in Transfer
  PROVE  /\ AsTransfer(t) = [phase |-> t.phase, channel |-> t.channel, addr |-> Cell(t.addr),
                             words_left |-> t.words_left, entry |-> Entry[t.entry]]
         /\ AsTransfer(t).phase = t.phase /\ AsTransfer(t).channel = t.channel
         /\ AsTransfer(t).addr = Cell(t.addr) /\ AsTransfer(t).words_left = t.words_left
         /\ AsTransfer(t).entry = Entry[t.entry]
<1> DEFINE a == Cell(t.addr)
           e == Entry[t.entry]
           y == AsTransfer(t)
<1>1. y = [t EXCEPT !.addr = a, !.entry = e]
  BY DEF AsTransfer
<1> HIDE DEF a, e, y
<1>2. y.phase = t.phase /\ y.channel = t.channel /\ y.addr = a
      /\ y.words_left = t.words_left /\ y.entry = e
  BY <1>1 DEF Transfer
<1>3. y = [phase |-> y.phase, channel |-> y.channel, addr |-> y.addr,
           words_left |-> y.words_left, entry |-> y.entry]
  BY <1>1 DEF Transfer
<1> QED
  BY <1>2, <1>3 DEF a, e, y

LEMMA FieldsOfTransfer ==
  TransferFields = AsTransfer(transfer) /\ TransferFields' = AsTransfer(transfer')
  BY DEF TransferFields, AsTransfer

LEMMA IdleMaps == AsTransfer(NoTransfer) = D!Idle
<1>1. NoTransfer \in Transfer /\ Entry[{}] = D!Zero /\ Cell(0) = 0
  BY NoTransferType, EmptyEntry DEF Cell
<1>2. /\ NoTransfer.phase = "none" /\ NoTransfer.channel = GPU /\ NoTransfer.addr = 0
      /\ NoTransfer.words_left = 0 /\ NoTransfer.entry = {}
  BY DEF NoTransfer
<1>3. AsTransfer(NoTransfer) = [phase |-> "none", channel |-> GPU, addr |-> 0,
                                words_left |-> 0, entry |-> D!Zero]
  BY <1>1, <1>2, TransferIs
<1> QED
  BY <1>3 DEF D!Idle, GPU, D!GPU

(* A step of one of the two copies, where the fields named change.         *)
LEMMA AdvanceMaps ==
  ASSUME transfer \in Transfer, NEW a \in Ram,
         transfer' \in Transfer,
         transfer' = [transfer EXCEPT !.addr = a, !.words_left = @ - 1]
  PROVE  TransferFields' = [TransferFields EXCEPT !.addr = Cell(a), !.words_left = @ - 1]
<1> DEFINE z == TransferFields
           b == Cell(a)
           w == transfer.words_left - 1
<1>1. z = [phase |-> transfer.phase, channel |-> transfer.channel, addr |-> Cell(transfer.addr),
           words_left |-> transfer.words_left, entry |-> Entry[transfer.entry]]
      /\ z.words_left = transfer.words_left
  BY TransferIs, FieldsOfTransfer
<1>2. /\ transfer'.phase = transfer.phase /\ transfer'.channel = transfer.channel
      /\ transfer'.addr = a /\ transfer'.words_left = w
      /\ transfer'.entry = transfer.entry
  BY DEF Transfer
<1> DEFINE y == [z EXCEPT !.addr = b, !.words_left = w]
<1> HIDE DEF z, b, w
<1>3. y = [z EXCEPT !.addr = b, !.words_left = w]
  OBVIOUS
<1> HIDE DEF y
<1>4. y.phase = transfer.phase /\ y.channel = transfer.channel /\ y.addr = b
      /\ y.words_left = w /\ y.entry = Entry[transfer.entry]
  BY <1>1, <1>3
<1>5. y = [phase |-> y.phase, channel |-> y.channel, addr |-> y.addr,
           words_left |-> y.words_left, entry |-> y.entry]
  BY <1>1, <1>3
<1>6. AsTransfer(transfer') = y
  <2>1. AsTransfer(transfer') = [phase |-> transfer'.phase, channel |-> transfer'.channel,
                                 addr |-> Cell(transfer'.addr),
                                 words_left |-> transfer'.words_left,
                                 entry |-> Entry[transfer'.entry]]
    BY TransferIs
  <2> QED
    BY <1>2, <1>4, <1>5, <2>1 DEF b
<1>7. [TransferFields EXCEPT !.addr = Cell(a), !.words_left = @ - 1] = y
  BY <1>1 DEF y, z, b, w
<1> QED
  BY <1>6, <1>7, FieldsOfTransfer

LEMMA EntryStepMaps ==
  ASSUME transfer \in Transfer, NEW e \in Word, NEW w,
         transfer' \in Transfer,
         transfer' = [transfer EXCEPT !.phase = "packet", !.entry = e, !.words_left = w]
  PROVE  TransferFields' =
           [TransferFields EXCEPT !.phase = "packet", !.entry = Entry[e], !.words_left = w]
<1> DEFINE z == TransferFields
           b == Entry[e]
<1>1. z = [phase |-> transfer.phase, channel |-> transfer.channel, addr |-> Cell(transfer.addr),
           words_left |-> transfer.words_left, entry |-> Entry[transfer.entry]]
  BY TransferIs, FieldsOfTransfer
<1>2. /\ transfer'.phase = "packet" /\ transfer'.channel = transfer.channel
      /\ transfer'.addr = transfer.addr /\ transfer'.words_left = w
      /\ transfer'.entry = e
  BY DEF Transfer
<1> DEFINE y == [z EXCEPT !.phase = "packet", !.entry = b, !.words_left = w]
<1> HIDE DEF z, b
<1>3. y = [z EXCEPT !.phase = "packet", !.entry = b, !.words_left = w]
  OBVIOUS
<1> HIDE DEF y
<1>4. y.phase = "packet" /\ y.channel = transfer.channel /\ y.addr = Cell(transfer.addr)
      /\ y.words_left = w /\ y.entry = b
  BY <1>1, <1>3
<1>5. y = [phase |-> y.phase, channel |-> y.channel, addr |-> y.addr,
           words_left |-> y.words_left, entry |-> y.entry]
  BY <1>1, <1>3
<1>6. AsTransfer(transfer') = y
  <2>1. AsTransfer(transfer') = [phase |-> transfer'.phase, channel |-> transfer'.channel,
                                 addr |-> Cell(transfer'.addr),
                                 words_left |-> transfer'.words_left,
                                 entry |-> Entry[transfer'.entry]]
    BY TransferIs
  <2> QED
    BY <1>2, <1>4, <1>5, <2>1 DEF b
<1> QED
  BY <1>6, FieldsOfTransfer DEF y, z, b

LEMMA FollowMaps ==
  ASSUME transfer \in Transfer, NEW a \in Ram,
         transfer' \in Transfer,
         transfer' = [transfer EXCEPT !.phase = "entry", !.addr = a]
  PROVE  TransferFields' = [TransferFields EXCEPT !.phase = "entry", !.addr = Cell(a)]
<1> DEFINE z == TransferFields
           b == Cell(a)
<1>1. z = [phase |-> transfer.phase, channel |-> transfer.channel, addr |-> Cell(transfer.addr),
           words_left |-> transfer.words_left, entry |-> Entry[transfer.entry]]
  BY TransferIs, FieldsOfTransfer
<1>2. /\ transfer'.phase = "entry" /\ transfer'.channel = transfer.channel
      /\ transfer'.addr = a /\ transfer'.words_left = transfer.words_left
      /\ transfer'.entry = transfer.entry
  BY DEF Transfer
<1> DEFINE y == [z EXCEPT !.phase = "entry", !.addr = b]
<1> HIDE DEF z, b
<1>3. y = [z EXCEPT !.phase = "entry", !.addr = b]
  OBVIOUS
<1> HIDE DEF y
<1>4. y.phase = "entry" /\ y.channel = transfer.channel /\ y.addr = b
      /\ y.words_left = transfer.words_left /\ y.entry = Entry[transfer.entry]
  BY <1>1, <1>3
<1>5. y = [phase |-> y.phase, channel |-> y.channel, addr |-> y.addr,
           words_left |-> y.words_left, entry |-> y.entry]
  BY <1>1, <1>3
<1>6. AsTransfer(transfer') = y
  <2>1. AsTransfer(transfer') = [phase |-> transfer'.phase, channel |-> transfer'.channel,
                                 addr |-> Cell(transfer'.addr),
                                 words_left |-> transfer'.words_left,
                                 entry |-> Entry[transfer'.entry]]
    BY TransferIs
  <2> QED
    BY <1>2, <1>4, <1>5, <2>1 DEF b
<1> QED
  BY <1>6, FieldsOfTransfer DEF y, z, b

-----------------------------------------------------------------------------
(* What is left alone, and what ends the process.                          *)
LEMMA SameFields ==
  /\ kuseg' = kuseg => Entries' = Entries
  /\ dpcr' = dpcr => EnabledBy(dpcr)' = EnabledBy(dpcr)
  /\ dicr' = dicr => DicrFields' = DicrFields
  /\ channels' = channels => ChannelFields' = ChannelFields
  /\ transfer' = transfer => TransferFields' = TransferFields
<1>1. kuseg' = kuseg => Entries' = Entries
  BY DEF Entries
<1>2. dpcr' = dpcr => EnabledBy(dpcr)' = EnabledBy(dpcr)
  OBVIOUS
<1>3. dicr' = dicr => DicrFields' = DicrFields
  BY DEF DicrFields
<1>4. channels' = channels => ChannelFields' = ChannelFields
  BY DEF ChannelFields
<1>5. transfer' = transfer => TransferFields' = TransferFields
  BY DEF TransferFields
<1> QED
  BY <1>1, <1>2, <1>3, <1>4, <1>5

LEMMA IgnoreMaps == ASSUME UNCHANGED vars PROVE UNCHANGED D!vars
  BY SameFields DEF vars, dma_vars, D!vars

CpuTurn == running /\ transfer.phase = "none"

LEMMA ExitMaps == ASSUME ControlOK, CpuTurn, Exit PROVE D!Cpu
<1>1. TransferFields.phase = "none"
  BY TransferIs, FieldsOfTransfer DEF ControlOK, CpuTurn
<1>2. D!invalid_offset
  BY SameFields DEF Exit, dma_vars, D!invalid_offset, D!Exit
<1> QED
  BY <1>1, <1>2 DEF D!Cpu, CpuTurn

-----------------------------------------------------------------------------
(* Accesses of the processor.                                              *)
LEMMA StoreMaps ==
  ASSUME ControlOK, CpuTurn, kuseg \in [Ram -> Byte],
         NEW addr \in Addresses, NEW n \in {1, 2, 4}, NEW val, Store(addr, n, val)
  PROVE  D!Cpu
<1>1. CASE Exit
  BY <1>1, ExitMaps
<1>2. CASE kuseg' = Stored(kuseg, addr, n, val) /\ UNCHANGED << bseg, dma_vars, running >>
  <2>1. PICK a \in 0 .. Cells - 1 :
          \A b \in (0 .. Cells - 1) \ {a, (a + 1) % Cells} : Entries'[b] = Entries[b]
    BY <1>2, StoreNeighbours
  <2>2. Entries' \in [D!Cell -> D!Entry]
    <3>1. kuseg' \in [Ram -> Byte] /\ kuseg' # Null
      <4>1. kuseg' \in [Ram -> Byte]
        BY <1>2, StoredType
      <4> QED
        BY <4>1, MemoryAssumption
    <3>2. Entries' = [b \in 0 .. Cells - 1 |-> Entry[Load(kuseg', 4 * b, 4)]]
      BY <3>1 DEF Entries, Cells
    <3>3. \A b \in 0 .. Cells - 1 : Entry[Load(kuseg', 4 * b, 4)] \in D!Entry
      BY <3>1, LoadCell, EntryIs
    <3> QED
      BY <3>2, <3>3 DEF D!Cell, Cells
  <2>3. D!cpu_store(a)
    BY <1>2, <2>1, <2>2, SameFields DEF D!cpu_store, D!Cell, D!Wrap, Cells, dma_vars
  <2>4. TransferFields.phase = "none" /\ a \in D!Cell
    BY <2>1, TransferIs, FieldsOfTransfer DEF ControlOK, CpuTurn, D!Cell, Cells
  <2> QED
    BY <2>3, <2>4 DEF D!Cpu, CpuTurn
<1> QED
  BY <1>1, <1>2 DEF Store

LEMMA DpcrMaps ==
  ASSUME ControlOK, CpuTurn, NEW val \in Data, write_dpcr(val)
  PROVE  D!Cpu
<1>1. TransferFields.phase = "none" /\ EnabledBy(val) \in EnableWrites
  BY TransferIs, FieldsOfTransfer DEF ControlOK, CpuTurn, EnableWrites
<1>2. D!write_dpcr(EnabledBy(val))
  BY SameFields DEF write_dpcr, D!write_dpcr
<1> QED
  BY <1>1, <1>2 DEF D!Cpu, CpuTurn

LEMMA DicrWriteMaps ==
  ASSUME ControlOK, FlagsOK, CpuTurn, NEW val \in Data, write_dicr(val)
  PROVE  D!Cpu /\ FlagsOK'
<1>1. TransferFields.phase = "none" /\ Settings(val) \in DicrWrites
  BY TransferIs, FieldsOfTransfer DEF ControlOK, CpuTurn, DicrWrites
<1>2. D!write_dicr(Settings(val)) /\ FlagsOK'
  BY SameFields, DicrMaps DEF write_dicr, D!write_dicr
<1> QED
  BY <1>1, <1>2 DEF D!Cpu, CpuTurn

LEMMA BaseMaps ==
  ASSUME NEW r \in Register, NEW val \in Word
  PROVE  /\ [r EXCEPT !.base_address = val] \in Register
         /\ Fields[[r EXCEPT !.base_address = val]] = [Fields[r] EXCEPT !.base = Place(val)]
<1> DEFINE e == [r EXCEPT !.base_address = val]
           z == Fields[r]
           p == Place(val)
           y == [z EXCEPT !.base = p]
<1>1. e \in Register
  BY DEF Register
<1>2. /\ e.base_address = val /\ e.block_control = r.block_control
      /\ e.channel_control = r.channel_control /\ e.from_ram = r.from_ram
      /\ e.syncmode = r.syncmode
  BY DEF Register
<1> HIDE DEF e
<1>3. Fields[e] = [base |-> p, size |-> z.size, amount |-> z.amount, chcr |-> z.chcr,
                   from_ram |-> z.from_ram, syncmode |-> z.syncmode]
  <2>1. Fields[e] =
          [base |-> Place(e.base_address), size |-> Number[LowHalf(e.block_control)],
           amount |-> Number[HighHalf(e.block_control)], chcr |-> Control(e.channel_control),
           from_ram |-> e.from_ram, syncmode |-> e.syncmode]
    BY <1>1, FieldsIs
  <2>2. /\ z.base = Place(r.base_address) /\ z.size = Number[LowHalf(r.block_control)]
        /\ z.amount = Number[HighHalf(r.block_control)]
        /\ z.chcr = Control(r.channel_control)
        /\ z.from_ram = r.from_ram /\ z.syncmode = r.syncmode
    BY FieldsIs
  <2> HIDE DEF z
  <2> QED
    BY <1>2, <2>1, <2>2
<1>4. z = [base |-> z.base, size |-> z.size, amount |-> z.amount, chcr |-> z.chcr,
           from_ram |-> z.from_ram, syncmode |-> z.syncmode]
  BY FieldsIs
<1> HIDE DEF z, p
<1>5. y = [z EXCEPT !.base = p]
  OBVIOUS
<1> HIDE DEF y
<1>6. /\ y.base = p /\ y.size = z.size /\ y.amount = z.amount /\ y.chcr = z.chcr
      /\ y.from_ram = z.from_ram /\ y.syncmode = z.syncmode
  BY <1>4, <1>5
<1>7. y = [base |-> y.base, size |-> y.size, amount |-> y.amount, chcr |-> y.chcr,
           from_ram |-> y.from_ram, syncmode |-> y.syncmode]
  BY <1>4, <1>5
<1> QED
  BY <1>1, <1>3, <1>6, <1>7 DEF e, z, p, y

LEMMA CountMaps ==
  ASSUME NEW r \in Register, NEW val \in Word
  PROVE  /\ [r EXCEPT !.block_control = val] \in Register
         /\ Fields[[r EXCEPT !.block_control = val]]
              = [Fields[r] EXCEPT !.size = Number[LowHalf(val)],
                                  !.amount = Number[HighHalf(val)]]
<1> DEFINE e == [r EXCEPT !.block_control = val]
           z == Fields[r]
           p == Number[LowHalf(val)]
           q == Number[HighHalf(val)]
           y == [z EXCEPT !.size = p, !.amount = q]
<1>1. e \in Register
  BY DEF Register
<1>2. /\ e.base_address = r.base_address /\ e.block_control = val
      /\ e.channel_control = r.channel_control /\ e.from_ram = r.from_ram
      /\ e.syncmode = r.syncmode
  BY DEF Register
<1> HIDE DEF e
<1>3. Fields[e] = [base |-> z.base, size |-> p, amount |-> q, chcr |-> z.chcr,
                   from_ram |-> z.from_ram, syncmode |-> z.syncmode]
  <2>1. Fields[e] =
          [base |-> Place(e.base_address), size |-> Number[LowHalf(e.block_control)],
           amount |-> Number[HighHalf(e.block_control)], chcr |-> Control(e.channel_control),
           from_ram |-> e.from_ram, syncmode |-> e.syncmode]
    BY <1>1, FieldsIs
  <2>2. /\ z.base = Place(r.base_address) /\ z.size = Number[LowHalf(r.block_control)]
        /\ z.amount = Number[HighHalf(r.block_control)]
        /\ z.chcr = Control(r.channel_control)
        /\ z.from_ram = r.from_ram /\ z.syncmode = r.syncmode
    BY FieldsIs
  <2> HIDE DEF z
  <2> QED
    BY <1>2, <2>1, <2>2
<1>4. z = [base |-> z.base, size |-> z.size, amount |-> z.amount, chcr |-> z.chcr,
           from_ram |-> z.from_ram, syncmode |-> z.syncmode]
  BY FieldsIs
<1> HIDE DEF z, p, q
<1>5. y = [z EXCEPT !.size = p, !.amount = q]
  OBVIOUS
<1> HIDE DEF y
<1>6. /\ y.base = z.base /\ y.size = p /\ y.amount = q /\ y.chcr = z.chcr
      /\ y.from_ram = z.from_ram /\ y.syncmode = z.syncmode
  BY <1>4, <1>5
<1>7. y = [base |-> y.base, size |-> y.size, amount |-> y.amount, chcr |-> y.chcr,
           from_ram |-> y.from_ram, syncmode |-> y.syncmode]
  BY <1>4, <1>5
<1> QED
  BY <1>1, <1>3, <1>6, <1>7 DEF e, z, p, q, y

LEMMA StartMaps ==
  ASSUME NEW c \in Channel, NEW r \in Register, do_dma(c, r)
  PROVE  D!do_dma(c, Fields[r])
<1> DEFINE base  == RamAddress(r.base_address)
           size  == Number[LowHalf(r.block_control)]
           words == IF r.syncmode = IMMEDIATE THEN size
                    ELSE size * Number[HighHalf(r.block_control)]
           list  == r.syncmode = LINKED_LIST
           p == IF list THEN "entry" ELSE "block"
           a == IF list THEN WordAddress(base) ELSE base
           w == IF list THEN 0 ELSE words
<1>1. transfer' = IF list
                  THEN [NoTransfer EXCEPT !.phase = "entry", !.channel = c,
                                          !.addr = WordAddress(base)]
                  ELSE [NoTransfer EXCEPT !.phase = "block", !.channel = c,
                                          !.addr = base, !.words_left = words]
  BY DEF do_dma
<1>2. transfer' \in Transfer
  BY DoDmaType
<1>3. Cell(a) = Fields[r].base
  <2>1. base \in Ram /\ Fields[r].base = Cell(base)
    BY RamAddressType, FieldsIs DEF Place
  <2>2. Cell(WordAddress(base)) = Cell(base)
    BY <2>1, AlignedCell
  <2> HIDE DEF base
  <2> QED
    BY <2>1, <2>2
<1>4. w = IF Fields[r].syncmode = D!LINKED_LIST THEN 0 ELSE D!Words(Fields[r])
  <2>1. D!Words(Fields[r]) = words
    BY FieldsIs DEF D!Words, IMMEDIATE, D!IMMEDIATE
  <2>2. Fields[r].syncmode = D!LINKED_LIST <=> list
    BY FieldsIs DEF LINKED_LIST, D!LINKED_LIST
  <2> HIDE DEF words, list
  <2> QED
    BY <2>1, <2>2
<1>5. p = IF Fields[r].syncmode = D!LINKED_LIST THEN "entry" ELSE "block"
  BY FieldsIs DEF LINKED_LIST, D!LINKED_LIST
<1>6. /\ transfer'.phase = p /\ transfer'.channel = c /\ transfer'.addr = a
      /\ transfer'.words_left = w /\ transfer'.entry = {}
  <2> HIDE DEF base, words, list
  <2>1. CASE list
    BY <1>1, <2>1 DEF NoTransfer
  <2>2. CASE ~list
    BY <1>1, <2>2 DEF NoTransfer
  <2> QED
    BY <2>1, <2>2
<1> DEFINE b == Fields[r].base
           z == D!Idle
           y == [z EXCEPT !.phase = p, !.channel = c, !.addr = b, !.words_left = w]
<1>7. TransferFields' = [phase |-> p, channel |-> c, addr |-> b, words_left |-> w,
                         entry |-> D!Zero]
  <2> HIDE DEF p, a, w
  <2>1. AsTransfer(transfer') = [phase |-> transfer'.phase, channel |-> transfer'.channel,
                                 addr |-> Cell(transfer'.addr),
                                 words_left |-> transfer'.words_left,
                                 entry |-> Entry[transfer'.entry]]
    BY <1>2, TransferIs
  <2> QED
    BY <1>3, <1>6, <2>1, EmptyEntry, FieldsOfTransfer
<1>8. D!do_dma(c, Fields[r]) <=> TransferFields' = y
  <2> HIDE DEF p, w
  <2> QED
    BY <1>4, <1>5 DEF D!do_dma
<1>9. z = [phase |-> "none", channel |-> D!GPU, addr |-> 0, words_left |-> 0, entry |-> D!Zero]
  BY DEF D!Idle
<1> HIDE DEF p, w, b, z
<1>10. y = [z EXCEPT !.phase = p, !.channel = c, !.addr = b, !.words_left = w]
  OBVIOUS
<1> HIDE DEF y
<1>11. y.phase = p /\ y.channel = c /\ y.addr = b /\ y.words_left = w /\ y.entry = D!Zero
  BY <1>9, <1>10
<1>12. y = [phase |-> y.phase, channel |-> y.channel, addr |-> y.addr,
            words_left |-> y.words_left, entry |-> y.entry]
  BY <1>9, <1>10
<1> QED
  BY <1>7, <1>8, <1>11, <1>12

LEMMA ChcrMaps ==
  ASSUME ControlOK, CpuTurn, NEW c \in Channel, NEW val \in Written, val \in Word,
         write_chcr(c, val)
  PROVE  D!Cpu
<1> DEFINE r == Decoded(channels[c], val)
           f == Fields[r]
           v == Control(val)
<1>1. channels[c] \in Register /\ r \in Register
  BY DecodedType DEF ControlOK
<1>2. ChannelFields[c] = Fields[channels[c]] /\ f = D!Decoded(ChannelFields[c], v)
  BY <1>1, DecodedMaps DEF ChannelFields
<1>3. (channel_active(r) /\ AnyEnabled) <=> D!Starts(f)
  BY <1>1, StartsIs
<1>4. (r.syncmode = LINKED_LIST /\ (~r.from_ram \/ c # GPU)) <=> D!Refused(c, f)
  BY <1>1, RefusedIs
<1>5. TransferFields.phase = "none" /\ v \in ChcrWrites
  BY TransferIs, FieldsOfTransfer DEF ControlOK, CpuTurn, ChcrWrites
<1>6. \/ D!Starts(f) /\ D!Refused(c, f) /\ Exit
      \/ /\ ~(D!Starts(f) /\ D!Refused(c, f))
         /\ channels' = [channels EXCEPT ![c] = r]
         /\ IF D!Starts(f) THEN do_dma(c, r) ELSE UNCHANGED transfer
         /\ UNCHANGED << kuseg, bseg, dpcr, dicr, running >>
  BY <1>3, <1>4 DEF write_chcr
<1> HIDE DEF r, f, v
<1>7. CASE D!Starts(f) /\ D!Refused(c, f) /\ Exit
  BY <1>7, ExitMaps
<1>8. CASE /\ ~(D!Starts(f) /\ D!Refused(c, f))
           /\ channels' = [channels EXCEPT ![c] = r]
           /\ IF D!Starts(f) THEN do_dma(c, r) ELSE UNCHANGED transfer
           /\ UNCHANGED << kuseg, bseg, dpcr, dicr, running >>
  <2>1. ChannelFields' = [ChannelFields EXCEPT ![c] = f]
    BY <1>1, <1>8, ChannelsMap DEF ControlOK, f
  <2>2. IF D!Starts(f) THEN D!do_dma(c, f) ELSE UNCHANGED TransferFields
    BY <1>1, <1>8, StartMaps, SameFields DEF f
  <2>3. D!write_chcr(c, v)
    BY <1>2, <1>8, <2>1, <2>2, SameFields DEF D!write_chcr
  <2> QED
    BY <1>5, <2>3 DEF D!Cpu, CpuTurn
<1> QED
  BY <1>6, <1>7, <1>8

LEMMA ControllerWriteMaps ==
  ASSUME ControlOK, CpuTurn, NEW addr, ChannelAt(addr) \in Channel,
         NEW val \in Written, val \in Word, controller_write(addr, val)
  PROVE  D!Cpu
<1> DEFINE c == ChannelAt(addr)
<1>1. TransferFields.phase = "none"
  BY TransferIs, FieldsOfTransfer DEF ControlOK, CpuTurn
<1>2. channels[c] \in Register /\ ChannelFields[c] = Fields[channels[c]]
  BY DEF ControlOK, ChannelFields
<1>3. CASE write_register(c, "base_address", val)
  <2> DEFINE r == [channels[c] EXCEPT !.base_address = val]
  <2>1. r \in Register /\ Fields[r] = [ChannelFields[c] EXCEPT !.base = Place(val)]
    BY <1>2, BaseMaps
  <2>2. channels' = [channels EXCEPT ![c] = r]
    BY <1>3 DEF write_register
  <2> HIDE DEF r
  <2>3. ChannelFields' = [ChannelFields EXCEPT ![c] = Fields[r]]
    BY <2>1, <2>2, ChannelsMap DEF ControlOK
  <2>4. D!write_madr(c, Place(val))
    BY <1>3, <2>1, <2>3, SameFields DEF write_register, D!write_madr
  <2>5. Place(val) \in BaseWrites
    BY DEF BaseWrites
  <2> QED
    BY <1>1, <2>4, <2>5 DEF D!Cpu, CpuTurn
<1>4. CASE write_register(c, "block_control", val)
  <2> DEFINE r == [channels[c] EXCEPT !.block_control = val]
             p == Number[LowHalf(val)]
             q == Number[HighHalf(val)]
  <2>1. r \in Register /\ Fields[r] = [ChannelFields[c] EXCEPT !.size = p, !.amount = q]
    BY <1>2, CountMaps
  <2>2. channels' = [channels EXCEPT ![c] = r]
    BY <1>4 DEF write_register
  <2>3. p \in CountWrites /\ q \in CountWrites
    BY DEF CountWrites
  <2> HIDE DEF r, p, q
  <2>4. ChannelFields' = [ChannelFields EXCEPT ![c] = Fields[r]]
    BY <2>1, <2>2, ChannelsMap DEF ControlOK
  <2>5. D!write_bcr(c, p, q)
    BY <1>4, <2>1, <2>4, SameFields DEF write_register, D!write_bcr
  <2> QED
    BY <1>1, <2>3, <2>5 DEF D!Cpu, CpuTurn
<1>5. CASE write_chcr(c, val)
  BY <1>5, ChcrMaps
<1>6. CASE Exit
  BY <1>6, ExitMaps
<1> QED
  BY <1>3, <1>4, <1>5, <1>6 DEF controller_write

LEMMA ControllerWriteFlags ==
  ASSUME FlagsOK, NEW addr, NEW val, controller_write(addr, val)
  PROVE  FlagsOK'
<1>1. dicr' = dicr
  BY DEF controller_write, write_register, write_chcr, Exit, dma_vars
<1> QED
  BY <1>1 DEF FlagsOK, FlagsIn

-----------------------------------------------------------------------------
(* An access of the processor, through the bus.                            *)
Mapped == (D!Cpu \/ UNCHANGED D!vars) /\ FlagsOK'

LEMMA SameFlags == ASSUME FlagsOK, dicr' = dicr PROVE FlagsOK'
  BY DEF FlagsOK, FlagsIn

LEMMA IgnoreMapped == ASSUME FlagsOK, UNCHANGED vars PROVE Mapped
  BY IgnoreMaps, SameFlags DEF vars, dma_vars, Mapped

LEMMA ExitMapped == ASSUME ControlOK, FlagsOK, CpuTurn, Exit PROVE Mapped
  BY ExitMaps, SameFlags DEF Exit, dma_vars, Mapped

LEMMA CregMapped ==
  ASSUME ControlOK, FlagsOK, CpuTurn, NEW i, NEW n, write_creg(i, n)
  PROVE  Mapped
  BY IgnoreMapped, ExitMapped DEF write_creg, Ignore

LEMMA StoreMapped ==
  ASSUME ControlOK, FlagsOK, CpuTurn, kuseg \in [Ram -> Byte],
         NEW addr \in Addresses, NEW n \in {1, 2, 4}, NEW val, Store(addr, n, val)
  PROVE  Mapped
<1>1. dicr' = dicr
  BY DEF Store, Exit, dma_vars
<1> QED
  BY <1>1, StoreMaps, SameFlags DEF Mapped

LEMMA ControllerWriteMapped ==
  ASSUME ControlOK, FlagsOK, CpuTurn, NEW addr \in Addresses, At(addr, DmaRegisters),
         NEW val \in Written, val \in Word, controller_write(addr, val)
  PROVE  Mapped
  BY ChannelType, ControllerWriteMaps, ControllerWriteFlags DEF Mapped

LEMMA WriteMapped ==
  ASSUME ControlOK, FlagsOK, CpuTurn, kuseg \in [Ram -> Byte],
         NEW addr \in Addresses, NEW n \in {1, 2, 4}, NEW val \in Data, Write(addr, n, val)
  PROVE  Mapped
<1>1. val \in Word /\ LowHalf(val) \in Word /\ val \in Written /\ LowHalf(val) \in Written
  <2>1. val \in Word
    BY BusAssumption
  <2> QED
    BY <2>1 DEF Word, LowHalf, Written
<1>2. CASE n = 1
  <2>1. write_byte(addr, val)
    BY <1>2 DEF Write
  <2> QED
    BY <2>1, IgnoreMapped, ExitMapped, StoreMapped DEF write_byte, Ignore
<1>3. CASE n = 2
  <2>1. write_hword(addr, val)
    BY <1>3 DEF Write
  <2> QED
    BY <1>1, <2>1, IgnoreMapped, CregMapped, ControllerWriteMapped, StoreMapped
       DEF write_hword, Ignore
<1>4. CASE n = 4
  <2>1. write_word(addr, val)
    BY <1>4 DEF Write
  <2>2. write_dpcr(val) => Mapped
    BY DpcrMaps, SameFlags DEF write_dpcr, Mapped
  <2>3. write_dicr(val) => Mapped
    BY DicrWriteMaps DEF Mapped
  <2> QED
    BY <1>1, <2>1, <2>2, <2>3, IgnoreMapped, CregMapped, ControllerWriteMapped, StoreMapped
       DEF write_word, Ignore
<1> QED
  BY <1>2, <1>3, <1>4

LEMMA ReadMapped ==
  ASSUME ControlOK, FlagsOK, CpuTurn, NEW addr, NEW n, NEW w, Read(addr, n, w)
  PROVE  Mapped
  BY IgnoreMapped, ExitMapped DEF Read

LEMMA AccessMapped == ASSUME BusInv, FlagsOK, Access PROVE Mapped
<1>1. ControlOK /\ CpuTurn /\ kuseg \in [Ram -> Byte]
  BY DEF BusInv, Access, Ready, CpuTurn, MemoryTypeOK
<1>2. PICK addr \in Addresses, n \in {1, 2, 4} :
        \/ \E w \in Outcomes(addr, n) : Read(addr, n, w)
        \/ \E val \in Data : Write(addr, n, val)
  BY DEF Access
<1> QED
  BY <1>1, <1>2, ReadMapped, WriteMapped

-----------------------------------------------------------------------------
(* Transfers.                                                              *)
LEMMA FinishMaps ==
  ASSUME ControlOK, FlagsOK, NEW c \in Channel, transfer_done(c)
  PROVE  D!transfer_done(c) /\ FlagsOK'
<1> DEFINE e == IF MaskBit(c) \in dicr THEN dicr \cup {FlagBit(c)} ELSE dicr
           r == [channels[c] EXCEPT !.channel_control = channels[c].channel_control \ {Enabled}]
           f == IF c \in DicrFields.mask THEN [DicrFields EXCEPT !.flags = @ \cup {c}]
                                         ELSE DicrFields
<1>1. /\ dicr' = update_irq_active(e) /\ channels' = [channels EXCEPT ![c] = r]
      /\ transfer' = NoTransfer /\ UNCHANGED << kuseg, bseg, dpcr, running >>
  BY DEF transfer_done, finish
<1>2. channels[c] \in Register /\ r \in Register
  <2>1. channels[c] \in Register
    BY DEF ControlOK
  <2> QED
    BY <2>1 DEF Register, Word
<1>3. ChannelFields' = [ChannelFields EXCEPT ![c] = D!Released(ChannelFields[c])]
  <2>1. ChannelFields[c] = Fields[channels[c]] /\ Fields[r] = D!Released(Fields[channels[c]])
    BY <1>2, ReleasedMaps DEF ChannelFields
  <2> HIDE DEF r
  <2> QED
    BY <1>1, <1>2, <2>1, ChannelsMap DEF ControlOK
<1>4. TransferFields' = D!Idle
  BY <1>1, FieldsOfTransfer, IdleMaps
<1>5. FlagsIn(e)
  <2>1. \A k \in 0 .. ByteBits - 2 : 3 * ByteBits + k = FlagBit(c) => k = Slot(c)
    BY BitNumbers DEF FlagBit
  <2> QED
    BY <2>1 DEF FlagsOK, FlagsIn
<1>6. AsDicr(e) = f
  <2>1. (c \in DicrFields.mask) <=> MaskBit(c) \in dicr
    BY DEF DicrFields, Masked
  <2>2. CASE MaskBit(c) \notin dicr
    BY <2>1, <2>2 DEF AsDicr, DicrFields
  <2>3. CASE MaskBit(c) \in dicr
    <3> DEFINE d == dicr \cup {FlagBit(c)}
               g == [DicrFields EXCEPT !.flags = @ \cup {c}]
    <3>1. /\ FlagBit(c) # Forced /\ FlagBit(c) # Master /\ FlagBit(c) # Active
          /\ \A x \in Channel : FlagBit(c) # MaskBit(x) /\ (FlagBit(x) = FlagBit(c) => x = c)
      <4>1. Slot(c) \in 0 .. ByteBits - 2
        BY BitNumbers
      <4>2. ASSUME NEW x \in Channel
            PROVE  FlagBit(c) # MaskBit(x) /\ (FlagBit(x) = FlagBit(c) => Slot(x) = Slot(c))
        <5>1. Slot(x) \in 0 .. ByteBits - 2
          BY BitNumbers
        <5> QED
          BY <4>1, <5>1, BitNumbers DEF FlagBit, MaskBit
      <4> QED
        BY <4>1, <4>2, BitNumbers, ActiveApart DEF FlagBit, Forced, Master
    <3>2. Masked(d) = Masked(dicr) /\ Flagged(d) = Flagged(dicr) \cup {c}
      BY <3>1 DEF Masked, Flagged
    <3>3. (Forced \in d) = (Forced \in dicr) /\ (Master \in d) = (Master \in dicr)
      BY <3>1
    <3>4. (Active \in d) = (Active \in dicr)
      BY <3>1
    <3> HIDE DEF d
    <3>5. AsDicr(d) = [force |-> Forced \in dicr, master |-> Master \in dicr,
                       mask |-> Masked(dicr), flags |-> Flagged(dicr) \cup {c},
                       irq |-> Active \in dicr]
      BY <3>2, <3>3, <3>4 DEF AsDicr
    <3>6. DicrFields = [force |-> Forced \in dicr, master |-> Master \in dicr,
                        mask |-> Masked(dicr), flags |-> Flagged(dicr),
                        irq |-> Active \in dicr]
      BY DEF DicrFields
    <3>7. g = [force |-> Forced \in dicr, master |-> Master \in dicr,
               mask |-> Masked(dicr), flags |-> Flagged(dicr) \cup {c},
               irq |-> Active \in dicr]
      BY <3>6
    <3>8. e = d /\ f = g
      BY <2>1, <2>3 DEF d
    <3> HIDE DEF g, e, f
    <3> QED
      BY <3>5, <3>7, <3>8
  <2> QED
    BY <2>2, <2>3
<1> HIDE DEF e, f, r
<1>7. DicrFields' = D!update_irq_active(f) /\ FlagsOK'
  <2>1. DicrFields' = AsDicr(dicr')
    BY DEF DicrFields, AsDicr
  <2>2. FlagsIn(dicr')
    BY <1>1, <1>5, UpdateMaps
  <2> QED
    BY <1>1, <1>5, <1>6, <2>1, <2>2, UpdateMaps DEF FlagsOK, FlagsIn
<1> QED
  BY <1>1, <1>3, <1>4, <1>7, SameFields DEF D!transfer_done, f

LEMMA AddrIs ==
  ASSUME ControlOK
  PROVE  /\ transfer \in Transfer /\ transfer.addr \in Ram /\ transfer.channel \in Channel
         /\ Cell(transfer.addr) \in 0 .. Cells - 1
         /\ TransferFields.phase = transfer.phase /\ TransferFields.channel = transfer.channel
         /\ TransferFields.addr = Cell(transfer.addr)
         /\ TransferFields.words_left = transfer.words_left
         /\ TransferFields.entry = Entry[transfer.entry]
<1>1. transfer \in Transfer
  BY DEF ControlOK
<1>2. transfer.addr \in Ram /\ transfer.channel \in Channel
  BY <1>1 DEF Transfer
<1> QED
  BY <1>1, <1>2, CellType, TransferIs, FieldsOfTransfer

LEMMA BlockWordMaps ==
  ASSUME ControlOK, ControlOK', kuseg \in [Ram -> Byte], block_word
  PROVE  D!block_word
<1> DEFINE x == transfer.addr
           a == Cell(x)
           c == transfer.channel
           fr == channels[c].from_ram
           v == IF fr THEN Load(kuseg, WordAddress(x), 4) ELSE Value
           to == Move(IF fr THEN 4 ELSE -4)
<1>1. /\ transfer.phase = "block" /\ transfer.words_left # 0
      /\ kuseg' = Stored(kuseg, WordAddress(x), 4, v)
      /\ transfer' = [transfer EXCEPT !.addr = to, !.words_left = @ - 1]
      /\ UNCHANGED << bseg, dpcr, dicr, channels, running >>
  BY DEF block_word
<1>2. WordAddress(x) = 4 * a /\ a \in 0 .. Cells - 1
  BY AddrIs, AlignedCell
<1>3. ChannelFields[c].from_ram = fr
  <2>1. channels[c] \in Register /\ ChannelFields[c] = Fields[channels[c]]
    BY AddrIs DEF ControlOK, ChannelFields
  <2> QED
    BY <2>1, FieldsIs
<1>4. fr \in BOOLEAN
  BY AddrIs DEF ControlOK, Register
<1>5. v \in Word
  BY <1>2, LoadCell, ValueMaps, AddrIs
<1>6. Entries' = [Entries EXCEPT ![a] = Entry[v]]
  <2>1. kuseg' = Stored(kuseg, 4 * a, 4, v)
    BY <1>1, <1>2
  <2> HIDE DEF v, a
  <2> QED
    BY <1>2, <1>5, <2>1, StoreEntry
<1>7. Entries' = IF fr THEN Entries
                 ELSE [Entries EXCEPT ![a] = D!Value(c, a, transfer.words_left)]
  <2>1. CASE fr
    <3>1. Entries[a] = Entry[v]
      BY <1>2, <2>1, EntriesIs
    <3>2. Entries = [b \in 0 .. Cells - 1 |-> Entries[b]]
      BY EntriesIs
    <3> HIDE DEF v, a
    <3> QED
      BY <1>2, <1>6, <2>1, <3>1, <3>2
  <2>2. CASE ~fr
    <3>1. Entry[v] = D!Value(c, a, transfer.words_left)
      BY <2>2, ValueMaps, AddrIs
    <3> HIDE DEF v
    <3> QED
      BY <1>6, <2>2, <3>1
  <2> QED
    BY <2>1, <2>2
<1>8. Cell(to) = D!Wrap(IF fr THEN a + 1 ELSE a - 1) /\ to \in Ram
  <2>1. CASE fr
    BY <2>1, AddrIs, MoveCell, MoveType
  <2>2. CASE ~fr
    BY <2>2, AddrIs, MoveCell, MoveType
  <2> QED
    BY <2>1, <2>2
<1> HIDE DEF to, a, x, v
<1>9. TransferFields' = [TransferFields EXCEPT !.addr = Cell(to), !.words_left = @ - 1]
  BY <1>1, <1>8, AdvanceMaps DEF ControlOK
<1> HIDE DEF fr, c
<1>10. /\ TransferFields.phase = "block" /\ TransferFields.channel = c
       /\ TransferFields.addr = a /\ TransferFields.words_left = transfer.words_left
  BY <1>1, AddrIs DEF a, x, c
<1> QED
  BY <1>1, <1>3, <1>7, <1>8, <1>9, <1>10, SameFields DEF D!block_word

LEMMA ListEntryMaps ==
  ASSUME ControlOK, ControlOK', kuseg \in [Ram -> Byte], list_entry
  PROVE  D!list_entry
<1> DEFINE a == Cell(transfer.addr)
           e == Load(kuseg, transfer.addr, 4)
<1>1. transfer.addr = 4 * a /\ a \in 0 .. Cells - 1
  <2>1. transfer.addr % 4 = 0 /\ transfer.addr \in Ram
    BY AddrIs DEF list_entry, ControlOK
  <2>2. transfer.addr = 4 * Cell(transfer.addr)
    BY <2>1, CellsType DEF Ram, Cell
  <2> QED
    BY <2>2, AddrIs
<1>2. e \in Word /\ Entries[a] = Entry[e]
  <2>1. e = Load(kuseg, 4 * a, 4)
    BY <1>1
  <2> QED
    BY <1>1, <2>1, LoadCell, EntriesIs
<1>3. Entry[e].words = LaneNumber(e, 3)
  BY <1>2, EntryIs
<1> HIDE DEF e, a
<1>4. TransferFields' = [TransferFields EXCEPT !.phase = "packet", !.entry = Entry[e],
                                               !.words_left = LaneNumber(e, 3)]
  BY <1>2, EntryStepMaps DEF list_entry, e, ControlOK
<1>5. TransferFields.phase = "entry" /\ TransferFields.addr = a
  BY AddrIs DEF list_entry, a
<1> QED
  BY <1>2, <1>3, <1>4, <1>5, SameFields DEF list_entry, D!list_entry

LEMMA ListPacketMaps ==
  ASSUME ControlOK, ControlOK', list_packet
  PROVE  D!list_packet
<1>1. Move(4) \in Ram /\ Cell(Move(4)) = D!Wrap(Cell(transfer.addr) + 1)
  BY AddrIs, MoveCell, MoveType
<1>2. TransferFields' = [TransferFields EXCEPT !.addr = Cell(Move(4)), !.words_left = @ - 1]
  BY <1>1, AdvanceMaps DEF list_packet, ControlOK
<1> QED
  BY <1>1, <1>2, AddrIs, SameFields DEF list_packet, D!list_packet

LEMMA EntryFields ==
  ASSUME ControlOK
  PROVE  /\ TransferFields.entry.last <=> Last \in transfer.entry
         /\ TransferFields.entry.next = Place(transfer.entry)
<1>1. transfer.entry \in Word
  BY DEF ControlOK, Transfer
<1> QED
  BY <1>1, EntryIs, AddrIs

LEMMA ListFollowMaps ==
  ASSUME ControlOK, ControlOK', list_follow
  PROVE  D!list_follow
<1> DEFINE b == RamAddress(transfer.entry)
<1>1. b \in Ram /\ WordAddress(b) \in Ram /\ Cell(WordAddress(b)) = Cell(b)
  BY RamAddressType, WordAddressType, AlignedCell
<1>2. TransferFields' = [TransferFields EXCEPT !.phase = "entry", !.addr = Cell(WordAddress(b))]
  BY <1>1, FollowMaps DEF list_follow, ControlOK
<1>3. Cell(WordAddress(b)) = TransferFields.entry.next
  BY <1>1, EntryFields DEF Place
<1> QED
  BY <1>2, <1>3, AddrIs, EntryFields, SameFields DEF list_follow, D!list_follow

LEMMA TransferringMaps ==
  ASSUME BusInv, BusInv', FlagsOK, Transferring
  PROVE  D!Transferring /\ FlagsOK'
<1>1. ControlOK /\ ControlOK' /\ kuseg \in [Ram -> Byte]
  BY DEF BusInv, MemoryTypeOK, Transferring
<1>2. CASE block_word
  BY <1>1, <1>2, BlockWordMaps, SameFlags DEF block_word, Transferring, D!Transferring
<1>3. CASE block_done
  <2>1. D!transfer_done(transfer.channel) /\ FlagsOK'
    BY <1>1, <1>3, AddrIs, FinishMaps DEF block_done
  <2>2. D!block_done
    BY <1>1, <1>3, <2>1, AddrIs DEF block_done, D!block_done
  <2> QED
    BY <2>1, <2>2 DEF Transferring, D!Transferring
<1>4. CASE list_entry
  BY <1>1, <1>4, ListEntryMaps, SameFlags DEF list_entry, Transferring, D!Transferring
<1>5. CASE list_packet
  BY <1>1, <1>5, ListPacketMaps, SameFlags DEF list_packet, Transferring, D!Transferring
<1>6. CASE list_follow
  BY <1>1, <1>6, ListFollowMaps, SameFlags DEF list_follow, Transferring, D!Transferring
<1>7. CASE list_done
  <2>1. D!transfer_done(transfer.channel) /\ FlagsOK'
    BY <1>1, <1>7, AddrIs, FinishMaps DEF list_done
  <2>2. D!list_done
    BY <1>1, <1>7, <2>1, AddrIs, EntryFields DEF list_done, D!list_done
  <2> QED
    BY <2>1, <2>2 DEF Transferring, D!Transferring
<1> QED
  BY <1>2, <1>3, <1>4, <1>5, <1>6, <1>7 DEF Transferring

-----------------------------------------------------------------------------
(* The initial state, the boot, and every step.                            *)
LEMMA InitMaps == ASSUME Init PROVE D!Init /\ FlagsOK
<1>1. MemoryInit /\ ControllerInit
  BY DEF Init
<1>2. Entries = [a \in D!Cell |-> FreshEntry]
  BY <1>1 DEF MemoryInit, Entries, D!Cell
<1>3. EnabledBy(dpcr) = {}
  <2>1. ASSUME NEW c \in Channel PROVE EnableBit(c) \notin dpcr
    <3>1. SUFFICES ASSUME EnableBit(c) \in ResetDpcr PROVE FALSE
      BY <1>1 DEF ControllerInit
    <3>2. PICK d \in Channel, k \in 0 .. 2 : 4 * Slot(c) + 3 = 4 * Slot(d) + k
      BY <3>1 DEF ResetDpcr, Priority, EnableBit
    <3>3. Slot(c) \in Nat /\ Slot(d) \in Nat
      BY BitNumbers
    <3> QED
      BY <3>2, <3>3
  <2> QED
    BY <2>1 DEF EnabledBy
<1>4. dicr = {} /\ FlagsOK
  BY <1>1 DEF ControllerInit, FlagsOK, FlagsIn
<1>5. DicrFields = [force |-> FALSE, master |-> FALSE, mask |-> {}, flags |-> {}, irq |-> FALSE]
  <2>1. Masked({}) = {} /\ Flagged({}) = {}
    BY DEF Masked, Flagged
  <2>2. \A x : (x \in {}) = FALSE
    OBVIOUS
  <2> QED
    BY <1>4, <2>1, <2>2 DEF DicrFields
<1>6. ChannelFields = [c \in Channel |->
        [base |-> 0, size |-> 0, amount |-> 0,
         chcr |-> [from_ram |-> FALSE, mode |-> 0, enabled |-> FALSE, trigger |-> FALSE],
         from_ram |-> TRUE, syncmode |-> D!IMMEDIATE]]
  <2> DEFINE r == [base_address |-> {}, block_control |-> {}, channel_control |-> {},
                   from_ram |-> TRUE, syncmode |-> IMMEDIATE]
  <2>1. channels = [c \in Channel |-> r]
    BY <1>1 DEF ControllerInit
  <2>2. /\ r \in Register /\ r.base_address = {} /\ r.block_control = {}
        /\ r.channel_control = {} /\ r.from_ram = TRUE /\ r.syncmode = IMMEDIATE
    BY DEF Register, Word
  <2>3. Place({}) = 0 /\ Number[LowHalf({})] = 0 /\ Number[HighHalf({})] = 0
    <3>1. LowHalf({}) = {} /\ HighHalf({}) = {}
      BY DEF LowHalf, HighHalf
    <3> QED
      BY <3>1, NumberOfNothing DEF Place, Cell
  <2>4. Control({}) = [from_ram |-> FALSE, mode |-> 0, enabled |-> FALSE, trigger |-> FALSE]
    <3>1. \A x : (x \in {}) = FALSE
      OBVIOUS
    <3>2. Mode({}) = 0
      BY DEF Mode
    <3> QED
      BY <3>1, <3>2 DEF Control
  <2> HIDE DEF r
  <2>5. Fields[r] = [base |-> Place(r.base_address),
                     size |-> Number[LowHalf(r.block_control)],
                     amount |-> Number[HighHalf(r.block_control)],
                     chcr |-> Control(r.channel_control), from_ram |-> r.from_ram,
                     syncmode |-> r.syncmode]
    BY <2>2, FieldsIs
  <2>6. Fields[r] = [base |-> 0, size |-> 0, amount |-> 0, chcr |-> Control({}),
                     from_ram |-> TRUE, syncmode |-> D!IMMEDIATE]
    BY <2>2, <2>3, <2>5 DEF IMMEDIATE, D!IMMEDIATE
  <2> QED
    BY <2>1, <2>4, <2>6 DEF ChannelFields
<1>7. TransferFields = D!Idle
  BY <1>1, FieldsOfTransfer, IdleMaps DEF ControllerInit
<1> QED
  BY <1>1, <1>2, <1>3, <1>4, <1>5, <1>6, <1>7 DEF ControllerInit, D!Init

LEMMA BootMapped == ASSUME FlagsOK, Boot PROVE Mapped
<1>1. kuseg = Null /\ kuseg' = [a \in Ram |-> Fill] /\ kuseg' \in [Ram -> Byte]
  BY BootLoads
<1>2. Entries = [a \in 0 .. Cells - 1 |-> FreshEntry]
  BY <1>1 DEF Entries, Cells
<1>3. Entries' = [a \in 0 .. Cells - 1 |-> Entry[Load(kuseg', 4 * a, 4)]]
  <2>1. kuseg' # Null
    BY <1>1, MemoryAssumption
  <2> QED
    BY <2>1 DEF Entries, Cells
<1>4. \A a \in 0 .. Cells - 1 : Entry[Load(kuseg', 4 * a, 4)] = FreshEntry
  <2> SUFFICES ASSUME NEW a \in 0 .. Cells - 1
               PROVE  Entry[Load(kuseg', 4 * a, 4)] = FreshEntry
    OBVIOUS
  <2>1. \A j \in 0 .. 3 : kuseg'[Index(4 * a, j)] = Fill
    BY <1>1, LoadCell
  <2>2. Load(kuseg', 4 * a, 4) = UNION { InLane(Fill, j) : j \in 0 .. 3 }
    BY <2>1 DEF Load
  <2> QED
    BY <2>2 DEF FreshEntry
<1>5. UNCHANGED << dpcr, dicr, channels, transfer, running >>
  BY BootLoads
<1> QED
  BY <1>2, <1>3, <1>4, <1>5, SameFields, SameFlags DEF D!vars, Mapped

LEMMA NextMapped ==
  ASSUME BusInv, BusInv', FlagsOK, [Next]_vars
  PROVE  (D!Next \/ UNCHANGED D!vars) /\ FlagsOK'
<1>1. CASE Boot
  BY <1>1, BootMapped DEF Mapped, D!Next
<1>2. CASE Access
  BY <1>2, AccessMapped DEF Mapped, D!Next
<1>3. CASE Transferring
  BY <1>3, TransferringMaps DEF D!Next
<1>4. CASE UNCHANGED vars
  BY <1>4, IgnoreMapped DEF Mapped, D!Next
<1> QED
  BY <1>1, <1>2, <1>3, <1>4 DEF Next, Ended

(* Every address, width and mask by which the program reaches the          *)
(* controller's registers and RAM, and every address a transfer computes,  *)
(* does what Dma's actions do to fields and list entries.                  *)
THEOREM Refinement == Spec => DmaSafety
<1>1. Init => D!Init /\ FlagsOK
  BY InitMaps
<1>2. BusInv /\ BusInv' /\ FlagsOK /\ [Next]_vars
        => (UNCHANGED D!vars \/ D!Next) /\ FlagsOK'
  BY NextMapped
<1> QED
  BY <1>1, <1>2, Invariant, PTL DEF Spec, DmaSafety

-----------------------------------------------------------------------------
(* What is proved of Dma holds of the words of the program.                *)
LEMMA Assumptions == D!DmaAssumption
<1>1. Cells \in Nat /\ Cells > 0
  BY CellsType
<1>2. 2 ^ ByteBits - 1 \in Nat /\ 2 ^ (2 * ByteBits) - 1 \in Nat
  BY Widths
<1>3. Channel \subseteq 0 .. 6 /\ {D!GPU, D!OTC} \subseteq Channel
  BY ControllerAssumption DEF GPU, OTC, D!GPU, D!OTC
<1>4. \A val \in Written : val \in Word
  BY BusAssumption DEF Written, Word, LowHalf
<1>5. EnableWrites \subseteq SUBSET Channel
  BY DEF EnableWrites, EnabledBy
<1>6. DicrWrites \subseteq D!DicrWrite
  <2>1. \A w : Settings(w) \in D!DicrWrite
    BY DEF Settings, D!DicrWrite, Masked, Flagged
  <2> QED
    BY <2>1 DEF DicrWrites
<1>7. CountWrites \subseteq D!Count
  <2>1. ASSUME NEW w \in Written
        PROVE  Number[LowHalf(w)] \in D!Count /\ Number[HighHalf(w)] \in D!Count
    BY <1>4, HalfNumber DEF D!Count
  <2> QED
    BY <2>1 DEF CountWrites
<1>8. ChcrWrites \subseteq D!Chcr
  <2>1. \A w : Control(w) \in D!Chcr
    BY DEF Control, D!Chcr, Mode
  <2> QED
    BY <2>1 DEF ChcrWrites
<1>9. BaseWrites \subseteq D!Cell
  BY PlaceType DEF BaseWrites, D!Cell, Cells
<1> QED
  BY <1>1, <1>2, <1>3, <1>5, <1>6, <1>7, <1>8, <1>9, FreshType
     DEF D!DmaAssumption, Cells

(* The bus keeps the contract of the DMA controller: a channel starts only *)
(* from a write to its own register, fills exactly the words asked for,    *)
(* completes on a list only at its end, and raises what the mask selects.  *)
THEOREM ContractKept == Spec => D!ContractSafety
<1>1. Init => D!Init /\ FlagsOK
  BY InitMaps
<1>2. BusInv /\ BusInv' /\ FlagsOK /\ [Next]_vars => [D!Next]_(D!vars) /\ FlagsOK'
  BY NextMapped
<1>3. D!Init => D!IInv /\ D!Contract!Init
  BY Assumptions, D!InitInvariant, D!InitMaps
<1>4. D!IInv /\ [D!Next]_(D!vars) => D!IInv' /\ [D!Contract!Next]_(D!Contract!vars)
  BY Assumptions, D!NextInvariant, D!NextMaps
<1> QED
  BY <1>1, <1>2, <1>3, <1>4, Invariant, PTL
     DEF Spec, D!ContractSafety, D!Contract!Safety

(* The words a list copy sends on the bus are of entries that the links in *)
(* RAM lead to from MADR, read as byte addresses under their mask.         *)
THEOREM ListKept == Spec => []D!OnTheList
<1>1. Init => D!Init /\ FlagsOK
  BY InitMaps
<1>2. BusInv /\ BusInv' /\ FlagsOK /\ [Next]_vars => [D!Next]_(D!vars) /\ FlagsOK'
  BY NextMapped
<1>3. D!Init => D!IInv
  BY Assumptions, D!InitInvariant
<1>4. D!IInv /\ [D!Next]_(D!vars) => D!IInv'
  BY Assumptions, D!NextInvariant
<1>5. D!IInv => D!OnTheList
  BY DEF D!IInv
<1> QED
  BY <1>1, <1>2, <1>3, <1>4, <1>5, Invariant, PTL DEF Spec

(* A table that the OTC channel has written into the bytes of RAM ends.    *)
THEOREM TableKept == Spec => D!TableEnds
<1>1. Init => D!Init /\ FlagsOK
  BY InitMaps
<1>2. BusInv /\ BusInv' /\ FlagsOK /\ [Next]_vars => [D!Next]_(D!vars) /\ FlagsOK'
  BY NextMapped
<1>3. D!Init => D!IInv /\ D!TableInv
  BY Assumptions, D!InitInvariant DEF D!Init, D!Idle, D!TableInv
<1>4. D!IInv /\ D!TableInv /\ [D!Next]_(D!vars) => D!IInv' /\ D!TableInv'
  BY Assumptions, D!NextInvariant, D!TableStep
<1>5. D!TableInv =>
        (running /\ TransferFields.phase = "block" /\ TransferFields'.phase = "none"
           /\ TransferFields.channel = D!OTC /\ ~ChannelFields[D!OTC].from_ram
           /\ D!Words(ChannelFields[D!OTC]) > 0
         => D!Contract!Ends(ChannelFields[D!OTC].base))
  BY DEF D!TableInv
<1> QED
  BY <1>1, <1>2, <1>3, <1>4, <1>5, Invariant, PTL DEF Spec, D!TableEnds
=============================================================================
