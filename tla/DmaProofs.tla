----------------------------- MODULE DmaProofs ------------------------------
(***************************************************************************)
(* What is proved of the DMA controller for every size of RAM, every set   *)
(* of channels and every register write: type correctness, that bit 31 of  *)
(* DICR is always current, that a list copy stays on its list, and that    *)
(* the controller keeps the safety part of DmaContract.                    *)
(*                                                                         *)
(* The inductive invariant is the conjunction of the module's four         *)
(* invariants.                                                             *)
(***************************************************************************)
EXTENDS Dma, WellFoundedInduction, TLAPS

IInv == TypeOK /\ IrqIsCurrent /\ TransferAgrees /\ OnTheList

-----------------------------------------------------------------------------
(* Types of the operators.                                                 *)

LEMMA WrapType == ASSUME NEW n \in Int PROVE Wrap(n) \in Cell
  BY DmaAssumption DEF Wrap, Cell

LEMMA ValueType ==
  ASSUME NEW c, NEW a \in Cell, NEW left
  PROVE  Value(c, a, left) \in Entry
<1>1. Wrap(a - 1) \in Cell /\ Cells - 1 \in Cell /\ 0 \in Cell /\ 0 \in 0 .. MaxPacket
  BY WrapType, DmaAssumption DEF Cell
<1> QED
  BY <1>1 DEF Value, Zero, Marker, Link, Entry

LEMMA IdleType == Idle \in Transfer
<1>1. 0 \in Cell /\ 0 \in 0 .. MaxPacket /\ GPU \in Channel
  BY DmaAssumption DEF Cell
<1> QED
  BY <1>1 DEF Idle, Zero, Transfer, Entry

LEMMA LineType == ASSUME NEW d \in Dicr PROVE Line(d) \in BOOLEAN
  BY DEF Line, Dicr

LEMMA UpdateType ==
  ASSUME NEW d \in Dicr
  PROVE  /\ update_irq_active(d) \in Dicr
         /\ update_irq_active(d).irq = Line(update_irq_active(d))
         /\ update_irq_active(d).force = d.force
         /\ update_irq_active(d).master = d.master
         /\ update_irq_active(d).mask = d.mask
         /\ update_irq_active(d).flags = d.flags
<1>1. Line(d) \in BOOLEAN
  BY LineType
<1> QED
  BY <1>1 DEF update_irq_active, Dicr, Line

LEMMA DecodedType ==
  ASSUME NEW r \in Registers, NEW val \in Chcr
  PROVE  /\ Decoded(r, val) \in Registers
         /\ Decoded(r, val).chcr = val /\ Decoded(r, val).from_ram = val.from_ram
         /\ Decoded(r, val).base = r.base
         /\ Decoded(r, val).size = r.size /\ Decoded(r, val).amount = r.amount
<1>1. val.mode < 3 => val.mode \in {IMMEDIATE, REQUEST, LINKED_LIST}
  BY DEF Chcr, IMMEDIATE, REQUEST, LINKED_LIST
<1>2. val.from_ram \in BOOLEAN
  BY DEF Chcr
<1> QED
  BY <1>1, <1>2 DEF Decoded, Registers

LEMMA ReleasedType ==
  ASSUME NEW r \in Registers
  PROVE  Released(r) \in Registers
<1>1. r.chcr \in Chcr
  BY DEF Registers
<1>2. [r.chcr EXCEPT !.enabled = FALSE] \in Chcr
  BY <1>1 DEF Chcr
<1> QED
  BY <1>2 DEF Released, Registers

LEMMA WordsType == ASSUME NEW r \in Registers PROVE Words(r) \in Nat
<1>1. r.size \in Nat /\ r.amount \in Nat
  BY DmaAssumption DEF Registers, Count
<1>2. r.size * r.amount \in Nat
  BY <1>1
<1> QED
  BY <1>1, <1>2 DEF Words

-----------------------------------------------------------------------------
(* The invariant, action by action.                                        *)

LEMMA InitInvariant == Init => IInv
<1> SUFFICES ASSUME Init PROVE IInv
  OBVIOUS
<1>1. ram \in [Cell -> Entry] /\ transfer \in Transfer
  BY DmaAssumption, IdleType DEF Init
<1>2. dicr \in Dicr
  BY DEF Init, Dicr
<1>3. channels \in [Channel -> Registers]
  <2>1. 0 \in Cell /\ 0 \in Count
    BY DmaAssumption DEF Cell, Count
  <2> QED
    BY <2>1 DEF Init, Registers, Chcr
<1> QED
  BY <1>1, <1>2, <1>3
     DEF Init, IInv, TypeOK, IrqIsCurrent, Line, TransferAgrees, OnTheList, Idle

LEMMA SettingsStep ==
  ASSUME IInv, transfer.phase = "none",
         \/ \E enabled \in EnableWrites : write_dpcr(enabled)
         \/ \E val \in DicrWrites : write_dicr(val)
  PROVE  IInv'
<1>1. CASE \E enabled \in EnableWrites : write_dpcr(enabled)
  BY <1>1, DmaAssumption
     DEF write_dpcr, IInv, TypeOK, IrqIsCurrent, TransferAgrees, OnTheList
<1>2. ASSUME NEW val \in DicrWrites, write_dicr(val) PROVE IInv'
  <2> DEFINE d == [dicr EXCEPT !.force = val.force, !.master = val.master, !.mask = val.mask,
                               !.flags = @ \ val.ack]
  <2>1. val \in DicrWrite /\ dicr \in Dicr
    BY DmaAssumption DEF IInv, TypeOK
  <2>2. d \in Dicr
    BY <2>1 DEF DicrWrite, Dicr
  <2>3. dicr' = update_irq_active(d)
    BY <1>2 DEF write_dicr
  <2>4. dicr' \in Dicr /\ dicr'.irq = Line(dicr')
    BY <2>2, <2>3, UpdateType
  <2> QED
    BY <1>2, <2>4 DEF write_dicr, IInv, TypeOK, IrqIsCurrent, TransferAgrees, OnTheList
<1> QED
  BY <1>1, <1>2

LEMMA AddressStep ==
  ASSUME IInv, transfer.phase = "none", NEW c \in Channel,
         \/ \E base \in BaseWrites : write_madr(c, base)
         \/ \E size, amount \in CountWrites : write_bcr(c, size, amount)
  PROVE  IInv'
<1>1. channels[c] \in Registers /\ BaseWrites \subseteq Cell /\ CountWrites \subseteq Count
  BY DmaAssumption DEF IInv, TypeOK
<1>2. channels' \in [Channel -> Registers]
  <2>1. CASE \E base \in BaseWrites : write_madr(c, base)
    BY <1>1, <2>1 DEF write_madr, IInv, TypeOK, Registers
  <2>2. CASE \E size, amount \in CountWrites : write_bcr(c, size, amount)
    <3>1. PICK size, amount \in CountWrites : write_bcr(c, size, amount)
      BY <2>2
    <3>2. [channels[c] EXCEPT !.size = size, !.amount = amount] \in Registers
      BY <1>1, <3>1 DEF Registers
    <3> QED
      BY <3>1, <3>2 DEF write_bcr, IInv, TypeOK
  <2> QED
    BY <2>1, <2>2
<1>3. UNCHANGED << ram, dpcr, dicr, transfer, running >>
  BY DEF write_madr, write_bcr
<1> QED
  BY <1>2, <1>3 DEF IInv, TypeOK, IrqIsCurrent, TransferAgrees, OnTheList, Line

LEMMA ControlStep ==
  ASSUME IInv, transfer.phase = "none", NEW c \in Channel, NEW val \in ChcrWrites,
         write_chcr(c, val)
  PROVE  IInv'
<1> DEFINE r == Decoded(channels[c], val)
<1>1. r \in Registers /\ r.chcr = val /\ r.from_ram = val.from_ram
  BY DecodedType, DmaAssumption DEF IInv, TypeOK
<1>2. channels' = [channels EXCEPT ![c] = r] /\ UNCHANGED << ram, dpcr, dicr, running >>
  BY DEF write_chcr
<1>3. channels' \in [Channel -> Registers] /\ channels'[c] = r
  BY <1>1, <1>2 DEF IInv, TypeOK
<1>4. CASE Starts(r)
  <2>1. do_dma(c, r) /\ ~Refused(c, r)
    BY <1>4 DEF write_chcr
  <2>2. /\ r.base \in Cell /\ Words(r) \in Nat
        /\ r.syncmode \in {IMMEDIATE, REQUEST, LINKED_LIST}
        /\ r.chcr.enabled
    BY <1>1, <1>4, WordsType DEF Registers, Starts, channel_active
  <2>3. /\ transfer' \in Transfer
        /\ transfer'.phase = (IF r.syncmode = LINKED_LIST THEN "entry" ELSE "block")
        /\ transfer'.channel = c /\ transfer'.addr = r.base
    BY <2>1, <2>2, IdleType DEF do_dma, Transfer, Idle
  <2>4. TransferAgrees'
    BY <1>3, <2>1, <2>2, <2>3 DEF TransferAgrees, Refused
  <2>5. OnTheList'
    BY <1>3, <2>3 DEF OnTheList
  <2> QED
    BY <1>2, <1>3, <2>3, <2>4, <2>5 DEF IInv, TypeOK, IrqIsCurrent, Line
<1>5. CASE ~Starts(r)
  <2>1. UNCHANGED transfer
    BY <1>5 DEF write_chcr
  <2> QED
    BY <1>2, <1>3, <2>1 DEF IInv, TypeOK, IrqIsCurrent, TransferAgrees, OnTheList, Line
<1> QED
  BY <1>4, <1>5

LEMMA ExitStep == ASSUME IInv, Exit PROVE IInv'
  BY DEF Exit, IInv, TypeOK, IrqIsCurrent, TransferAgrees, OnTheList, Line, Linked

LEMMA StoreStep ==
  ASSUME IInv, transfer.phase = "none", NEW a \in Cell, cpu_store(a)
  PROVE  IInv'
  BY DEF cpu_store, IInv, TypeOK, IrqIsCurrent, TransferAgrees, OnTheList, Line

LEMMA DoneStep ==
  ASSUME IInv, transfer_done(transfer.channel)
  PROVE  IInv'
<1> DEFINE c == transfer.channel
           d == IF c \in dicr.mask THEN [dicr EXCEPT !.flags = @ \cup {c}] ELSE dicr
<1>1. c \in Channel
  BY DEF IInv, TypeOK, Transfer
<1>2. d \in Dicr
  BY <1>1 DEF IInv, TypeOK, Dicr
<1>3. dicr' = update_irq_active(d)
  BY DEF transfer_done
<1>4. dicr' \in Dicr /\ dicr'.irq = Line(dicr')
  BY <1>2, <1>3, UpdateType
<1>5. channels' \in [Channel -> Registers]
  <2>1. channels[c] \in Registers
    BY <1>1 DEF IInv, TypeOK
  <2> QED
    BY <2>1, ReleasedType DEF transfer_done, IInv, TypeOK
<1>6. transfer' \in Transfer /\ transfer'.phase = "none"
  BY IdleType DEF transfer_done, Idle
<1> QED
  BY <1>4, <1>5, <1>6
     DEF transfer_done, IInv, TypeOK, IrqIsCurrent, TransferAgrees, OnTheList

LEMMA BlockStep == ASSUME IInv, block_word PROVE IInv'
<1> DEFINE c == transfer.channel  a == transfer.addr  left == transfer.words_left
<1>1. a \in Cell /\ left \in Nat /\ left # 0 /\ transfer.phase = "block"
  BY DEF block_word, IInv, TypeOK, Transfer
<1>2. ram' \in [Cell -> Entry]
  <2>1. Value(c, a, left) \in Entry
    BY <1>1, ValueType
  <2> QED
    BY <2>1 DEF block_word, IInv, TypeOK
<1>3. /\ transfer' \in Transfer
      /\ transfer'.phase = "block" /\ transfer'.channel = c
  <2>1. Wrap(a + 1) \in Cell /\ Wrap(a - 1) \in Cell
    BY <1>1, WrapType DEF Cell
  <2>2. left - 1 \in Nat
    BY <1>1
  <2> QED
    BY <1>1, <2>1, <2>2 DEF block_word, IInv, TypeOK, Transfer
<1>4. UNCHANGED << dpcr, dicr, channels, running >>
  BY DEF block_word
<1> QED
  BY <1>1, <1>2, <1>3, <1>4 DEF IInv, TypeOK, IrqIsCurrent, TransferAgrees, OnTheList, Line

LEMMA LinkedKept ==
  ASSUME UNCHANGED << ram, channels >>, transfer'.channel = transfer.channel,
         transfer.phase \in {"entry", "packet"}, OnTheList,
         \A S \in SUBSET Cell :
           channels[transfer.channel].base \in S /\ Linked(S)
             /\ (IF transfer.phase = "entry" THEN transfer.addr \in S
                                             ELSE \E a \in S : ram[a] = transfer.entry)
             => IF transfer'.phase = "entry" THEN transfer'.addr \in S
                                             ELSE \E a \in S : ram[a] = transfer'.entry
  PROVE  OnTheList'
  BY DEF OnTheList, Linked

LEMMA ListStep ==
  ASSUME IInv, list_entry \/ list_packet \/ list_follow
  PROVE  IInv'
<1>1. UNCHANGED << ram, dpcr, dicr, channels, running >>
  BY DEF list_entry, list_packet, list_follow
<1>2. /\ transfer \in Transfer /\ ram \in [Cell -> Entry]
      /\ transfer.addr \in Cell /\ transfer.words_left \in Nat
      /\ transfer.phase \in {"entry", "packet"}
  BY DEF IInv, TypeOK, Transfer, list_entry, list_packet, list_follow
<1>3. /\ transfer' \in Transfer
      /\ transfer'.phase \in {"entry", "packet"}
      /\ transfer'.channel = transfer.channel
  <2>1. CASE list_entry
    <3>1. ram[transfer.addr] \in Entry /\ ram[transfer.addr].words \in Nat
      BY <1>2, DmaAssumption DEF Entry
    <3> QED
      BY <1>2, <2>1, <3>1 DEF list_entry, Transfer
  <2>2. CASE list_packet
    <3>1. transfer.addr + 1 \in Int
      BY <1>2 DEF Cell
    <3>2. Wrap(transfer.addr + 1) \in Cell
      BY <3>1, WrapType
    <3>3. transfer.words_left - 1 \in Nat
      BY <1>2, <2>2 DEF list_packet
    <3> QED
      BY <1>2, <2>2, <3>2, <3>3 DEF list_packet, Transfer
  <2>3. CASE list_follow
    <3>1. transfer.entry.next \in Cell
      BY <1>2 DEF Transfer, Entry
    <3> QED
      BY <1>2, <2>3, <3>1 DEF list_follow, Transfer
  <2> QED
    BY <2>1, <2>2, <2>3
<1>4. TransferAgrees'
  BY <1>1, <1>2, <1>3 DEF IInv, TransferAgrees
<1>5. OnTheList'
  <2>1. ASSUME NEW S \in SUBSET Cell, Linked(S),
               IF transfer.phase = "entry" THEN transfer.addr \in S
                                           ELSE \E a \in S : ram[a] = transfer.entry
        PROVE  IF transfer'.phase = "entry" THEN transfer'.addr \in S
                                            ELSE \E a \in S : ram[a] = transfer'.entry
    <3>1. CASE list_entry
      BY <1>2, <2>1, <3>1 DEF list_entry, Transfer
    <3>2. CASE list_packet
      BY <1>2, <2>1, <3>2 DEF list_packet, Transfer
    <3>3. CASE list_follow
      <4>1. PICK a \in S : ram[a] = transfer.entry
        BY <2>1, <3>3 DEF list_follow
      <4>2. transfer.entry.next \in S
        BY <2>1, <3>3, <4>1 DEF list_follow, Linked
      <4> QED
        BY <1>2, <3>3, <4>2 DEF list_follow, Transfer
    <3> QED
      BY <3>1, <3>2, <3>3
  <2> QED
    BY <1>1, <1>2, <1>3, <2>1, LinkedKept DEF IInv
<1> QED
  BY <1>1, <1>3, <1>4, <1>5 DEF IInv, TypeOK, IrqIsCurrent, Line

LEMMA NextInvariant == IInv /\ [Next]_vars => IInv'
<1> SUFFICES ASSUME IInv, [Next]_vars PROVE IInv'
  OBVIOUS
<1>1. CASE Cpu
  BY <1>1, SettingsStep, AddressStep, ControlStep, ExitStep, StoreStep
     DEF Cpu, write_chcr_refused, invalid_offset
<1>2. CASE Transferring
  BY <1>2, BlockStep, ListStep, DoneStep DEF Transferring, block_done, list_done
<1>3. CASE UNCHANGED vars
  BY <1>3 DEF vars, IInv, TypeOK, IrqIsCurrent, TransferAgrees, OnTheList, Line, Linked
<1> QED
  BY <1>1, <1>2, <1>3 DEF Next, Ended

LEMMA Invariance == Spec => []IInv
  BY InitInvariant, NextInvariant, PTL DEF Spec

(* Every register, word of RAM and local of a transfer stays in its type,  *)
(* whatever the program writes.                                            *)
THEOREM TypeCorrect == Spec => []TypeOK
<1>1. IInv => TypeOK
  BY DEF IInv
<1> QED
  BY <1>1, Invariance, PTL

(* Bit 31 of DICR is current after every register write and transfer.      *)
THEOREM IrqCorrect == Spec => []IrqIsCurrent
<1>1. IInv => IrqIsCurrent
  BY DEF IInv
<1> QED
  BY <1>1, Invariance, PTL

(* The registers agree with the transfer being run.                        *)
THEOREM TransferCorrect == Spec => []TransferAgrees
<1>1. IInv => TransferAgrees
  BY DEF IInv
<1> QED
  BY <1>1, Invariance, PTL

(* dma_list_copy sends the entries of the list at MADR and no others.      *)
THEOREM ListCorrect == Spec => []OnTheList
<1>1. IInv => OnTheList
  BY DEF IInv
<1> QED
  BY <1>1, Invariance, PTL

-----------------------------------------------------------------------------
(* Going round RAM.                                                        *)

LEMMA Multiple ==
  ASSUME NEW k \in Int
  PROVE  /\ k >= 1 => Cells * k >= Cells
         /\ k <= -1 => Cells * k <= -Cells
  BY DmaAssumption

LEMMA Division ==
  ASSUME NEW n \in Int
  PROVE  /\ n \div Cells \in Int /\ n % Cells \in 0 .. Cells - 1
         /\ n = Cells * (n \div Cells) + (n % Cells)
  BY DmaAssumption

(* Remainders are unique.                                                  *)
LEMMA Unique ==
  ASSUME NEW q \in Int, NEW p \in Int, NEW r \in 0 .. Cells - 1, NEW s \in 0 .. Cells - 1,
         Cells * q + r = Cells * p + s
  PROVE  r = s
<1>1. Cells * (q - p) = s - r /\ q - p \in Int
  BY DmaAssumption
<1>2. CASE q - p >= 1
  BY <1>1, <1>2, Multiple, DmaAssumption
<1>3. CASE q - p <= -1
  BY <1>1, <1>3, Multiple, DmaAssumption
<1>4. CASE q - p = 0
  BY <1>1, <1>4, DmaAssumption
<1> QED
  BY <1>1, <1>2, <1>3, <1>4

LEMMA WrapCell == ASSUME NEW n \in Cell PROVE Wrap(n) = n
<1>1. n = Cells * 0 + n /\ n \in 0 .. Cells - 1
  BY DmaAssumption DEF Cell
<1>2. Cells * 0 + n = Cells * (n \div Cells) + (n % Cells)
  BY <1>1, Division
<1> QED
  BY <1>1, <1>2, Division, Unique DEF Wrap

LEMMA WrapRound == ASSUME NEW n \in Int PROVE Wrap(n + Cells) = Wrap(n)
<1>1. n + Cells \in Int
  BY DmaAssumption
<1>2. n + Cells = Cells * (n \div Cells + 1) + (n % Cells)
  BY Division, DmaAssumption
<1>3. Cells * (n \div Cells + 1) + (n % Cells)
        = Cells * ((n + Cells) \div Cells) + ((n + Cells) % Cells)
  BY <1>1, <1>2, Division
<1> QED
  BY <1>1, <1>3, Division, Unique DEF Wrap

LEMMA Distance ==
  ASSUME NEW addr \in Cell, NEW a \in Cell
  PROVE  Wrap(addr - a) = IF a <= addr THEN addr - a ELSE addr - a + Cells
<1>1. CASE a <= addr
  <2>1. addr - a \in Cell
    BY <1>1, DmaAssumption DEF Cell
  <2> QED
    BY <1>1, <2>1, WrapCell
<1>2. CASE ~(a <= addr)
  <2>1. addr - a \in Int /\ addr - a + Cells \in Cell
    BY <1>2, DmaAssumption DEF Cell
  <2> QED
    BY <1>2, <2>1, WrapCell, WrapRound
<1> QED
  BY <1>1, <1>2

(* The step down from addr.                                                *)
LEMMA Down ==
  ASSUME NEW addr \in Cell
  PROVE  Wrap(addr - 1) = IF addr = 0 THEN Cells - 1 ELSE addr - 1
<1>1. CASE addr = 0
  <2>1. 0 - 1 \in Int /\ Cells - 1 \in Cell /\ 0 - 1 + Cells = Cells - 1
    BY DmaAssumption DEF Cell
  <2> QED
    BY <1>1, <2>1, WrapCell, WrapRound
<1>2. CASE addr # 0
  <2>1. addr - 1 \in Cell
    BY <1>2, DmaAssumption DEF Cell
  <2> QED
    BY <1>2, <2>1, WrapCell
<1> QED
  BY <1>1, <1>2

(* The last word written is the same one before and after a step.          *)
LEMMA LastStays ==
  ASSUME NEW addr \in Cell, NEW left \in Nat
  PROVE  Wrap(Wrap(addr - 1) - (left - 2)) = Wrap(addr - (left - 1))
<1>1. CASE addr = 0
  <2>1. /\ addr - (left - 1) \in Int
        /\ Wrap(addr - 1) - (left - 2) = addr - (left - 1) + Cells
    BY <1>1, Down, DmaAssumption DEF Cell
  <2> QED
    BY <2>1, WrapRound
<1>2. CASE addr # 0
  <2>1. Wrap(addr - 1) - (left - 2) = addr - (left - 1)
    BY <1>2, Down DEF Cell
  <2> QED
    BY <2>1
<1> QED
  BY <1>1, <1>2

(* One step of the block copy does the first of the remaining writes: the  *)
(* RAM that the rest of the copy will leave is the one it was to leave     *)
(* before.                                                                 *)
LEMMA RemainingStep ==
  ASSUME NEW f \in [Cell -> Entry], NEW c, NEW addr \in Cell, NEW left \in Nat, left # 0
  PROVE  Remaining([f EXCEPT ![addr] = Value(c, addr, left)], c, Wrap(addr - 1), left - 1)
           = Remaining(f, c, addr, left)
<1> DEFINE g == [f EXCEPT ![addr] = Value(c, addr, left)]
           new(a) == IF Wrap(Wrap(addr - 1) - a) >= left - 1 THEN g[a]
                     ELSE Value(c, a, IF a = Wrap(Wrap(addr - 1) - ((left - 1) - 1)) THEN 1 ELSE 2)
           old(a) == IF Wrap(addr - a) >= left THEN f[a]
                     ELSE Value(c, a, IF a = Wrap(addr - (left - 1)) THEN 1 ELSE 2)
<1>1. Wrap(addr - 1) \in Cell
  BY WrapType DEF Cell
<1>2. Wrap(Wrap(addr - 1) - ((left - 1) - 1)) = Wrap(addr - (left - 1))
  <2>1. (left - 1) - 1 = left - 2
    OBVIOUS
  <2> QED
    BY <2>1, LastStays
<1>3. ASSUME NEW a \in Cell, a # addr PROVE new(a) = old(a)
  <2>1. Wrap(Wrap(addr - 1) - a) = Wrap(addr - a) - 1
    <3>1. Wrap(Wrap(addr - 1) - a) = IF a <= Wrap(addr - 1) THEN Wrap(addr - 1) - a
                                     ELSE Wrap(addr - 1) - a + Cells
      BY <1>1, <1>3, Distance
    <3>2. Wrap(addr - a) = IF a <= addr THEN addr - a ELSE addr - a + Cells
      BY <1>3, Distance
    <3>3. Wrap(addr - 1) = IF addr = 0 THEN Cells - 1 ELSE addr - 1
      BY Down
    <3> QED
      BY <1>3, <3>1, <3>2, <3>3, DmaAssumption DEF Cell
  <2>2. Wrap(addr - a) \in Int
    BY <1>3, Distance, DmaAssumption DEF Cell
  <2>3. Wrap(Wrap(addr - 1) - a) >= left - 1 <=> Wrap(addr - a) >= left
    BY <2>1, <2>2
  <2>4. g[a] = f[a]
    BY <1>3
  <2> QED
    BY <1>2, <2>3, <2>4
<1>4. new(addr) = old(addr)
  <2>1. Wrap(addr - addr) = 0 /\ Wrap(Wrap(addr - 1) - addr) = Cells - 1
    <3>1. Wrap(addr - addr) = 0
      BY Distance DEF Cell
    <3>2. Wrap(Wrap(addr - 1) - addr) = IF addr <= Wrap(addr - 1) THEN Wrap(addr - 1) - addr
                                        ELSE Wrap(addr - 1) - addr + Cells
      BY <1>1, Distance
    <3>3. Cells \in Nat /\ Cells > 0
      BY DmaAssumption
    <3>4. Wrap(Wrap(addr - 1) - addr) = Cells - 1
      BY <3>2, <3>3, Down DEF Cell
    <3> QED
      BY <3>1, <3>4
  <2>2. old(addr) = Value(c, addr, IF addr = Wrap(addr - (left - 1)) THEN 1 ELSE 2)
    BY <2>1
  <2>3. CASE Cells - 1 >= left - 1
    <3>1. new(addr) = Value(c, addr, left)
      BY <2>1, <2>3
    <3>2. addr = Wrap(addr - (left - 1)) <=> left = 1
      <4>1. left - 1 \in Cell
        BY <2>3 DEF Cell
      <4>2. Wrap(addr - (left - 1)) = IF left - 1 <= addr THEN addr - (left - 1)
                                      ELSE addr - (left - 1) + Cells
        BY <4>1, Distance
      <4> QED
        BY <4>1, <4>2, DmaAssumption DEF Cell
    <3> QED
      BY <2>2, <3>1, <3>2 DEF Value
  <2>4. CASE ~(Cells - 1 >= left - 1)
    BY <1>2, <2>1, <2>2, <2>4
  <2> QED
    BY <2>3, <2>4
<1>5. \A a \in Cell : new(a) = old(a)
  BY <1>3, <1>4
<1> QED
  BY <1>5 DEF Remaining

-----------------------------------------------------------------------------
(* Every step of the controller is a step of the contract, or none.        *)

LEMMA SameNames ==
  /\ Contract!Cell = Cell /\ Contract!Entry = Entry
  /\ Contract!GPU = GPU /\ Contract!OTC = OTC /\ Contract!NoChannel = -1
  /\ \A n : Contract!Wrap(n) = Wrap(n)
  /\ \A r : Contract!IsList(r) <=> r.syncmode = LINKED_LIST
  /\ \A r : Contract!Size(r) = Words(r)
  BY DEF Contract!Cell, Contract!Entry, Contract!GPU, Contract!OTC, Contract!NoChannel,
         Contract!Wrap, Contract!IsList, Contract!Size, Cell, Entry, GPU, OTC, Wrap, Words,
         IMMEDIATE, LINKED_LIST

LEMMA InitMaps == Init => Contract!Init
<1> SUFFICES ASSUME Init PROVE Contract!Init
  OBVIOUS
<1>1. transfer.phase = "none"
  BY DEF Init, Idle
<1> QED
  BY <1>1, SameNames DEF Init, Contract!Init, promised_ram, settings, busy

(* The line the contract computes is the one the code computes.            *)
LEMMA SameLine ==
  ASSUME IrqIsCurrent
  PROVE  dicr.irq = Contract!Line(settings, dicr.flags)
  BY DEF IrqIsCurrent, Line, Contract!Line, settings

LEMMA SameLineNext ==
  ASSUME IrqIsCurrent'
  PROVE  dicr.irq' = Contract!Line(settings', dicr.flags')
  BY DEF IrqIsCurrent, Line, Contract!Line, settings

LEMMA ConfigureMaps ==
  ASSUME IInv, IInv', transfer.phase = "none", UNCHANGED << ram, transfer, running >>,
         dicr.flags' \subseteq dicr.flags
  PROVE  Contract!Configure
  BY SameLineNext, SameNames DEF Contract!Configure, IInv, promised_ram, busy

LEMMA ExitMaps == ASSUME Exit PROVE Contract!Halt
  BY DEF Exit, Contract!Halt, promised_ram, settings, busy

LEMMA StoreMaps ==
  ASSUME IInv, transfer.phase = "none", NEW a \in Cell, cpu_store(a)
  PROVE  Contract!Store
  BY SameNames
     DEF cpu_store, Contract!Store, Contract!Steady, promised_ram, settings, busy

LEMMA FillMaps ==
  ASSUME NEW c, NEW base \in Cell, NEW n \in Nat, transfer.phase = "none"
  PROVE  Contract!Filled(c, base, n) = Remaining(ram, c, base, n)
<1>1. promised_ram = ram
  BY DEF promised_ram
<1>2. \A a \in Cell : (Wrap(base - a) < n) <=> ~(Wrap(base - a) >= n)
  <2>1. ASSUME NEW a \in Cell PROVE Wrap(base - a) \in Int
    BY WrapType DEF Cell
  <2> QED
    BY <2>1
<1>3. ASSUME NEW a \in Cell
      PROVE  Contract!Filled(c, base, n)[a] = Remaining(ram, c, base, n)[a]
  <2>1. CASE Wrap(base - a) < n
    <3>1. Remaining(ram, c, base, n)[a]
            = Value(c, a, IF a = Wrap(base - (n - 1)) THEN 1 ELSE 2)
      BY <1>2, <1>3, <2>1 DEF Remaining
    <3>2. Contract!Filled(c, base, n)[a]
            = IF c # OTC THEN Zero ELSE IF a = Wrap(base - (n - 1)) THEN Marker ELSE Link(a)
      BY <1>3, <2>1, SameNames DEF Contract!Filled, Contract!Below, Zero, Marker, Link
    <3> QED
      BY <3>1, <3>2 DEF Value
  <2>2. CASE ~(Wrap(base - a) < n)
    BY <1>1, <1>2, <1>3, <2>2, SameNames DEF Contract!Filled, Contract!Below, Remaining
  <2> QED
    BY <2>1, <2>2
<1> QED
  BY <1>3, SameNames DEF Contract!Filled, Remaining

LEMMA ControlMaps ==
  ASSUME IInv, IInv', transfer.phase = "none", NEW c \in Channel, NEW val \in ChcrWrites,
         write_chcr(c, val)
  PROVE  Contract!Configure \/ Contract!Start(c)
<1> DEFINE r == Decoded(channels[c], val)
<1>1. /\ r \in Registers /\ r.chcr = val
      /\ r.base = channels[c].base /\ r.size = channels[c].size /\ r.amount = channels[c].amount
  BY DecodedType, DmaAssumption DEF IInv, TypeOK
<1>2. /\ channels' = [channels EXCEPT ![c] = r] /\ channels'[c] = r
      /\ UNCHANGED << ram, dpcr, dicr, running >>
  BY DEF write_chcr, IInv, TypeOK
<1>3. CASE ~Starts(r)
  BY <1>2, <1>3, ConfigureMaps DEF write_chcr
<1>4. CASE Starts(r)
  <2>1. do_dma(c, r) /\ ~Refused(c, r) /\ channel_active(r) /\ dpcr # {}
    BY <1>4 DEF write_chcr, Starts
  <2>2. /\ transfer'.phase = (IF r.syncmode = LINKED_LIST THEN "entry" ELSE "block")
        /\ transfer'.channel = c /\ transfer'.addr = r.base
        /\ transfer'.words_left = IF r.syncmode = LINKED_LIST THEN 0 ELSE Words(r)
    BY <2>1 DEF do_dma, Idle
  <2>3. busy = -1 /\ busy' = c
    BY <2>2 DEF busy
  <2>4. promised_ram' = IF r.syncmode = LINKED_LIST \/ r.from_ram THEN promised_ram
                        ELSE Contract!Filled(c, r.base, Words(r))
    <3>1. r.base \in Cell /\ Words(r) \in Nat
      BY <1>1, WordsType DEF Registers
    <3>2. promised_ram = ram
      BY DEF promised_ram
    <3> QED
      BY <1>2, <2>2, <3>1, <3>2, FillMaps DEF promised_ram
  <2>5. IF r.syncmode = LINKED_LIST THEN c = GPU /\ r.from_ram
                                    ELSE r.syncmode = 0 => r.chcr.trigger
    BY <2>1 DEF Refused, channel_active, channel_trigger, IMMEDIATE
  <2>6. r.chcr.enabled
    BY <2>1 DEF channel_active
  <2>7. \A other \in Channel \ {c} : channels'[other] = channels[other]
    BY <1>2 DEF IInv, TypeOK
  <2>8. Contract!Steady
    BY <1>2 DEF Contract!Steady, settings
  <2> QED
    BY <1>1, <1>2, <2>1, <2>3, <2>4, <2>5, <2>6, <2>7, <2>8, SameNames DEF Contract!Start
<1> QED
  BY <1>3, <1>4

LEMMA CpuMaps ==
  ASSUME IInv, IInv', Cpu
  PROVE  Contract!Next
<1>1. running /\ transfer.phase = "none"
  BY DEF Cpu
<1>2. CASE \E enabled \in EnableWrites : write_dpcr(enabled)
  BY <1>1, <1>2, ConfigureMaps DEF write_dpcr, Contract!Next
<1>3. ASSUME NEW val \in DicrWrites, write_dicr(val) PROVE Contract!Next
  <2> DEFINE d == [dicr EXCEPT !.force = val.force, !.master = val.master, !.mask = val.mask,
                               !.flags = @ \ val.ack]
  <2>1. val \in DicrWrite /\ dicr \in Dicr
    BY DmaAssumption DEF IInv, TypeOK
  <2>2. d \in Dicr /\ d.flags = dicr.flags \ val.ack
    BY <2>1 DEF DicrWrite, Dicr
  <2>3. dicr'.flags = d.flags
    BY <1>3, <2>2, UpdateType DEF write_dicr
  <2> QED
    BY <1>1, <1>3, <2>2, <2>3, ConfigureMaps DEF write_dicr, Contract!Next
<1>4. ASSUME NEW c \in Channel,
             \/ \E base \in BaseWrites : write_madr(c, base)
             \/ \E size, amount \in CountWrites : write_bcr(c, size, amount)
      PROVE  Contract!Next
  BY <1>1, <1>4, ConfigureMaps DEF write_madr, write_bcr, Contract!Next
<1>5. ASSUME NEW c \in Channel, NEW val \in ChcrWrites, write_chcr(c, val)
      PROVE  Contract!Next
  BY <1>1, <1>5, ControlMaps DEF Contract!Next
<1>6. CASE Exit
  BY <1>1, <1>6, ExitMaps DEF Contract!Next
<1>7. CASE \E a \in Cell : cpu_store(a)
  BY <1>1, <1>7, StoreMaps DEF Contract!Next
<1> QED
  BY <1>2, <1>3, <1>4, <1>5, <1>6, <1>7 DEF Cpu, write_chcr_refused, invalid_offset

(* A word of a block transfer changes nothing the contract knows of.       *)
LEMMA BlockMaps == ASSUME IInv, block_word PROVE UNCHANGED Contract!vars
<1> DEFINE c == transfer.channel  a == transfer.addr  left == transfer.words_left
<1>1. /\ a \in Cell /\ left \in Nat /\ left # 0 /\ transfer.phase = "block"
      /\ ram \in [Cell -> Entry] /\ transfer \in Transfer
  BY DEF block_word, IInv, TypeOK, Transfer
<1>2. /\ transfer'.phase = "block" /\ transfer'.channel = c
      /\ transfer'.words_left = left - 1
      /\ ~channels[c].from_ram => transfer'.addr = Wrap(a - 1)
  BY <1>1 DEF block_word, Transfer
<1>3. UNCHANGED << dpcr, dicr, channels, running >>
  BY DEF block_word
<1>4. promised_ram' = promised_ram
  <2>1. CASE channels[c].from_ram
    BY <1>1, <1>2, <1>3, <2>1 DEF block_word, promised_ram
  <2>2. CASE ~channels[c].from_ram
    <3>1. ram' = [ram EXCEPT ![a] = Value(c, a, left)]
      BY <2>2 DEF block_word
    <3>2. Remaining(ram', c, Wrap(a - 1), left - 1) = Remaining(ram, c, a, left)
      BY <1>1, <3>1, RemainingStep
    <3> QED
      BY <1>1, <1>2, <1>3, <2>2, <3>2 DEF promised_ram
  <2> QED
    BY <2>1, <2>2
<1> QED
  BY <1>1, <1>2, <1>3, <1>4 DEF Contract!vars, settings, busy

LEMMA ListMaps ==
  ASSUME IInv, list_entry \/ list_packet \/ list_follow
  PROVE  UNCHANGED Contract!vars
<1>1. UNCHANGED << ram, dpcr, dicr, channels, running >>
  BY DEF list_entry, list_packet, list_follow
<1>2. /\ transfer.phase \in {"entry", "packet"} /\ transfer'.phase \in {"entry", "packet"}
      /\ transfer'.channel = transfer.channel
  BY DEF IInv, TypeOK, Transfer, list_entry, list_packet, list_follow
<1> QED
  BY <1>1, <1>2 DEF Contract!vars, promised_ram, settings, busy

LEMMA DoneMaps ==
  ASSUME IInv, IInv', running, block_done \/ list_done
  PROVE  Contract!Complete
<1> DEFINE c == transfer.channel
           d == IF c \in dicr.mask THEN [dicr EXCEPT !.flags = @ \cup {c}] ELSE dicr
<1>1. /\ transfer_done(c) /\ transfer.phase \in {"block", "packet"}
      /\ c \in Channel /\ dicr \in Dicr /\ ram \in [Cell -> Entry]
  BY DEF block_done, list_done, IInv, TypeOK, Transfer
<1>2. /\ d \in Dicr /\ d.flags = dicr.flags \cup ({c} \cap dicr.mask)
      /\ d.force = dicr.force /\ d.master = dicr.master /\ d.mask = dicr.mask
  BY <1>1 DEF Dicr
<1>3. dicr' = update_irq_active(d)
  BY <1>1 DEF transfer_done
<1>4. /\ dicr'.flags = dicr.flags \cup ({c} \cap dicr.mask)
      /\ settings' = settings
  BY <1>2, <1>3, UpdateType DEF settings
<1>5. /\ busy = c /\ busy # -1 /\ busy' = -1
  BY <1>1, DmaAssumption DEF transfer_done, Idle, busy
<1>6. promised_ram' = promised_ram
  <2>1. promised_ram' = ram
    BY <1>1 DEF transfer_done, Idle, promised_ram
  <2>2. promised_ram = ram
    <3>1. CASE block_done
      <4>1. transfer.words_left = 0 /\ transfer.addr \in Cell
        BY <3>1 DEF block_done, IInv, TypeOK, Transfer
      <4>2. \A a \in Cell : Wrap(transfer.addr - a) >= 0
        BY <4>1, WrapType DEF Cell
      <4>3. Remaining(ram, c, transfer.addr, 0) = ram
        BY <1>1, <4>2 DEF Remaining
      <4> QED
        BY <4>1, <4>3 DEF promised_ram
    <3>2. CASE list_done
      BY <3>2 DEF list_done, promised_ram
    <3> QED
      BY <3>1, <3>2
  <2> QED
    BY <2>1, <2>2
<1>7. Contract!Finite
  <2>1. CASE block_done
    BY <1>5, <2>1, SameNames DEF Contract!Finite, block_done, IInv, TransferAgrees
  <2>2. CASE list_done
    <3>1. promised_ram = ram
      BY <2>2 DEF list_done, promised_ram
    <3>2. ASSUME NEW S \in SUBSET Cell, channels[c].base \in S, Linked(S)
          PROVE  \E a \in S : ram[a].last
      BY <2>2, <3>2 DEF list_done, IInv, OnTheList
    <3> QED
      BY <1>5, <3>1, <3>2, SameNames DEF Contract!Finite, Contract!Ends, Linked
  <2> QED
    BY <2>1, <2>2
<1>8. channels' = [channels EXCEPT ![c] = Released(@)] /\ UNCHANGED << dpcr, running >>
  BY <1>1 DEF transfer_done
<1>9. dicr.irq' = Contract!Line(settings', dicr.flags')
  BY SameLineNext DEF IInv
<1>10. dicr.flags' = dicr.flags \cup ({busy} \cap settings.mask)
  BY <1>4, <1>5 DEF settings
<1>11. channels' = [channels EXCEPT ![busy] = Contract!Released(@)]
  <2>1. Contract!Released(channels[c]) = Released(channels[c])
    BY DEF Released, Contract!Released
  <2> QED
    BY <1>5, <1>8, <2>1
<1> QED
  BY <1>4, <1>5, <1>6, <1>7, <1>8, <1>9, <1>10, <1>11, SameNames DEF Contract!Complete

LEMMA NextMaps == IInv /\ [Next]_vars => [Contract!Next]_Contract!vars
<1> SUFFICES ASSUME IInv, [Next]_vars PROVE [Contract!Next]_Contract!vars
  OBVIOUS
<1>1. IInv'
  BY NextInvariant
<1>2. CASE Cpu
  BY <1>1, <1>2, CpuMaps
<1>3. CASE Transferring
  BY <1>1, <1>3, BlockMaps, ListMaps, DoneMaps DEF Transferring, Contract!Next
<1>4. CASE UNCHANGED vars
  BY <1>4 DEF vars, Contract!vars, promised_ram, settings, busy
<1> QED
  BY <1>2, <1>3, <1>4 DEF Next, Ended

(* The word-by-word transfers of dma.cpp keep the contract: a channel      *)
(* starts only from a register write, fills exactly the words asked for,   *)
(* completes on a list only at its end, and raises what the mask selects.  *)
THEOREM Refinement == Spec => ContractSafety
  BY InitMaps, NextMaps, Invariance, PTL DEF Spec, ContractSafety, Contract!Safety
-----------------------------------------------------------------------------
(* The table of the OTC channel.                                           *)

LEMMA Least ==
  ASSUME NEW V \in SUBSET Nat, V # {}
  PROVE  \E k \in V : \A j \in V : k <= j
<1>1. \E k \in V : \A j \in V : ~(<< j, k >> \in OpToRel(<, Nat))
  BY NatLessThanWellFounded, WFMin, Zenon
<1>2. PICK k \in V : \A j \in V : ~(<< j, k >> \in OpToRel(<, Nat))
  BY <1>1
<1>3. ASSUME NEW j \in V PROVE k <= j
  <2>1. ~(<< j, k >> \in OpToRel(<, Nat))
    BY <1>2, <1>3
  <2>2. ~(j < k)
    BY <2>1 DEF OpToRel
  <2> QED
    BY <2>2
<1> QED
  BY <1>3

LEMMA Reduce ==
  ASSUME NEW x \in Int, NEW q \in Int
  PROVE  Wrap(x + Cells * q) = Wrap(x)
<1> DEFINE y == x + Cells * q
<1>1. y \in Int /\ Cells \in Int
  BY DmaAssumption
<1>2. /\ x = Cells * (x \div Cells) + (x % Cells) /\ x % Cells \in 0 .. Cells - 1
      /\ y = Cells * (y \div Cells) + (y % Cells) /\ y % Cells \in 0 .. Cells - 1
      /\ x \div Cells \in Int /\ y \div Cells \in Int
  BY <1>1, Division, DmaAssumption
<1>3. Cells * (x \div Cells + q) = Cells * (x \div Cells) + Cells * q
  BY <1>1, <1>2
<1>4. Cells * (x \div Cells + q) + (x % Cells) = Cells * (y \div Cells) + (y % Cells)
  BY <1>1, <1>2, <1>3
<1>5. x \div Cells + q \in Int
  BY <1>2
<1> HIDE DEF y
<1>6. x % Cells = y % Cells
  BY <1>2, <1>4, <1>5, Unique
<1> QED
  BY <1>6 DEF Wrap, y

(* Wrapping a part first changes nothing.                                  *)
LEMMA WrapWithin ==
  ASSUME NEW x \in Int, NEW y \in Int
  PROVE  Wrap(Wrap(x) + y) = Wrap(x + y) /\ Wrap(y - Wrap(x)) = Wrap(y - x)
<1> DEFINE q == x \div Cells
<1>1. x = Cells * q + Wrap(x) /\ q \in Int /\ Wrap(x) \in Int
  BY Division, DmaAssumption, WrapType DEF Wrap, Cell
<1>2. Cells * (-q) = -(Cells * q) /\ Cells * q \in Int /\ -q \in Int
  BY <1>1, DmaAssumption
<1> HIDE DEF q
<1>3. Wrap(x) + y = (x + y) + Cells * (-q) /\ y - Wrap(x) = (y - x) + Cells * q
  BY <1>1, <1>2
<1>4. x + y \in Int /\ y - x \in Int
  OBVIOUS
<1> QED
  BY <1>1, <1>2, <1>3, <1>4, Reduce

(* Every set of words that holds base and is closed under the links of the *)
(* table holds the marker: the first word below base that is the marker or *)
(* lies outside the set cannot lie outside it.                             *)
LEMMA TableEnd ==
  ASSUME NEW f \in [Cell -> Entry], NEW base \in Cell, NEW n \in Nat, n > 0,
         NEW S \in SUBSET Cell, base \in S,
         \A a \in S : Remaining(f, OTC, base, n)[a].last
                        \/ Remaining(f, OTC, base, n)[a].next \in S
  PROVE  \E a \in S : Remaining(f, OTC, base, n)[a].last
<1> DEFINE g    == Remaining(f, OTC, base, n)
           down(k) == Wrap(base - k)
           e    == Wrap(base - (n - 1))
           V    == { k \in Nat : k <= n - 1 /\ (down(k) = e \/ down(k) \notin S) }
<1>1. /\ Cells \in Nat /\ Cells > 0 /\ base \in Int
      /\ \A k \in Nat : base - k \in Int /\ down(k) \in Cell
  BY DmaAssumption, WrapType DEF Cell
<1>2. ASSUME NEW k \in Nat, k <= n - 1
      PROVE  g[down(k)] = IF down(k) = e THEN Marker ELSE Link(down(k))
  <2>1. Wrap(base - down(k)) = Wrap(base - (base - k)) /\ base - (base - k) = k
    BY <1>1, <1>2, WrapWithin
  <2>2. Wrap(k) <= k /\ Wrap(k) \in Int
    <3>1. /\ k = Cells * (k \div Cells) + (k % Cells) /\ k \div Cells \in Int
          /\ k % Cells \in 0 .. Cells - 1
      BY Division
    <3>2. k \div Cells >= 0
      BY <1>1
    <3>3. Cells * (k \div Cells) >= 0 /\ Cells * (k \div Cells) \in Int
      BY <1>1, <3>1, <3>2
    <3> QED
      BY <3>1, <3>3 DEF Wrap
  <2>3. ~(Wrap(base - down(k)) >= n)
    BY <1>2, <2>1, <2>2
  <2>4. down(k) \in Cell
    BY <1>1
  <2> HIDE DEF down
  <2>5. g[down(k)] = Value(OTC, down(k), IF down(k) = e THEN 1 ELSE 2)
    BY <2>3, <2>4 DEF Remaining
  <2> QED
    BY <2>5 DEF Value
<1>3. V \in SUBSET Nat /\ n - 1 \in V
  OBVIOUS
<1> HIDE DEF V
<1>4. PICK k \in V : \A j \in V : k <= j
  BY <1>3, Least
<1>5. k \in Nat /\ k <= n - 1 /\ (down(k) = e \/ down(k) \notin S)
  BY <1>4 DEF V
<1>6. down(k) \in S
  <2>1. CASE k = 0
    <3>1. base - 0 = base /\ down(0) = base
      BY <1>1, WrapCell
    <3> QED
      BY <2>1, <3>1
  <2>2. CASE k # 0
    <3>1. k - 1 \in Nat /\ k - 1 <= n - 1 /\ ~(k <= k - 1)
      BY <1>5, <2>2
    <3>2. down(k - 1) # e /\ down(k - 1) \in S
      BY <1>4, <3>1 DEF V
    <3>3. g[down(k - 1)] = Link(down(k - 1))
      BY <1>2, <3>1, <3>2
    <3>4. Wrap(down(k - 1) - 1) = down(k)
      <4>1. base - (k - 1) \in Int /\ -1 \in Int /\ (base - (k - 1)) + (-1) = base - k
            /\ down(k - 1) + (-1) = down(k - 1) - 1
        BY <1>1, <1>5, <3>1, WrapType DEF Cell
      <4> QED
        BY <4>1, WrapWithin
    <3>5. ~g[down(k - 1)].last /\ g[down(k - 1)].next = down(k)
      BY <3>3, <3>4 DEF Link
    <3> QED
      BY <3>2, <3>5
  <2> QED
    BY <2>1, <2>2
<1>7. g[down(k)].last
  BY <1>2, <1>5, <1>6 DEF Marker
<1> QED
  BY <1>6, <1>7

(* What a block transfer of the OTC channel will leave, or has left, is a  *)
(* list that ends.                                                         *)
TableInv ==
  /\ transfer.phase = "block" /\ transfer.channel = OTC /\ ~channels[OTC].from_ram
  /\ Words(channels[OTC]) > 0
  => Contract!Ends(channels[OTC].base)

LEMMA TableStarts ==
  ASSUME IInv, IInv', transfer.phase = "none", NEW c \in Channel, NEW val \in ChcrWrites,
         write_chcr(c, val)
  PROVE  TableInv'
<1> DEFINE r == Decoded(channels[c], val)
<1> SUFFICES ASSUME transfer'.phase = "block", transfer'.channel = OTC,
                    ~channels'[OTC].from_ram, Words(channels'[OTC]) > 0
             PROVE  Contract!Ends(channels[OTC].base)'
  BY DEF TableInv, Words, IMMEDIATE
<1>1. /\ r \in Registers /\ channels' = [channels EXCEPT ![c] = r] /\ channels'[c] = r
      /\ ram' = ram /\ ram \in [Cell -> Entry]
  BY DecodedType, DmaAssumption DEF write_chcr, IInv, TypeOK
<1>2. Starts(r) /\ do_dma(c, r)
  BY DEF write_chcr
<1>3. c = OTC /\ transfer'.addr = r.base /\ transfer'.words_left = Words(r)
  BY <1>2 DEF do_dma, Idle, LINKED_LIST
<1>4. r.base \in Cell /\ Words(r) \in Nat
  BY <1>1, WordsType DEF Registers
<1>5. promised_ram' = Remaining(ram, OTC, r.base, Words(r))
  BY <1>1, <1>3 DEF promised_ram
<1> QED
  BY <1>1, <1>3, <1>4, <1>5, TableEnd, SameNames DEF Contract!Ends

LEMMA TableStep == IInv /\ TableInv /\ [Next]_vars => TableInv'
<1> SUFFICES ASSUME IInv, TableInv, [Next]_vars PROVE TableInv'
  OBVIOUS
<1>1. IInv'
  BY NextInvariant
<1>2. ASSUME transfer'.phase # "block" PROVE TableInv'
  BY <1>2 DEF TableInv
<1>3. CASE Cpu
  <2>1. CASE \E c \in Channel, val \in ChcrWrites : write_chcr(c, val)
    BY <1>1, <1>3, <2>1, TableStarts DEF Cpu
  <2>2. CASE UNCHANGED transfer
    BY <1>2, <1>3, <2>2 DEF Cpu
  <2> QED
    BY <1>3, <2>1, <2>2 DEF Cpu, write_dpcr, write_dicr, write_madr, write_bcr,
       write_chcr_refused, cpu_store, invalid_offset, Exit
<1>4. CASE block_word
  <2>1. promised_ram' = promised_ram
    BY <1>4, BlockMaps DEF Contract!vars
  <2>2. /\ channels' = channels /\ transfer'.channel = transfer.channel
        /\ transfer.phase = "block"
    BY <1>4 DEF block_word, IInv, TypeOK, Transfer
  <2> QED
    BY <2>1, <2>2 DEF TableInv, Contract!Ends, Words, Contract!Cell
<1>5. CASE block_done \/ list_done
  BY <1>2, <1>5 DEF block_done, list_done, transfer_done, Idle
<1>6. CASE list_entry \/ list_packet \/ list_follow
  BY <1>2, <1>6 DEF list_entry, list_packet, list_follow, IInv, TypeOK, Transfer
<1>7. CASE UNCHANGED vars
  BY <1>7 DEF vars, TableInv, promised_ram, Contract!Ends, Words
<1> QED
  BY <1>3, <1>4, <1>5, <1>6, <1>7 DEF Next, Transferring, Ended

(* The OTC channel's table ends, for RAM of any size and any count of      *)
(* words but 0: a list copy that starts at its base terminates.            *)
THEOREM TableCorrect == Spec => TableEnds
<1>1. Init => TableInv
  BY DEF Init, Idle, TableInv
<1>2. TableInv =>
        (running /\ transfer.phase = "block" /\ transfer'.phase = "none"
           /\ transfer.channel = OTC /\ ~channels[OTC].from_ram
           /\ Words(channels[OTC]) > 0
         => Contract!Ends(channels[OTC].base))
  BY DEF TableInv
<1> QED
  BY <1>1, <1>2, TableStep, Invariance, PTL DEF Spec, TableEnds
=============================================================================
