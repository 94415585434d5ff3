--------------------------- MODULE DmaController ----------------------------
(***************************************************************************)
(* The class dma_controller word by word: the registers as the 32-bit      *)
(* words they are, what controller_read and controller_write do with an    *)
(* address, and the transfers with their byte addresses and masks.  Dma is *)
(* the same controller with registers taken apart into fields and RAM into *)
(* list entries; BusDma maps this one to it.                               *)
(*                                                                         *)
(* The transfers go through bus::read_word and bus::write_word, but with   *)
(* an address that is masked into RAM, where those two do nothing but load *)
(* and store.                                                              *)
(***************************************************************************)
EXTENDS Memory

CONSTANTS
  Channel,  \* 0..6
  Slot(_)   \* the place of a channel in DPCR and DICR, its number

VARIABLES dpcr, dicr, channels, transfer, running

dma_vars == << dpcr, dicr, channels, transfer >>

GPU == 2
OTC == 6
IMMEDIATE   == 0
REQUEST     == 1
LINKED_LIST == 2

ASSUME ControllerAssumption ==
  /\ Channel \subseteq 0 .. 6 /\ {GPU, OTC} \subseteq Channel
  /\ \A c \in Channel : Slot(c) \in 0 .. ByteBits - 2
  /\ \A c, d \in Channel : Slot(c) = Slot(d) => c = d

-----------------------------------------------------------------------------
(* Bits of the registers, in bytes of ByteBits bits: 24 is bit 0 of byte 3. *)
EnableBit(c) == 4 * Slot(c) + 3
MaskBit(c)   == 2 * ByteBits + Slot(c)
FlagBit(c)   == 3 * ByteBits + Slot(c)
Forced       == 2 * ByteBits - 1
Master       == 3 * ByteBits - 1
Active       == 4 * ByteBits - 1

FromRam   == 0
Mode(w)   == (IF ByteBits + 1 \in w THEN 1 ELSE 0) + (IF ByteBits + 2 \in w THEN 2 ELSE 0)
Enabled   == 3 * ByteBits
Trigger   == 3 * ByteBits + (ByteBits \div 2)

(* 0xff000000, 0x00ff803f and 0x7f000000.                                  *)
Flags    == 3 * ByteBits .. 4 * ByteBits - 1
Settable == (2 * ByteBits .. 3 * ByteBits - 1) \cup {Forced} \cup (0 .. ByteBits - 3)
Acked    == Flags \ {Active}

(* 0x07654321: channel c has priority c + 1 and is not enabled.            *)
Priority(c) == { k \in 0 .. 2 : ((c + 1) \div 2 ^ k) % 2 = 1 }
ResetDpcr   == UNION { { 4 * Slot(c) + k : k \in Priority(c) } : c \in Channel }

NoTransfer == [phase |-> "none", channel |-> GPU, addr |-> 0, words_left |-> 0, entry |-> {}]

ControllerInit ==
  /\ dpcr = ResetDpcr /\ dicr = {}
  /\ channels = [c \in Channel |->
       [base_address |-> {}, block_control |-> {}, channel_control |-> {},
        from_ram |-> TRUE, syncmode |-> IMMEDIATE]]
  /\ transfer = NoTransfer /\ running = TRUE

Exit == running' = FALSE /\ UNCHANGED << kuseg, bseg, dma_vars >>

-----------------------------------------------------------------------------
signal(d) == \E k \in 0 .. ByteBits - 2 : { 2 * ByteBits + k, 3 * ByteBits + k } \subseteq d

update_irq_active(d) ==
  IF Forced \in d \/ (Master \in d /\ signal(d)) THEN d \cup {Active} ELSE d \ {Active}

write_dpcr(val) ==
  dpcr' = val /\ UNCHANGED << kuseg, bseg, dicr, channels, transfer, running >>

(* Mutant of write_dicr: bit 31 is left as it was.                         *)
write_dicr_quietly(val) ==
  /\ dicr' = ((dicr \cap Flags) \cup (val \cap Settable)) \ (val \cap Acked)
  /\ UNCHANGED << kuseg, bseg, dpcr, channels, transfer, running >>

write_dicr(val) ==
  /\ dicr' = update_irq_active(((dicr \cap Flags) \cup (val \cap Settable)) \ (val \cap Acked))
  /\ UNCHANGED << kuseg, bseg, dpcr, channels, transfer, running >>

-----------------------------------------------------------------------------
(* controller_read and controller_write.  The address is one of the        *)
(* channels' registers, or between two of them.                            *)
ChannelAt(addr)  == ((addr \div 16) % 16) - 8
RegisterAt(addr) == addr % 16

(* What a read delivers: the set is empty where it ends the process.       *)
controller_read(addr) ==
  LET r == channels[ChannelAt(addr)]  reg == RegisterAt(addr) IN
  { w \in { r.base_address, r.block_control, r.channel_control } :
      \/ reg = 0 /\ w = r.base_address
      \/ reg = 4 /\ w = r.block_control
      \/ reg = 8 /\ w = r.channel_control }

Decoded(r, val) ==
  [r EXCEPT !.channel_control = val, !.from_ram = FromRam \in val,
            !.syncmode = IF Mode(val) < 3 THEN Mode(val) ELSE @]

(* Mutant of channel_active: the trigger bit is not looked at.             *)
channel_active_untriggered(r) == Enabled \in r.channel_control

channel_active(r) ==
  (r.syncmode = IMMEDIATE => Trigger \in r.channel_control) /\ Enabled \in r.channel_control

(* Mutant of AnyEnabled: DPCR is not looked at.                           *)
AnyEnabledAlways == TRUE

AnyEnabled == \E c \in Channel : EnableBit(c) \in dpcr

(* & 0x1ffffc                                                              *)
WordAddress(n) == n - (n % 4)

do_dma(c, r) ==
  LET base  == RamAddress(r.base_address)
      size  == Number[LowHalf(r.block_control)]
      words == IF r.syncmode = IMMEDIATE THEN size ELSE size * Number[HighHalf(r.block_control)]
  IN  transfer' = IF r.syncmode = LINKED_LIST
                  THEN [NoTransfer EXCEPT !.phase = "entry", !.channel = c,
                                          !.addr = WordAddress(base)]
                  ELSE [NoTransfer EXCEPT !.phase = "block", !.channel = c,
                                          !.addr = base, !.words_left = words]

write_chcr(c, val) ==
  LET r == Decoded(channels[c], val)
      starts  == channel_active(r) /\ AnyEnabled
      refused == r.syncmode = LINKED_LIST /\ (~r.from_ram \/ c # GPU)
  IN  \/ starts /\ refused /\ Exit
      \/ /\ ~(starts /\ refused)
         /\ channels' = [channels EXCEPT ![c] = r]
         /\ IF starts THEN do_dma(c, r) ELSE UNCHANGED transfer
         /\ UNCHANGED << kuseg, bseg, dpcr, dicr, running >>

write_register(c, field, val) ==
  /\ channels' = [channels EXCEPT ![c] =
       IF field = "base_address" THEN [@ EXCEPT !.base_address = val]
                                 ELSE [@ EXCEPT !.block_control = val]]
  /\ UNCHANGED << kuseg, bseg, dpcr, dicr, transfer, running >>

controller_write(addr, val) ==
  LET c == ChannelAt(addr)  reg == RegisterAt(addr) IN
  \/ reg = 0 /\ write_register(c, "base_address", val)
  \/ reg = 4 /\ write_register(c, "block_control", val)
  \/ reg = 8 /\ write_chcr(c, val)
  \/ reg \notin {0, 4, 8} /\ Exit

-----------------------------------------------------------------------------
(* The transfers.  The mutant of transfer_done leaves the channel enabled. *)
finish(c, chcr) ==
  /\ dicr' = update_irq_active(
       IF MaskBit(c) \in dicr THEN dicr \cup {FlagBit(c)} ELSE dicr)
  /\ channels' = [channels EXCEPT ![c] = [@ EXCEPT !.channel_control = chcr]]
  /\ transfer' = NoTransfer
  /\ UNCHANGED << kuseg, bseg, dpcr, running >>

transfer_done_busy(c) == finish(c, channels[c].channel_control)
transfer_done(c) == finish(c, channels[c].channel_control \ {Enabled})

Move(n) == (transfer.addr + n) % RamSize

(* Mutant of Value: a table's last entry points on.                        *)
ValueUnmarked == IF transfer.channel # OTC THEN {} ELSE Address(Move(-4))

(* 0, 0x00ffffff or (addr - 4) & 0x1fffff.                                 *)
Value == IF transfer.channel # OTC THEN {}
         ELSE IF transfer.words_left = 1 THEN 0 .. 3 * ByteBits - 1
         ELSE Address(Move(-4))

block_word ==
  LET from_ram == channels[transfer.channel].from_ram
      cur_addr == WordAddress(transfer.addr)
  IN  /\ transfer.phase = "block" /\ transfer.words_left # 0
      /\ kuseg' = Stored(kuseg, cur_addr, 4,
                         IF from_ram THEN Load(kuseg, cur_addr, 4) ELSE Value)
      /\ transfer' = [transfer EXCEPT !.addr = Move(IF from_ram THEN 4 ELSE -4),
                                      !.words_left = @ - 1]
      /\ UNCHANGED << bseg, dpcr, dicr, channels, running >>

block_done ==
  /\ transfer.phase = "block" /\ transfer.words_left = 0
  /\ transfer_done(transfer.channel)

list_entry ==
  LET entry == Load(kuseg, transfer.addr, 4) IN
  /\ transfer.phase = "entry"
  /\ transfer' = [transfer EXCEPT !.phase = "packet", !.entry = entry,
                                  !.words_left = LaneNumber(entry, 3)]
  /\ UNCHANGED << kuseg, bseg, dpcr, dicr, channels, running >>

(* Mutant of list_packet: the words left are not counted.                  *)
list_packet_endless ==
  /\ transfer.phase = "packet" /\ transfer.words_left > 0
  /\ transfer' = [transfer EXCEPT !.addr = Move(4)]
  /\ UNCHANGED << kuseg, bseg, dpcr, dicr, channels, running >>

list_packet ==
  /\ transfer.phase = "packet" /\ transfer.words_left > 0
  /\ transfer' = [transfer EXCEPT !.addr = Move(4), !.words_left = @ - 1]
  /\ UNCHANGED << kuseg, bseg, dpcr, dicr, channels, running >>

(* 0x800000 ends the list.                                                 *)
Last == 3 * ByteBits - 1

list_follow ==
  /\ transfer.phase = "packet" /\ transfer.words_left = 0 /\ Last \notin transfer.entry
  /\ transfer' = [transfer EXCEPT !.phase = "entry",
       !.addr = WordAddress(RamAddress(transfer.entry))]
  /\ UNCHANGED << kuseg, bseg, dpcr, dicr, channels, running >>

list_done ==
  /\ transfer.phase = "packet" /\ transfer.words_left = 0 /\ Last \in transfer.entry
  /\ transfer_done(transfer.channel)

Transferring ==
  /\ running /\ kuseg # Null
  /\ block_word \/ block_done \/ list_entry \/ list_packet \/ list_follow \/ list_done
=============================================================================
