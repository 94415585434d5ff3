-------------------------------- MODULE Dma ---------------------------------
(***************************************************************************)
(* The DMA controller (dma.cpp) and the RAM it works on.  The CPU writes   *)
(* the controller's registers through bus::write_word.  A write to CHCR    *)
(* that makes the channel active runs the whole transfer inside that write *)
(* (do_dma): the CPU does nothing until it has returned.  Here the loops   *)
(* of dma_block_copy and dma_list_copy take one step an iteration, and the *)
(* CPU's actions wait for transfer to be idle again.                       *)
(*                                                                         *)
(* Addresses are word numbers in RAM: each use of one in the controller    *)
(* masks it with 0x1ffffc, and stepping by 4 commutes with the mask.  Of a *)
(* word in RAM the controller looks at the three fields of a list entry.   *)
(***************************************************************************)
EXTENDS Integers, FiniteSets

CONSTANTS
  Cells,        \* words of RAM, 0x80000
  MaxPacket,    \* 255, the largest size in a list entry
  MaxCount,     \* 65535, the largest half of BCR
  Fresh,        \* the word 0xbabababa that psmem_init fills RAM with
  Channel,      \* the channels, 0..6
  EnableWrites, \* what the CPU writes to DPCR, each the set of channels enabled
  DicrWrites,   \* what it writes to DICR,
  CountWrites,  \* to a half of BCR,
  ChcrWrites,   \* to CHCR
  BaseWrites    \* and to MADR

VARIABLES
  ram,       \* RAM, by word
  dpcr,      \* the channels enabled in DPCR
  dicr,      \* the fields of DICR
  channels,  \* the registers of each channel, and what they decode to
  transfer,  \* the locals of the transfer being run
  running    \* FALSE once the process has ended

vars == << ram, dpcr, dicr, channels, transfer, running >>

GPU == 2
OTC == 6

IMMEDIATE   == 0
REQUEST     == 1
LINKED_LIST == 2

Cell    == 0 .. Cells - 1
Entry   == [words : 0 .. MaxPacket, last : BOOLEAN, next : Cell]
Count   == 0 .. MaxCount
Chcr    == [from_ram : BOOLEAN, mode : 0 .. 3, enabled : BOOLEAN, trigger : BOOLEAN]
DicrWrite == [force : BOOLEAN, master : BOOLEAN, mask : SUBSET Channel, ack : SUBSET Channel]
Dicr    == [force : BOOLEAN, master : BOOLEAN, mask : SUBSET Channel,
            flags : SUBSET Channel, irq : BOOLEAN]
Registers == [base : Cell, size : Count, amount : Count, chcr : Chcr,
              from_ram : BOOLEAN, syncmode : {IMMEDIATE, REQUEST, LINKED_LIST}]
Transfer  == [phase : {"none", "block", "entry", "packet"}, channel : Channel,
              addr : Cell, words_left : Nat, entry : Entry]

ASSUME DmaAssumption ==
  /\ Cells \in Nat /\ Cells > 0 /\ MaxPacket \in Nat /\ MaxCount \in Nat
  /\ Channel \subseteq 0 .. 6 /\ {GPU, OTC} \subseteq Channel
  /\ EnableWrites \subseteq SUBSET Channel /\ DicrWrites \subseteq DicrWrite
  /\ CountWrites \subseteq Count /\ ChcrWrites \subseteq Chcr /\ BaseWrites \subseteq Cell
  /\ Fresh \in Entry

-----------------------------------------------------------------------------
Wrap(n) == n % Cells

(* The words a transfer writes: 0, a link to the word below, and 0xffffff, *)
(* which as an entry is the last one.                                      *)
Zero    == [words |-> 0, last |-> FALSE, next |-> 0]
Link(a) == [words |-> 0, last |-> FALSE, next |-> Wrap(a - 1)]
Marker  == [words |-> 0, last |-> TRUE,  next |-> Cells - 1]

Idle == [phase |-> "none", channel |-> GPU, addr |-> 0, words_left |-> 0, entry |-> Zero]

(* The channel structures are zeroed, direction FROM_RAM and syncmode      *)
(* IMMEDIATE; DPCR is 0x07654321, which enables nothing; dicr is zero as   *)
(* the controller is a static object.                                      *)
Init ==
  /\ ram = [a \in Cell |-> Fresh]
  /\ dpcr = {}
  /\ dicr = [force |-> FALSE, master |-> FALSE, mask |-> {}, flags |-> {}, irq |-> FALSE]
  /\ channels = [c \in Channel |->
       [base |-> 0, size |-> 0, amount |-> 0,
        chcr |-> [from_ram |-> FALSE, mode |-> 0, enabled |-> FALSE, trigger |-> FALSE],
        from_ram |-> TRUE, syncmode |-> IMMEDIATE]]
  /\ transfer = Idle
  /\ running = TRUE

-----------------------------------------------------------------------------
(* update_irq_active, on a DICR whose other fields have just been set.  It *)
(* only stores bit 31: no interrupt reaches the CPU.                       *)
Line(d)              == d.force \/ (d.master /\ d.mask \cap d.flags # {})
update_irq_active(d) == [d EXCEPT !.irq = Line(d)]

(* Mutant of update_irq_active: bit 31 is only ever set.                   *)
update_irq_sticky(d) == [d EXCEPT !.irq = @ \/ Line(d)]

write_dpcr(enabled) ==
  /\ dpcr' = enabled
  /\ UNCHANGED << ram, dicr, channels, transfer, running >>

(* A flag is cleared by writing 1 to it.                                   *)
write_dicr(val) ==
  /\ dicr' = update_irq_active(
       [dicr EXCEPT !.force = val.force, !.master = val.master, !.mask = val.mask,
                    !.flags = @ \ val.ack])
  /\ UNCHANGED << ram, dpcr, channels, transfer, running >>

write_madr(c, base) ==
  /\ channels' = [channels EXCEPT ![c].base = base]
  /\ UNCHANGED << ram, dpcr, dicr, transfer, running >>

write_bcr(c, size, amount) ==
  /\ channels' = [channels EXCEPT ![c] = [@ EXCEPT !.size = size, !.amount = amount]]
  /\ UNCHANGED << ram, dpcr, dicr, transfer, running >>

-----------------------------------------------------------------------------
(* controller_write to CHCR.                                               *)

(* Mutant of Decoded: the mode is copied whatever it is.                   *)
DecodedAsIs(r, val) ==
  [r EXCEPT !.chcr = val, !.from_ram = val.from_ram, !.syncmode = val.mode]

(* The two decoded fields: CHCR's mode 3 leaves the old syncmode in place. *)
Decoded(r, val) ==
  [r EXCEPT !.chcr = val, !.from_ram = val.from_ram,
            !.syncmode = IF val.mode < 3 THEN val.mode ELSE @]

channel_trigger(r) == r.syncmode = IMMEDIATE => r.chcr.trigger
channel_active(r)  == channel_trigger(r) /\ r.chcr.enabled

Words(r) == IF r.syncmode = IMMEDIATE THEN r.size ELSE r.size * r.amount

(* do_dma up to the first iteration.  A list copy to RAM, or on a channel  *)
(* other than the GPU's, ends the process (the mutant forgets the latter). *)
RefusedToRam(c, r) == r.syncmode = LINKED_LIST /\ ~r.from_ram

Refused(c, r) == r.syncmode = LINKED_LIST /\ (~r.from_ram \/ c # GPU)

do_dma(c, r) ==
  transfer' = [Idle EXCEPT
    !.phase = IF r.syncmode = LINKED_LIST THEN "entry" ELSE "block",
    !.channel = c, !.addr = r.base,
    !.words_left = IF r.syncmode = LINKED_LIST THEN 0 ELSE Words(r)]

(* Any channel enabled in DPCR enables them all.                           *)
Starts(r) == channel_active(r) /\ dpcr # {}

write_chcr(c, val) ==
  LET r == Decoded(channels[c], val) IN
  /\ ~(Starts(r) /\ Refused(c, r))
  /\ channels' = [channels EXCEPT ![c] = r]
  /\ IF Starts(r) THEN do_dma(c, r) ELSE UNCHANGED transfer
  /\ UNCHANGED << ram, dpcr, dicr, running >>

Exit == running' = FALSE /\ UNCHANGED << ram, dpcr, dicr, channels, transfer >>

write_chcr_refused(c, val) ==
  LET r == Decoded(channels[c], val) IN Starts(r) /\ Refused(c, r) /\ Exit

(* An access to the fourth word of a channel, or inside one of the others. *)
invalid_offset == Exit

(* A store of the CPU to RAM, of any width.  It changes part of a word, or *)
(* of two neighbours: a half-aligned word falls in both.                   *)
cpu_store(a) ==
  /\ ram' \in [Cell -> Entry]
  /\ \A b \in Cell \ {a, Wrap(a + 1)} : ram'[b] = ram[b]
  /\ UNCHANGED << dpcr, dicr, channels, transfer, running >>

-----------------------------------------------------------------------------
(* The transfers.                                                          *)

(* channel_control &= ~0x01000000: the trigger bit stays.                  *)
Released(r) == [r EXCEPT !.chcr = [@ EXCEPT !.enabled = FALSE]]

(* Mutants of transfer_done: the line is not updated; the mask is ignored. *)
transfer_done_quietly(c) ==
  /\ dicr' = IF c \in dicr.mask THEN [dicr EXCEPT !.flags = @ \cup {c}] ELSE dicr
  /\ channels' = [channels EXCEPT ![c] = Released(@)]
  /\ transfer' = Idle /\ UNCHANGED << ram, dpcr, running >>

transfer_done_unmasked(c) ==
  /\ dicr' = update_irq_active([dicr EXCEPT !.flags = @ \cup {c}])
  /\ channels' = [channels EXCEPT ![c] = Released(@)]
  /\ transfer' = Idle /\ UNCHANGED << ram, dpcr, running >>

transfer_done(c) ==
  /\ dicr' = update_irq_active(
       IF c \in dicr.mask THEN [dicr EXCEPT !.flags = @ \cup {c}] ELSE dicr)
  /\ channels' = [channels EXCEPT ![c] = Released(@)]
  /\ transfer' = Idle /\ UNCHANGED << ram, dpcr, running >>

(* One iteration of dma_block_copy.  From RAM it reads a word and writes   *)
(* it back; to RAM it writes the OTC channel's table downwards, or zeroes. *)
ValueUnmarked(c, addr, left) == IF c # OTC THEN Zero ELSE Link(addr)

Value(c, addr, left) ==
  IF c # OTC THEN Zero ELSE IF left = 1 THEN Marker ELSE Link(addr)

block_word ==
  LET c == transfer.channel  a == transfer.addr  left == transfer.words_left
      from_ram == channels[c].from_ram
  IN  /\ transfer.phase = "block" /\ left # 0
      /\ ram' = IF from_ram THEN ram ELSE [ram EXCEPT ![a] = Value(c, a, left)]
      /\ transfer' = [transfer EXCEPT !.addr = Wrap(IF from_ram THEN a + 1 ELSE a - 1),
                                      !.words_left = left - 1]
      /\ UNCHANGED << dpcr, dicr, channels, running >>

block_done ==
  transfer.phase = "block" /\ transfer.words_left = 0 /\ transfer_done(transfer.channel)

(* dma_list_copy: read an entry, then its packet, then follow the link.    *)
(* The mutant of list_follow goes on to the word behind the packet.        *)
list_entry ==
  /\ transfer.phase = "entry"
  /\ transfer' = [transfer EXCEPT !.phase = "packet", !.entry = ram[transfer.addr],
                                  !.words_left = ram[transfer.addr].words]
  /\ UNCHANGED << ram, dpcr, dicr, channels, running >>

list_packet ==
  /\ transfer.phase = "packet" /\ transfer.words_left > 0
  /\ transfer' = [transfer EXCEPT !.addr = Wrap(@ + 1), !.words_left = @ - 1]
  /\ UNCHANGED << ram, dpcr, dicr, channels, running >>

list_follow_on ==
  /\ transfer.phase = "packet" /\ transfer.words_left = 0 /\ ~transfer.entry.last
  /\ transfer' = [transfer EXCEPT !.phase = "entry", !.addr = Wrap(@ + 1)]
  /\ UNCHANGED << ram, dpcr, dicr, channels, running >>

list_follow ==
  /\ transfer.phase = "packet" /\ transfer.words_left = 0 /\ ~transfer.entry.last
  /\ transfer' = [transfer EXCEPT !.phase = "entry", !.addr = transfer.entry.next]
  /\ UNCHANGED << ram, dpcr, dicr, channels, running >>

list_done ==
  /\ transfer.phase = "packet" /\ transfer.words_left = 0 /\ transfer.entry.last
  /\ transfer_done(transfer.channel)

-----------------------------------------------------------------------------
Cpu ==
  /\ running /\ transfer.phase = "none"
  /\ \/ \E enabled \in EnableWrites : write_dpcr(enabled)
     \/ \E val \in DicrWrites : write_dicr(val)
     \/ \E c \in Channel, base \in BaseWrites : write_madr(c, base)
     \/ \E c \in Channel, val \in ChcrWrites : write_chcr(c, val)
     \/ \E c \in Channel, val \in ChcrWrites : write_chcr_refused(c, val)
     \/ \E a \in Cell : cpu_store(a)
     \/ invalid_offset
     \/ \E c \in Channel, size, amount \in CountWrites : write_bcr(c, size, amount)

Transferring ==
  /\ running
  /\ block_word \/ block_done \/ list_entry \/ list_packet \/ list_follow \/ list_done

Ended == ~running /\ UNCHANGED vars

Next == Cpu \/ Transferring \/ Ended

(* A loop that has been entered keeps running; the CPU need not write.     *)
Fairness == WF_vars(Transferring)

Spec == Init /\ [][Next]_vars /\ Fairness

-----------------------------------------------------------------------------
TypeOK ==
  /\ ram \in [Cell -> Entry]
  /\ dpcr \subseteq Channel
  /\ dicr \in Dicr
  /\ channels \in [Channel -> Registers]
  /\ transfer \in Transfer
  /\ running \in BOOLEAN

(* Bit 31 of DICR is the line its other fields give, whatever set or       *)
(* cleared them: every path that changes one must call update_irq_active.  *)
IrqIsCurrent == dicr.irq = Line(dicr)

(* The registers of a channel agree with the transfer it runs: its CHCR is *)
(* busy, a list copy is the GPU's and goes from RAM, and dma_block_copy is *)
(* never reached in linked-list mode.                                      *)
TransferAgrees ==
  transfer.phase # "none" =>
    LET r == channels[transfer.channel] IN
    /\ r.chcr.enabled
    /\ transfer.phase = "block" <=> r.syncmode # LINKED_LIST
    /\ r.syncmode = LINKED_LIST => r.from_ram /\ transfer.channel = GPU

(* The entry that dma_list_copy is sending is one that the links lead to   *)
(* from MADR, although the copy moves its address through each packet.     *)
Linked(S) == \A a \in S : ram[a].last \/ ram[a].next \in S

OnTheList ==
  transfer.phase \in {"entry", "packet"} =>
    \A S \in SUBSET Cell :
      channels[transfer.channel].base \in S /\ Linked(S) =>
        IF transfer.phase = "entry" THEN transfer.addr \in S
                                    ELSE \E a \in S : ram[a] = transfer.entry

(* f once the words left have been written downwards from addr.            *)
Remaining(f, c, addr, left) ==
  [a \in Cell |->
     IF Wrap(addr - a) >= left THEN f[a]
     ELSE Value(c, a, IF a = Wrap(addr - (left - 1)) THEN 1 ELSE 2)]

(* The controller keeps the contract's promises.  While a block transfer   *)
(* runs the contract's RAM already holds what the remaining words will     *)
(* write.                                                                  *)
promised_ram ==
  IF transfer.phase = "block" /\ ~channels[transfer.channel].from_ram
  THEN Remaining(ram, transfer.channel, transfer.addr, transfer.words_left)
  ELSE ram

settings == [force |-> dicr.force, master |-> dicr.master, mask |-> dicr.mask]
busy     == IF transfer.phase = "none" THEN -1 ELSE transfer.channel

Contract == INSTANCE DmaContract WITH
  ram <- promised_ram, flags <- dicr.flags, irq <- dicr.irq

(* A list whose entries all come from a table the OTC channel has just     *)
(* built ends, wherever it starts and however often the table went round   *)
(* RAM: the marker is written last and every other entry leads down to it. *)
TableEnds ==
  [][running /\ transfer.phase = "block" /\ transfer'.phase = "none"
       /\ transfer.channel = OTC /\ ~channels[OTC].from_ram
       /\ Words(channels[OTC]) > 0
       => Contract!Ends(channels[OTC].base)]_vars

ContractSafety == Contract!Safety
ContractSpec   == Contract!Spec
=============================================================================
