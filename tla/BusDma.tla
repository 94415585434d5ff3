------------------------------- MODULE BusDma -------------------------------
(***************************************************************************)
(* The bus as an implementation of Dma: the controller's words taken apart *)
(* into fields, RAM into list entries, byte addresses into word numbers.   *)
(***************************************************************************)
EXTENDS Bus

(* The fields that Dma makes of the words.                                 *)
Cell(n)     == n \div 4
Place(w)    == Cell(RamAddress(w))
Entry[w \in Word] ==
  [words |-> LaneNumber(w, 3), last |-> Last \in w, next |-> Place(w)]
Control(w)  == [from_ram |-> FromRam \in w, mode |-> Mode(w),
                enabled |-> Enabled \in w, trigger |-> Trigger \in w]
EnabledBy(w) == { c \in Channel : EnableBit(c) \in w }
Masked(w)   == { c \in Channel : MaskBit(c) \in w }
Flagged(w)  == { c \in Channel : FlagBit(c) \in w }
Settings(w) == [force |-> Forced \in w, master |-> Master \in w, mask |-> Masked(w),
                ack |-> Flagged(w)]

Fields[r \in Register] ==
  [base |-> Place(r.base_address),
   size |-> Number[LowHalf(r.block_control)], amount |-> Number[HighHalf(r.block_control)],
   chcr |-> Control(r.channel_control), from_ram |-> r.from_ram, syncmode |-> r.syncmode]
FreshEntry == Entry[UNION { InLane(Fill, j) : j \in 0 .. 3 }]
Entries    == [a \in 0 .. Cell(RamSize) - 1 |->
                 IF kuseg = Null THEN FreshEntry ELSE Entry[Load(kuseg, 4 * a, 4)]]

-----------------------------------------------------------------------------
(* What the program writes, as Dma has it.  A 16-bit write to a register   *)
(* of a channel writes the lower half of a word.                           *)
Written      == Data \cup { LowHalf(w) : w \in Data }
EnableWrites == { EnabledBy(w) : w \in Data }
DicrWrites   == { Settings(w) : w \in Data }
CountWrites  == UNION { { Number[LowHalf(w)], Number[HighHalf(w)] } : w \in Written }
ChcrWrites   == { Control(w) : w \in Written }
BaseWrites   == { Place(w) : w \in Written }

DicrFields     == [force |-> Forced \in dicr, master |-> Master \in dicr, mask |-> Masked(dicr),
                   flags |-> Flagged(dicr), irq |-> Active \in dicr]
ChannelFields  == [c \in Channel |-> Fields[channels[c]]]
TransferFields == [transfer EXCEPT !.addr = Cell(@), !.entry = Entry[@]]

D == INSTANCE DmaProofs WITH
  Cells <- Cell(RamSize), MaxPacket <- 2 ^ ByteBits - 1, MaxCount <- 2 ^ (2 * ByteBits) - 1,
  Fresh <- FreshEntry, ram <- Entries, dpcr <- EnabledBy(dpcr), dicr <- DicrFields,
  channels <- ChannelFields, transfer <- TransferFields

(* The bus, taken apart into fields, is Dma: every address, width and mask *)
(* by which the program reaches the controller's registers and the RAM     *)
(* does what Dma's actions say.                                            *)
DmaSafety == D!Init /\ [][UNCHANGED D!vars \/ D!Next]_vars

(* A transfer that the bus has started does not stop where Dma's goes on.  *)
DmaProgress == D!Fairness
=============================================================================
