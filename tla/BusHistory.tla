----------------------------- MODULE BusHistory -----------------------------
(***************************************************************************)
(* The bus with a memory of what the program did on it, and what that says *)
(* of its reads: a byte of RAM is the one stored last, a register of the   *)
(* DMA controller is as it was written.                                    *)
(***************************************************************************)
EXTENDS Bus

CONSTANT Unknown  \* what is remembered of a place nothing was stored in

VARIABLES
  access,   \* the last access
  stored,   \* the bytes stored in RAM since the last transfer wrote there
  written,  \* the words written to registers of the controller
  done      \* the channels that ran since their last CHCR write

history_vars == << vars, access, stored, written, done >>

Register0(c) == IoBase + \h80 + 16 * c
Chcr(c)      == Register0(c) + 8

(* The registers that an access of n bytes programs: the bus knows DPCR    *)
(* and DICR as words only, and no register as a byte.                      *)
ChannelRegisters == { Register0(c) + r : c \in Channel, r \in {0, 4, 8} }
Programmable     == ChannelRegisters \cup { IoBase + Dpcr, IoBase + Dicr }
Programmed(n)    == CASE n = 1 -> {} [] n = 2 -> ChannelRegisters [] n = 4 -> Programmable

Nothing        == [op |-> "none", n |-> 0, addr |-> 0, val |-> {}]
Narrow(n, val) == { k \in val : k < ByteBits * n }

Forgotten == [a \in Ram |-> Unknown]

-----------------------------------------------------------------------------
(* The accesses, and what is remembered of them.                           *)
Sensed(addr, n, w) ==
  /\ access' = [op |-> "read", n |-> n, addr |-> addr, val |-> w]
  /\ UNCHANGED << stored, written, done >>

Driven(addr, n, val) ==
  /\ access' = [op |-> "write", n |-> n, addr |-> addr, val |-> val]
  /\ stored' = [a \in Ram |-> IF (a - addr) % Space < n THEN Lane(val, (a - addr) % Space)
                                                        ELSE stored[a]]
  /\ written' = [a \in Programmable |->
                   IF a = addr /\ a \in Programmed(n) THEN Narrow(n, val) ELSE written[a]]
  /\ done' = { c \in done : addr # Chcr(c) \/ addr \notin Programmed(n) }

Sense(addr, n)      == \E w \in Outcomes(addr, n) : Read(addr, n, w) /\ Sensed(addr, n, w)
Drive(addr, n, val) == Write(addr, n, val) /\ Driven(addr, n, val)

Carried ==
  /\ stored' = IF kuseg' = kuseg THEN stored ELSE Forgotten
  /\ done' = IF transfer'.phase = "none" THEN done \cup {transfer.channel} ELSE done
  /\ UNCHANGED << access, written >>

Carry == Transferring /\ Carried

Start == Boot /\ UNCHANGED << access, stored, written, done >>

HistoryInit ==
  /\ Init
  /\ access = Nothing /\ done = {}
  /\ stored = Forgotten /\ written = [a \in Programmable |-> Unknown]

HistoryNext ==
  \/ Start
  \/ /\ Ready
     /\ \E addr \in Addresses, n \in {1, 2, 4} :
          Sense(addr, n) \/ \E val \in Data : Drive(addr, n, val)
  \/ Carry
  \/ Ended /\ UNCHANGED history_vars

HistorySpec == HistoryInit /\ [][HistoryNext]_history_vars

-----------------------------------------------------------------------------
Reads == access'.op = "read" /\ access' # access /\ access'.val # Fault

(* A read of RAM delivers, byte by byte, what was last stored there, the   *)
(* lowest byte of a word at its own address, whatever the widths and the   *)
(* alignment of the store and of the read, and around the end of the       *)
(* address space.                                                          *)
ReadsLastStored ==
  [][Reads => \A j \in 0 .. access'.n - 1 :
       LET a == Index(access'.addr, j) IN
       a \in Ram /\ stored[a] # Unknown => Lane(access'.val, j) = stored[a]]_history_vars

(* A register of the controller reads back what was last written to it,    *)
(* except that CHCR's busy bit is 0 once the channel has run.  Of DICR the *)
(* settable bits do.                                                       *)
Expected(a) ==
  IF \E c \in done : a = Chcr(c) THEN written[a] \ {Enabled} ELSE written[a]

RegistersReadBack ==
  [][Reads /\ access'.n = 4 /\ access'.addr \in Programmable /\ written[access'.addr] # Unknown
       => IF access'.addr = IoBase + Dicr
          THEN access'.val \cap Settable = written[access'.addr] \cap Settable
          ELSE access'.val = Expected(access'.addr)]_history_vars

-----------------------------------------------------------------------------
(* The accesses the manual (Playstation.txt) describes, in its own terms:  *)
(* RAM and BIOS in aligned units, the words of the DMA controller and of   *)
(* the GPU, the counts of the timers, the halves of the SPU's voices.      *)
(* Left out, because nothing answers them or only some of them: the        *)
(* scratch pad, the CDROM, the timers' modes and targets as read, the      *)
(* interrupt status as read, the SPU's control registers from the          *)
(* twentieth byte on.                                                      *)
Documented(op, addr, n) ==
  /\ addr % n = 0
  /\ \/ addr + n <= RamSize
     \/ op = "read" /\ bseg # Null /\ addr >= BiosBase /\ addr + n <= BiosBase + BiosSize
     \/ n = 4 /\ \E c \in Channel : addr \in { \h1f801080 + 16 * c + r : r \in {0, 4, 8} }
     \/ n = 4 /\ addr \in { \h1f8010f0, \h1f8010f4, \h1f801810, \h1f801814, \h1f801100, \h1f801110, \h1f801120 }
     \/ n = 2 /\ addr \in \h1f801c00 .. \h1f801d7f

(* A documented access is answered, by the device it names: it neither     *)
(* ends the process nor touches RAM it does not name, and a read delivers  *)
(* one value.  To send a list is for the GPU's channel only, and only out  *)
(* of RAM; a program that asks for another is not asked to go on.          *)
SendsOtherList(a, val) ==
  \E c \in Channel :
    a = Chcr(c) /\ {Enabled, ByteBits + 2} \subseteq val /\ (c # GPU \/ FromRam \notin val)

Answered ==
  [][LET a == access'.addr  n == access'.n IN
     access' # access /\ Documented(access'.op, a, n) =>
       /\ running' \/ SendsOtherList(a, access'.val)
       /\ kuseg' # kuseg => a \in Ram
       /\ access'.op = "read" => \E w \in Outcomes(a, n) : Outcomes(a, n) = {w}]_history_vars
=============================================================================
