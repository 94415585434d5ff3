------------------------------ MODULE Machine -------------------------------
(***************************************************************************)
(* The emulator: main() boots the bus and then runs the processor          *)
(* (R3000A) on the memory and the devices behind the bus (Bus).  A cycle   *)
(* fetches a word, decodes it and executes the instruction; the access the *)
(* instruction makes, if any, is the bus's.  A register write that starts  *)
(* a transfer returns when the transfer is done: the processor waits.      *)
(*                                                                         *)
(* The processor has natural numbers for words, the bus sets of bits.      *)
(***************************************************************************)
EXTENDS Bus

CONSTANTS
  WordSize, HalfSize, ByteSize, Region, Alu(_, _, _), MulDiv(_, _, _), Merge(_, _, _, _),
  IsCBit, BEVBit, RamVector, RomVector, BootCop, StaleStack,
  ResetPC, HiReset, LoReset,
  MemData,       \* the words that may be found in memory
  Instructions,  \* the instructions that words may be
  Decode(_)      \* the instruction that a word is

VARIABLES
  gpr, gpr_delay, hi, lo, pc, next_pc, load_delay, delay_reg, is_branch, delay_slot, cop,
  bus        \* the processor's last access

(* Memory may hold any instruction anywhere.                               *)
Fetch(a) == Instructions

(* R3000AProofs is R3000A with what is proved of it.                       *)
Cpu == INSTANCE R3000AProofs

cpu_vars == << gpr, gpr_delay, hi, lo, pc, next_pc, load_delay, delay_reg, is_branch,
               delay_slot, cop, bus >>
machine_vars == << vars, cpu_vars >>

Bits(n) == { k \in Bit : (n \div 2 ^ k) % 2 = 1 }

ASSUME MachineAssumption ==
  /\ ByteSize = 2 ^ ByteBits /\ HalfSize = ByteSize ^ 2 /\ WordSize = HalfSize ^ 2
  /\ WordSize = Space
  /\ Cpu!WidthAssumption /\ Cpu!Cop0Assumption /\ Cpu!R3000Assumption
  /\ Cpu!Physical(ResetPC) = BiosBase
  /\ \A w \in Word : Decode(w) \in Instructions

-----------------------------------------------------------------------------
(* The accesses of instruction i, if it makes one.                         *)
Whole(h)  == h \in Cpu!MergeLoads \cup Cpu!MergeStores
Target(i) == LET a == Cpu!Address(i) IN
             Cpu!Physical(IF Whole(Cpu!Handler(i)) THEN Cpu!WordOf(a) ELSE a)

Accesses(i) ==
  LET h == Cpu!Handler(i) IN
  \/ h \in Cpu!MergeStores
  \/ h \in Cpu!MergeLoads /\ ~Cpu!Isolated
  \/ h \in Cpu!MemoryOps /\ Cpu!Open(i)

(* The bus's part of the instruction.  Processor and bus agree on whether  *)
(* the process goes on.                                                    *)
Serve(i) ==
  LET h == Cpu!Handler(i)  n == Cpu!Size(h) IN
  \/ ~Accesses(i) /\ UNCHANGED << kuseg, bseg, dma_vars >>
  \/ /\ Accesses(i) /\ h \in Cpu!Stores
     /\ Write(Target(i), n, Bits(Cpu!Truncate(h, Cpu!Read(i.rt))))
  \/ /\ Accesses(i) /\ h \notin Cpu!Stores
     /\ \E w \in Outcomes(Target(i), n) :
          Read(Target(i), n, w) /\ (w # Fault => bus'.val = Number[w])

Execute(i) == Cpu!Execute(i) /\ Serve(i)

Halt == Exit /\ UNCHANGED cpu_vars

cycle ==
  /\ Ready
  /\ IF Cpu!align_check(pc)
     THEN \E w \in read_word(Cpu!Physical(pc)) :
            IF w = Fault THEN Halt ELSE Execute(Decode(w))
     ELSE Halt

Transfers == Transferring /\ UNCHANGED cpu_vars
Booting   == Boot /\ UNCHANGED cpu_vars
Stopped   == ~running /\ UNCHANGED machine_vars

MachineInit == Init /\ Cpu!Init
MachineNext == Booting \/ cycle \/ Transfers \/ Stopped

(* main() calls cycle() for ever, and a loop that is entered runs on.      *)
MachineFairness ==
  WF_machine_vars(Booting) /\ WF_machine_vars(cycle) /\ WF_machine_vars(Transfers)

MachineSpec == MachineInit /\ [][MachineNext]_machine_vars /\ MachineFairness

-----------------------------------------------------------------------------
MachineTypeOK == TypeOK /\ Cpu!TypeOK

(* main() ignores what load_bios returns.  Without a BIOS of the right     *)
(* size nothing is executed all the same: the first fetch ends the         *)
(* process, before anything has been stored.                               *)
BiosOrNothing ==
  bseg \notin [Rom -> Byte] =>
    /\ pc = ResetPC /\ gpr = [r \in Cpu!Reg |-> 0]
    /\ kuseg # Null => \A a \in Ram : kuseg[a] = Fill

(* On the bus, through its boot, its transfers and its end, the processor  *)
(* is still the abstract pipeline: what the instructions read and write is *)
(* what the bus carries, and a transfer that holds it up costs no step.    *)
ProcessorSafety == Cpu!PipelineSafety

(* A transfer starts only with the store of a word whose busy bit is set   *)
(* to the CHCR of its channel, and only while DPCR enables a channel, from *)
(* the address in the channel's MADR; nothing that is written to DPCR or   *)
(* to CHCR's halves before or afterwards starts one.                       *)
StartsAsAsked ==
  [][LET c == transfer'.channel IN
     transfer.phase = "none" /\ transfer'.phase # "none" =>
       /\ bus'.op = "write" /\ bus'.size = 4 /\ bus'.addr = IoBase + \h88 + 16 * c
       /\ Enabled \in Bits(bus'.val)
       /\ \E d \in Channel : EnableBit(d) \in dpcr
       /\ transfer'.addr \div 4 = RamAddress(channels[c].base_address) \div 4]_machine_vars
=============================================================================
