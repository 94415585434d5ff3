--------------------------- MODULE MachineProofs ----------------------------
(***************************************************************************)
(* What is proved of the whole emulator, for every program, memory size,   *)
(* memory map and word width: that it runs nothing without a BIOS, that    *)
(* its state is well typed, that on the bus the processor still is the     *)
(* abstract pipeline, that what its stores do to the DMA controller and to *)
(* RAM is what Dma's actions do, that its loads get what was stored, and   *)
(* that only a store that asks for a transfer starts one.                  *)
(***************************************************************************)
EXTENDS MachineHistory, BusDmaProofs, BusHistoryProofs

(* The processor as it was reset, RAM as it was filled, nothing going on.  *)
Unstarted ==
  /\ pc = ResetPC /\ gpr = [r \in Cpu!Reg |-> 0]
  /\ kuseg # Null => kuseg = [a \in Ram |-> Fill]
  /\ transfer.phase = "none"

(* The inductive invariant.  That no transfer is running is not part of    *)
(* the property, but a transfer could write to RAM.                        *)
NeverWithout == MemoryTypeOK /\ (bseg = Null => Unstarted)

-----------------------------------------------------------------------------
LEMMA KeptIsBooted ==
  ASSUME NeverWithout, Kept, bseg # Null
  PROVE  NeverWithout'
  BY DEF NeverWithout, Kept, MemoryTypeOK

LEMMA InitBoots == ASSUME MachineInit PROVE NeverWithout
  BY DEF MachineInit, Init, MemoryInit, ControllerInit, NoTransfer, Cpu!Init,
         NeverWithout, MemoryTypeOK, Unstarted

LEMMA BootingBoots == ASSUME NeverWithout, Booting PROVE NeverWithout'
<1>1. bseg = Null /\ Boot /\ UNCHANGED << pc, gpr >>
  BY DEF Booting, cpu_vars, Boot, load_bios
<1>2. Unstarted' /\ MemoryTypeOK'
  BY <1>1, BootLoads DEF NeverWithout, Unstarted, MemoryTypeOK
<1> QED
  BY <1>2 DEF NeverWithout

(* The first fetch of a processor without a BIOS.                          *)
LEMMA NothingThere == ASSUME bseg = Null PROVE read_word(BiosBase) = {Fault}
<1>1. BiosBase \in Int /\ BiosSize \in Nat /\ BiosSize > 0 /\ IoBase \in Int
  BY BusAssumption, MemoryAssumption DEF Addresses
<1>2. InBios(BiosBase, BiosSize - 1)
  BY <1>1 DEF InBios
<1> DEFINE k == BiosBase - IoBase
<1>3. k > 4162 /\ k \in Int
  BY <1>1, BusAssumption
<1>4. \A o : (\A x \in o : x <= 4162) => ~At(BiosBase, o)
  <2>1. \A o : At(BiosBase, o) <=> k \in o
    BY DEF At
  <2> HIDE DEF k
  <2> QED
    BY <1>3, <2>1
<1>5. Bios(BiosBase, 4) = {Fault}
  BY DEF Bios, Found
<1>6. /\ \A x \in MemControl : x <= 4162
      /\ \A x \in {IrqMask, Gp0} \cup Counters : x <= 4162
      /\ \A x \in DmaRegisters : x <= 4162
      /\ \A x \in {Gp1, Dpcr, Dicr, 248, 252} : x <= 4162
  BY DEF MemControl, IrqMask, Gp0, Counters, Gp1, Dpcr, Dicr, DmaRegisters
<1>7. /\ ~At(BiosBase, MemControl) /\ ~At(BiosBase, {IrqMask, Gp0} \cup Counters)
      /\ ~At(BiosBase, {Gp1}) /\ ~At(BiosBase, {Dpcr}) /\ ~At(BiosBase, {Dicr})
      /\ ~At(BiosBase, DmaRegisters) /\ ~At(BiosBase, {248}) /\ ~At(BiosBase, {252})
  BY <1>4, <1>6
<1> QED
  BY <1>2, <1>5, <1>7 DEF read_word

-----------------------------------------------------------------------------
LEMMA Sizes == ASSUME NEW h PROVE Cpu!Size(h) \in {1, 2, 4}
  BY DEF Cpu!Size

(* Whatever an instruction does on the bus.                                *)
LEMMA ServeKeeps ==
  ASSUME NEW i, kuseg \in [Ram -> Byte], Serve(i)
  PROVE  Kept
<1> DEFINE h == Cpu!Handler(i)
           n == Cpu!Size(h)
           v == Bits(Cpu!Truncate(h, Cpu!Read(i.rt)))
<1>1. n \in {1, 2, 4}
  BY Sizes
<1>2. CASE UNCHANGED << kuseg, bseg, dma_vars >>
  BY <1>2 DEF Kept, dma_vars
<1>3. CASE Write(Target(i), n, v)
  BY <1>1, <1>3, WriteKeeps
<1>4. CASE \E w : Read(Target(i), n, w)
  BY <1>4, ReadKeeps
<1> HIDE DEF n, v
<1> QED
  BY <1>2, <1>3, <1>4 DEF Serve, n, v

LEMMA HaltKeeps == ASSUME Halt PROVE Kept /\ UNCHANGED << kuseg, transfer, pc, gpr >>
  BY ExitKeeps DEF Halt, Exit, dma_vars, cpu_vars

LEMMA CycleBoots == ASSUME NeverWithout, cycle PROVE NeverWithout'
<1>1. kuseg \in [Ram -> Byte]
  BY DEF NeverWithout, MemoryTypeOK, cycle, Ready
<1>2. CASE bseg # Null
  <2>1. Halt => Kept
    BY HaltKeeps
  <2>2. \A w : Execute(Decode(w)) => Kept
    BY <1>1, ServeKeeps DEF Execute
  <2>3. Kept
    BY <2>1, <2>2 DEF cycle
  <2> QED
    BY <1>2, <2>3, KeptIsBooted
<1>3. CASE bseg = Null
  <2>1. Cpu!Physical(pc) = BiosBase
    BY <1>3, MachineAssumption DEF NeverWithout, Unstarted
  <2>2. read_word(Cpu!Physical(pc)) = {Fault}
    BY <1>3, <2>1, NothingThere
  <2>3. Halt
    BY <2>2 DEF cycle
  <2>4. UNCHANGED << kuseg, bseg, transfer, pc, gpr >>
    BY <2>3, HaltKeeps DEF Kept
  <2> QED
    BY <2>4 DEF NeverWithout, MemoryTypeOK, Unstarted
<1> QED
  BY <1>2, <1>3

LEMMA TransfersBoot == ASSUME NeverWithout, Transfers PROVE NeverWithout'
<1>1. kuseg \in [Ram -> Byte] /\ Transferring
  BY DEF NeverWithout, MemoryTypeOK, Transfers, Transferring
<1>2. bseg # Null
  <2>1. transfer.phase # "none"
    BY <1>1 DEF Transferring, block_word, block_done, list_entry, list_packet, list_follow,
                list_done
  <2> QED
    BY <2>1 DEF NeverWithout, Unstarted
<1> QED
  BY <1>1, <1>2, TransferKeeps, KeptIsBooted

LEMMA StepBoots == ASSUME NeverWithout, [MachineNext]_machine_vars PROVE NeverWithout'
<1>1. CASE Booting
  BY <1>1, BootingBoots
<1>2. CASE cycle
  BY <1>2, CycleBoots
<1>3. CASE Transfers
  BY <1>3, TransfersBoot
<1>4. CASE UNCHANGED machine_vars
  BY <1>4 DEF machine_vars, vars, dma_vars, cpu_vars, NeverWithout, MemoryTypeOK, Unstarted
<1> QED
  BY <1>1, <1>2, <1>3, <1>4 DEF MachineNext, Stopped

(* main() ignores what load_bios returns, and still nothing is executed    *)
(* without a BIOS of the right size.                                       *)
THEOREM BiosCorrect == MachineSpec => []BiosOrNothing
<1>1. MachineInit => NeverWithout
  BY InitBoots
<1>2. NeverWithout /\ [MachineNext]_machine_vars => NeverWithout'
  BY StepBoots
<1>3. NeverWithout => BiosOrNothing
  BY DEF NeverWithout, MemoryTypeOK, Unstarted, BiosOrNothing
<1> QED
  BY <1>1, <1>2, <1>3, PTL DEF MachineSpec

-----------------------------------------------------------------------------
(* The processor on the bus.  That the arithmetic unit delivers words is   *)
(* not an assumption of Machine, where TLC would try every pair of words.  *)
ArithmeticUnit == Cpu!AluAssumption /\ Cpu!MergeAssumption

(* The inductive invariant: the bus's and the processor's.                 *)
MachineInv == BusInv /\ Cpu!IInv

(* What a step of the machine is to the processor.                         *)
CpuStep ==
  \/ running /\ Cpu!Exit
  \/ running /\ \E i \in Instructions : Cpu!Execute(i)
  \/ UNCHANGED Cpu!vars

LEMMA Processor == Cpu!WidthAssumption /\ Cpu!Cop0Assumption /\ Cpu!R3000Assumption
  BY MachineAssumption

LEMMA InstructionsType == ASSUME Cpu!IInv PROVE Instructions \subseteq Cpu!Instruction
<1>1. Cpu!R3000Assumption /\ pc \in Cpu!Word
  BY Processor DEF Cpu!IInv, Cpu!FlowOK
<1> QED
  BY <1>1 DEF Cpu!R3000Assumption, Fetch

LEMMA SamePlaces == Cpu!Word = Addresses
  BY MachineAssumption DEF Addresses, Cpu!Word

LEMMA BitsAreWord == ASSUME NEW n PROVE Bits(n) \in Word
  BY DEF Bits, Word

(* An instruction addresses memory by words of the processor's.            *)
LEMMA TargetType ==
  ASSUME ArithmeticUnit, Cpu!IInv, NEW i \in Cpu!Instruction
  PROVE  Target(i) \in Addresses
<1> USE Processor DEF ArithmeticUnit
<1>1. i.rs \in Cpu!Reg /\ i.imm \in Cpu!Half
  BY Cpu!Fields
<1>2. Cpu!Address(i) \in Cpu!Word
  BY <1>1, Cpu!ReadType, Cpu!VAddrType DEF Cpu!IInv, Cpu!Address
<1>3. Cpu!WordOf(Cpu!Address(i)) \in Cpu!Word
  BY <1>2, Cpu!CellType DEF Cpu!WordOf
<1> QED
  BY <1>2, <1>3, Cpu!PhysicalType, SamePlaces DEF Target

LEMMA HaltIsExit == ASSUME Halt PROVE Cpu!Exit
  BY DEF Halt, Exit, cpu_vars, Cpu!Exit, Cpu!regs, Cpu!flow

LEMMA TransfersRun == ASSUME Transferring PROVE running' = running
  BY DEF Transferring, block_word, block_done, list_entry, list_packet, list_follow, list_done,
         transfer_done, finish

(* What the bus delivers to a fetch is an instruction.                     *)
LEMMA FetchedType ==
  ASSUME ArithmeticUnit, MachineInv, NEW w \in read_word(Cpu!Physical(pc)), w # Fault
  PROVE  Decode(w) \in Instructions
<1>1. Cpu!Physical(pc) \in Addresses
  BY Cpu!PhysicalType, Processor, SamePlaces
     DEF ArithmeticUnit, MachineInv, Cpu!IInv, Cpu!FlowOK
<1>2. w \in Outcomes(Cpu!Physical(pc), 4)
  BY DEF Outcomes
<1>3. w \in Word
  BY <1>1, <1>2, ReadType DEF MachineInv, BusInv
<1> QED
  BY <1>3, MachineAssumption

LEMMA CycleIsStep == ASSUME ArithmeticUnit, MachineInv, cycle PROVE CpuStep
<1>1. running
  BY DEF cycle, Ready
<1>2. CASE Halt
  BY <1>1, <1>2, HaltIsExit DEF CpuStep
<1>3. CASE \E w \in read_word(Cpu!Physical(pc)) : w # Fault /\ Execute(Decode(w))
  <2>1. PICK w \in read_word(Cpu!Physical(pc)) : w # Fault /\ Execute(Decode(w))
    BY <1>3
  <2>2. Decode(w) \in Instructions
    BY <2>1, FetchedType
  <2> QED
    BY <1>1, <2>1, <2>2 DEF CpuStep, Execute
<1> QED
  BY <1>2, <1>3 DEF cycle

LEMMA StepIsStep ==
  ASSUME ArithmeticUnit, MachineInv, [MachineNext]_machine_vars
  PROVE  CpuStep
<1>1. CASE Booting
  BY <1>1 DEF Booting, Boot, cpu_vars, CpuStep, Cpu!vars, Cpu!regs, Cpu!flow
<1>2. CASE cycle
  BY <1>2, CycleIsStep
<1>3. CASE Transfers
  <2>1. running' = running
    BY <1>3, TransfersRun DEF Transfers
  <2> QED
    BY <1>3, <2>1 DEF Transfers, cpu_vars, CpuStep, Cpu!vars, Cpu!regs, Cpu!flow
<1>4. CASE UNCHANGED machine_vars
  BY <1>4 DEF machine_vars, vars, cpu_vars, CpuStep, Cpu!vars, Cpu!regs, Cpu!flow
<1> QED
  BY <1>1, <1>2, <1>3, <1>4 DEF MachineNext, Stopped

LEMMA CpuKeeps ==
  ASSUME ArithmeticUnit, Cpu!IInv, CpuStep
  PROVE  Cpu!IInv'
<1> USE Processor DEF ArithmeticUnit
<1>1. CASE Cpu!Exit
  BY <1>1, Cpu!ExitType
<1>2. CASE \E i \in Instructions : Cpu!Execute(i)
  BY <1>2, InstructionsType, Cpu!ExecuteStep
<1>3. CASE UNCHANGED Cpu!vars
  <2>1. [Cpu!Next]_Cpu!vars
    BY <1>3
  <2> QED
    BY <2>1, Cpu!NextInvariant
<1> QED
  BY <1>1, <1>2, <1>3 DEF CpuStep

LEMMA CpuMaps ==
  ASSUME ArithmeticUnit, Cpu!IInv, CpuStep
  PROVE  [Cpu!Pipeline!Step]_Cpu!Pipeline!vars
<1> USE Processor DEF ArithmeticUnit
<1>1. CASE running /\ Cpu!Exit
  BY <1>1, Cpu!ExitMaps DEF Cpu!Pipeline!Step
<1>2. CASE running /\ \E i \in Instructions : Cpu!Execute(i)
  BY <1>2, InstructionsType, Cpu!ExecuteMaps DEF Cpu!Pipeline!Step, Fetch
<1>3. CASE UNCHANGED Cpu!vars
  <2>1. [Cpu!Next]_Cpu!vars
    BY <1>3
  <2> QED
    BY <2>1, Cpu!NextMaps
<1> QED
  BY <1>1, <1>2, <1>3 DEF CpuStep

-----------------------------------------------------------------------------
(* Every step keeps the invariant.                                         *)
LEMMA ServeInv ==
  ASSUME ArithmeticUnit, MachineInv, kuseg # Null, Cpu!RunOK',
         NEW i \in Cpu!Instruction, Serve(i)
  PROVE  BusInv'
<1> DEFINE h == Cpu!Handler(i)
           n == Cpu!Size(h)
           v == Bits(Cpu!Truncate(h, Cpu!Read(i.rt)))
<1>1. kuseg \in [Ram -> Byte] /\ ControlOK /\ BusInv /\ Kept
  <2>1. kuseg \in [Ram -> Byte]
    BY DEF MachineInv, BusInv, MemoryTypeOK
  <2> QED
    BY <2>1, ServeKeeps DEF MachineInv, BusInv
<1>2. n \in {1, 2, 4}
  BY Sizes
<1>3. CASE UNCHANGED << kuseg, bseg, dma_vars >> \/ \E w : Read(Target(i), n, w)
  <2>1. UNCHANGED dma_vars
    BY <1>3 DEF Read, Exit, vars
  <2>2. ControlOK'
    BY <1>1, <2>1 DEF ControlOK, dma_vars, Cpu!RunOK
  <2> QED
    BY <1>1, <2>2, KeptKeepsInv
<1>4. CASE Write(Target(i), n, v)
  <2>1. Target(i) \in Addresses
    BY TargetType DEF MachineInv
  <2>2. v \in Word
    BY BitsAreWord
  <2> HIDE DEF n, v
  <2>3. ControlOK'
    BY <1>1, <1>2, <1>4, <2>1, <2>2, WriteType
  <2> QED
    BY <1>1, <2>3, KeptKeepsInv
<1> HIDE DEF n, v
<1> QED
  BY <1>3, <1>4 DEF Serve, n, v

LEMMA CycleInv ==
  ASSUME ArithmeticUnit, MachineInv, cycle, Cpu!IInv'
  PROVE  BusInv'
<1>1. CASE Halt
  <2>1. Kept /\ UNCHANGED dma_vars
    BY <1>1, HaltKeeps DEF Halt, Exit
  <2>2. ControlOK'
    BY <2>1 DEF MachineInv, BusInv, ControlOK, dma_vars, Cpu!IInv, Cpu!RunOK
  <2> QED
    BY <2>1, <2>2, KeptKeepsInv DEF MachineInv
<1>2. CASE \E w \in read_word(Cpu!Physical(pc)) : w # Fault /\ Execute(Decode(w))
  <2>1. PICK w \in read_word(Cpu!Physical(pc)) : w # Fault /\ Execute(Decode(w))
    BY <1>2
  <2>2. Decode(w) \in Cpu!Instruction
    BY <2>1, FetchedType, InstructionsType DEF MachineInv
  <2>3. kuseg # Null
    BY DEF cycle, Ready
  <2> QED
    BY <2>1, <2>2, <2>3, ServeInv DEF Execute, Cpu!IInv
<1> QED
  BY <1>1, <1>2 DEF cycle

LEMMA StepInv ==
  ASSUME ArithmeticUnit, MachineInv, [MachineNext]_machine_vars
  PROVE  MachineInv'
<1>1. Cpu!IInv'
  BY StepIsStep, CpuKeeps DEF MachineInv
<1>2. BusInv'
  <2>1. CASE Booting
    BY <2>1, BootInv DEF Booting, MachineInv
  <2>2. CASE cycle
    BY <1>1, <2>2, CycleInv
  <2>3. CASE Transfers
    BY <2>3, NextInv DEF Transfers, Next, MachineInv
  <2>4. CASE UNCHANGED machine_vars
    BY <2>4, NextInv DEF machine_vars, MachineInv
  <2> QED
    BY <2>1, <2>2, <2>3, <2>4 DEF MachineNext, Stopped
<1> QED
  BY <1>1, <1>2 DEF MachineInv

LEMMA InitHolds == ASSUME ArithmeticUnit, MachineInit PROVE MachineInv /\ Cpu!Pipeline!Init
<1> USE Processor DEF ArithmeticUnit
<1>1. BusInv
  BY InitInv DEF MachineInit
<1>2. Cpu!IInv /\ Cpu!Pipeline!Init
  BY Cpu!InitInvariant, Cpu!InitMaps DEF MachineInit
<1> QED
  BY <1>1, <1>2 DEF MachineInv

(* Through boot, execution, transfers and the end of the process every     *)
(* variable of the processor, of RAM, of the BIOS and of the controller    *)
(* keeps its type, though the two sides represent words differently: what  *)
(* the processor drives is an address and a word of the bus's, and what    *)
(* the bus delivers to a fetch is an instruction.                          *)
THEOREM MachineTypeCorrect == ASSUME ArithmeticUnit PROVE MachineSpec => []MachineTypeOK
<1>1. MachineInit => MachineInv
  BY InitHolds
<1>2. MachineInv /\ [MachineNext]_machine_vars => MachineInv'
  BY StepInv
<1>3. MachineInv => MachineTypeOK
  BY Cpu!IInvMeaning, Processor
     DEF ArithmeticUnit, MachineInv, BusInv, ControlOK, TypeOK, MachineTypeOK
<1> QED
  BY <1>1, <1>2, <1>3, PTL DEF MachineSpec

(* On the bus the processor is still the abstract pipeline: reads and      *)
(* writes that other devices answer, faults, transfers that hold it up and *)
(* the boot are no steps of its own, or the end of the program.            *)
THEOREM ProcessorCorrect == ASSUME ArithmeticUnit PROVE MachineSpec => ProcessorSafety
<1>1. MachineInit => MachineInv /\ Cpu!Pipeline!Init
  BY InitHolds
<1>2. MachineInv /\ [MachineNext]_machine_vars => MachineInv'
  BY StepInv
<1>3. MachineInv /\ [MachineNext]_machine_vars
        => [Cpu!Pipeline!Step]_Cpu!Pipeline!vars
  BY StepIsStep, CpuMaps DEF MachineInv
<1> QED
  BY <1>1, <1>2, <1>3, PTL
     DEF MachineSpec, ProcessorSafety, Cpu!PipelineSafety, Cpu!Pipeline!Safety

-----------------------------------------------------------------------------
(* The controller in the emulator: what is proved of Dma holds of every    *)
(* program that the processor runs.  Dma's processor writes any word, as   *)
(* R3000A's does.                                                          *)
AnyWord == Data = Word

(* A step of the machine is to the controller one of Dma, or none.         *)
LEMMA ServeMapped ==
  ASSUME ArithmeticUnit, AnyWord, MachineInv, FlagsOK, Ready, Cpu!RunOK',
         NEW i \in Cpu!Instruction, Serve(i)
  PROVE  Mapped
<1> DEFINE h == Cpu!Handler(i)
           n == Cpu!Size(h)
           v == Bits(Cpu!Truncate(h, Cpu!Read(i.rt)))
<1>1. ControlOK /\ CpuTurn /\ kuseg \in [Ram -> Byte]
  BY DEF MachineInv, BusInv, Ready, CpuTurn, MemoryTypeOK
<1>2. Target(i) \in Addresses /\ n \in {1, 2, 4} /\ v \in Data
  BY TargetType, Sizes, BitsAreWord DEF MachineInv, AnyWord
<1> HIDE DEF n, v
<1>3. CASE UNCHANGED << kuseg, bseg, dma_vars >>
  BY <1>1, <1>3, IgnoreMapped, ExitMapped DEF Exit, vars, CpuTurn, Cpu!RunOK
<1>4. CASE Write(Target(i), n, v)
  BY <1>1, <1>2, <1>4, WriteMapped
<1>5. CASE \E w : Read(Target(i), n, w)
  BY <1>1, <1>5, ReadMapped
<1> QED
  BY <1>3, <1>4, <1>5 DEF Serve, n, v

LEMMA CycleMapped ==
  ASSUME ArithmeticUnit, AnyWord, MachineInv, FlagsOK, cycle, Cpu!RunOK'
  PROVE  Mapped
<1>1. CASE Halt
  BY <1>1, ExitMapped DEF Halt, cycle, Ready, CpuTurn, MachineInv, BusInv
<1>2. CASE \E w \in read_word(Cpu!Physical(pc)) : w # Fault /\ Execute(Decode(w))
  <2>1. PICK w \in read_word(Cpu!Physical(pc)) : w # Fault /\ Execute(Decode(w))
    BY <1>2
  <2>2. Decode(w) \in Cpu!Instruction
    BY <2>1, FetchedType, InstructionsType DEF MachineInv
  <2> QED
    BY <2>1, <2>2, ServeMapped DEF Execute, cycle
<1> QED
  BY <1>1, <1>2 DEF cycle

LEMMA MachineMapped ==
  ASSUME ArithmeticUnit, AnyWord, MachineInv, FlagsOK, [MachineNext]_machine_vars
  PROVE  MachineInv' /\ FlagsOK' /\ (UNCHANGED D!vars \/ D!Next)
<1>1. MachineInv'
  BY StepInv
<1>2. FlagsOK' /\ (D!Next \/ UNCHANGED D!vars)
  <2>1. CASE Booting
    BY <2>1, BootMapped DEF Booting, Mapped, D!Next
  <2>2. CASE cycle
    <3>1. Cpu!RunOK'
      BY <1>1 DEF MachineInv, Cpu!IInv
    <3> QED
      BY <2>2, <3>1, CycleMapped DEF Mapped, D!Next
  <2>3. CASE Transfers
    BY <1>1, <2>3, TransferringMaps DEF Transfers, MachineInv, D!Next
  <2>4. CASE UNCHANGED machine_vars
    BY <2>4, IgnoreMapped DEF machine_vars, Mapped, D!Next
  <2> QED
    BY <2>1, <2>2, <2>3, <2>4 DEF MachineNext, Stopped
<1> QED
  BY <1>1, <1>2

LEMMA MachineStarts ==
  ASSUME ArithmeticUnit, MachineInit
  PROVE  MachineInv /\ FlagsOK /\ D!Init
  BY InitHolds, InitMaps DEF MachineInit

-----------------------------------------------------------------------------
(* Whatever program the processor runs, its stores reach the controller    *)
(* and RAM as Dma says, and only between transfers.                        *)
THEOREM DmaCorrect == ASSUME ArithmeticUnit, AnyWord PROVE MachineSpec => DmaSafety
<1>1. MachineInit => MachineInv /\ FlagsOK /\ D!Init
  BY MachineStarts
<1>2. MachineInv /\ FlagsOK /\ [MachineNext]_machine_vars
        => MachineInv' /\ FlagsOK' /\ (UNCHANGED D!vars \/ D!Next)
  BY MachineMapped
<1> QED
  BY <1>1, <1>2, PTL DEF MachineSpec, DmaSafety

(* To the program a transfer is one step: the store that starts it fills   *)
(* the words asked for, and what the program sees next is that it is done. *)
THEOREM ContractCorrect ==
  ASSUME ArithmeticUnit, AnyWord PROVE MachineSpec => D!ContractSafety
<1>1. MachineInit => MachineInv /\ FlagsOK /\ D!Init
  BY MachineStarts
<1>2. MachineInv /\ FlagsOK /\ [MachineNext]_machine_vars
        => MachineInv' /\ FlagsOK' /\ [D!Next]_(D!vars)
  BY MachineMapped
<1>3. D!Init => D!IInv /\ D!Contract!Init
  BY Assumptions, D!InitInvariant, D!InitMaps
<1>4. D!IInv /\ [D!Next]_(D!vars) => D!IInv' /\ [D!Contract!Next]_(D!Contract!vars)
  BY Assumptions, D!NextInvariant, D!NextMaps
<1> QED
  BY <1>1, <1>2, <1>3, <1>4, PTL DEF MachineSpec, D!ContractSafety, D!Contract!Safety

(* A program that sends a list sends nothing that its links do not lead to *)
(* from the base it wrote.                                                 *)
THEOREM ListCorrect ==
  ASSUME ArithmeticUnit, AnyWord PROVE MachineSpec => []D!OnTheList
<1>1. MachineInit => MachineInv /\ FlagsOK /\ D!Init
  BY MachineStarts
<1>2. MachineInv /\ FlagsOK /\ [MachineNext]_machine_vars
        => MachineInv' /\ FlagsOK' /\ [D!Next]_(D!vars)
  BY MachineMapped
<1>3. D!Init => D!IInv
  BY Assumptions, D!InitInvariant
<1>4. D!IInv /\ [D!Next]_(D!vars) => D!IInv'
  BY Assumptions, D!NextInvariant
<1>5. D!IInv => D!OnTheList
  BY DEF D!IInv
<1> QED
  BY <1>1, <1>2, <1>3, <1>4, <1>5, PTL DEF MachineSpec
-----------------------------------------------------------------------------
(* What an instruction that does not end the process shows of its access   *)
(* is the access that the bus serves.                                      *)
Shows(i) ==
  LET h == Cpu!Handler(i)  n == Cpu!Size(h) IN
  /\ ~Accesses(i) => bus' = Cpu!Idle
  /\ Accesses(i) /\ h \in Cpu!Stores => Cpu!WriteBus(n, Target(i), Cpu!Truncate(h, Cpu!Read(i.rt)))
  /\ Accesses(i) /\ h \notin Cpu!Stores => \E v \in MemData : Cpu!ReadBus(n, Target(i), v)

LEMMA OtherFamilies ==
  LET memory == Cpu!MemoryOps IN
  /\ Cpu!AluRegister \cap memory = {} /\ Cpu!AluShift \cap memory = {}
  /\ Cpu!AluImmediate \cap memory = {} /\ Cpu!MultiplyDivide \cap memory = {}
  /\ Cpu!Branches \cap memory = {} /\ Cpu!Unusable \cap memory = {} /\ Cpu!Fatal \cap memory = {}
  /\ \A h \in { "op_mfhi", "op_mflo", "op_mthi", "op_mtlo", "op_add", "op_addi", "op_syscall",
                 "op_break", "op_j", "op_jal", "op_jr", "op_jalr", "op_cop0" } : h \notin memory
BY DEF Cpu!MemoryOps, Cpu!DelayedLoads, Cpu!MergeLoads, Cpu!Stores, Cpu!MergeStores,
       Cpu!AluRegister, Cpu!AluShift, Cpu!AluImmediate, Cpu!MultiplyDivide, Cpu!Branches,
       Cpu!Unusable, Cpu!Fatal

LEMMA MemoryFamilies ==
  /\ Cpu!DelayedLoads \cap (Cpu!MergeLoads \cup Cpu!MergeStores \cup Cpu!Stores) = {}
  /\ Cpu!MergeLoads \cap (Cpu!MergeStores \cup Cpu!Stores) = {}
  /\ Cpu!MergeStores \cap Cpu!Stores = {}
  /\ "op_lbu" \notin Cpu!MergeLoads \cup Cpu!MergeStores \cup Cpu!Stores
  /\ \A h \in Cpu!MergeLoads \cup Cpu!MergeStores : Cpu!Size(h) = 4
  /\ Cpu!Size("op_lbu") = 1
BY DEF Cpu!DelayedLoads, Cpu!MergeLoads, Cpu!Stores, Cpu!MergeStores, Cpu!Size

LEMMA FamiliesAccess ==
  ASSUME NEW i
  PROVE  LET h == Cpu!Handler(i) IN
         /\ h \notin Cpu!MemoryOps => ~Accesses(i)
         /\ h \in Cpu!MemoryOps \ Cpu!MergeStores /\ Cpu!Isolated => ~Accesses(i)
         /\ h \in Cpu!MemoryOps /\ Cpu!Open(i) => Accesses(i)
         /\ h \in Cpu!MergeLoads /\ ~Cpu!Isolated => Accesses(i)
         /\ h \in Cpu!MergeStores => Accesses(i)
         /\ h \in Cpu!MergeLoads \cup Cpu!MergeStores
               => Target(i) = Cpu!Physical(Cpu!WordOf(Cpu!Address(i)))
         /\ h \notin Cpu!MergeLoads \cup Cpu!MergeStores
               => Target(i) = Cpu!Physical(Cpu!Address(i))
  BY DEF Accesses, Target, Whole, Cpu!MemoryOps, Cpu!Open

LEMMA Shown == ASSUME NEW i, Cpu!Execute(i), running' PROVE Shows(i)
<1> DEFINE h == Cpu!Handler(i)
<1>1. ~Cpu!Exit
  BY DEF Cpu!Exit
<1>2. ASSUME h \notin Cpu!MemoryOps \/ (Cpu!Isolated /\ h \in Cpu!MemoryOps \ Cpu!MergeStores),
             bus' = Cpu!Idle
      PROVE  Shows(i)
  BY <1>2, FamiliesAccess DEF Shows
<1>3. CASE Cpu!op_alu_register(i) \/ Cpu!op_alu_shift(i) \/ Cpu!op_alu_immediate(i)
             \/ Cpu!op_mfhi(i) \/ Cpu!op_mflo(i)
  BY <1>2, <1>3, OtherFamilies
     DEF Cpu!op_alu_register, Cpu!op_alu_shift, Cpu!op_alu_immediate, Cpu!op_mfhi, Cpu!op_mflo,
         Cpu!Compute, Cpu!NoBus
<1>4. CASE Cpu!op_mult_div(i) \/ Cpu!op_mthi(i) \/ Cpu!op_mtlo(i)
  BY <1>2, <1>4, OtherFamilies
     DEF Cpu!op_mult_div, Cpu!op_mthi, Cpu!op_mtlo, Cpu!SetHiLo, Cpu!NoBus
<1>5. CASE Cpu!op_add(i) \/ Cpu!op_addi(i)
  BY <1>1, <1>2, <1>5, OtherFamilies
     DEF Cpu!op_add, Cpu!op_addi, Cpu!Compute, Cpu!Trap, Cpu!NoBus
<1>6. CASE Cpu!op_syscall(i) \/ Cpu!op_break(i) \/ Cpu!op_unusable(i) \/ Cpu!op_fatal(i)
  BY <1>1, <1>2, <1>6, OtherFamilies
     DEF Cpu!op_syscall, Cpu!op_break, Cpu!op_unusable, Cpu!op_fatal, Cpu!Trap, Cpu!NoBus
<1>7. CASE Cpu!op_branch(i) \/ Cpu!op_j(i) \/ Cpu!op_jal(i) \/ Cpu!op_jr(i) \/ Cpu!op_jalr(i)
  BY <1>2, <1>7, OtherFamilies
     DEF Cpu!op_branch, Cpu!op_j, Cpu!op_jal, Cpu!op_jr, Cpu!op_jalr, Cpu!Quiet, Cpu!NoBus
<1>8. CASE Cpu!op_mfc0(i) \/ Cpu!op_mtc0(i) \/ Cpu!op_rfe(i) \/ Cpu!op_cop0_nothing(i)
  BY <1>2, <1>8, OtherFamilies
     DEF Cpu!op_mfc0, Cpu!op_mtc0, Cpu!op_rfe, Cpu!op_cop0_nothing, Cpu!Cop0Op, Cpu!NoBus
<1>9. CASE Cpu!op_isolated(i)
  BY <1>2, <1>9 DEF Cpu!op_isolated, Cpu!NoBus
<1>10. CASE Cpu!op_load(i)
  <2>1. /\ h \in Cpu!DelayedLoads /\ Cpu!Open(i)
        /\ \E v \in MemData : Cpu!ReadBus(Cpu!Size(h), Cpu!Physical(Cpu!Address(i)), v)
    BY <1>10 DEF Cpu!op_load
  <2>2. Accesses(i) /\ Target(i) = Cpu!Physical(Cpu!Address(i)) /\ h \notin Cpu!Stores
    BY <2>1, FamiliesAccess, MemoryFamilies DEF Cpu!MemoryOps
  <2> QED
    BY <2>1, <2>2 DEF Shows
<1>11. CASE Cpu!op_lbu(i)
  <2>1. /\ h = "op_lbu" /\ Cpu!Open(i)
        /\ \E v \in MemData : Cpu!ReadBus(Cpu!Size(h), Cpu!Physical(Cpu!Address(i)), v)
    BY <1>11, MemoryFamilies DEF Cpu!op_lbu
  <2>2. Accesses(i) /\ Target(i) = Cpu!Physical(Cpu!Address(i)) /\ h \notin Cpu!Stores
    BY <2>1, FamiliesAccess, MemoryFamilies DEF Cpu!MemoryOps
  <2> QED
    BY <2>1, <2>2 DEF Shows
<1>12. CASE Cpu!op_merge_load(i)
  <2>1. /\ h \in Cpu!MergeLoads /\ ~Cpu!Isolated
        /\ \E v \in MemData : Cpu!ReadBus(Cpu!Size(h), Cpu!Physical(Cpu!WordOf(Cpu!Address(i))), v)
    BY <1>12, MemoryFamilies DEF Cpu!op_merge_load
  <2>2. Accesses(i) /\ Target(i) = Cpu!Physical(Cpu!WordOf(Cpu!Address(i))) /\ h \notin Cpu!Stores
    BY <2>1, FamiliesAccess, MemoryFamilies
  <2> QED
    BY <2>1, <2>2 DEF Shows
<1>13. CASE Cpu!op_merge_store(i)
  <2>1. /\ h \in Cpu!MergeStores
        /\ \E v \in MemData : Cpu!ReadBus(Cpu!Size(h), Cpu!Physical(Cpu!WordOf(Cpu!Address(i))), v)
    BY <1>13, MemoryFamilies DEF Cpu!op_merge_store
  <2>2. Accesses(i) /\ Target(i) = Cpu!Physical(Cpu!WordOf(Cpu!Address(i))) /\ h \notin Cpu!Stores
    BY <2>1, FamiliesAccess, MemoryFamilies
  <2> QED
    BY <2>1, <2>2 DEF Shows
<1>14. CASE Cpu!op_store(i)
  <2>1. /\ h \in Cpu!Stores /\ Cpu!Open(i)
        /\ Cpu!WriteBus(Cpu!Size(h), Cpu!Physical(Cpu!Address(i)), Cpu!Truncate(h, Cpu!Read(i.rt)))
    BY <1>14 DEF Cpu!op_store
  <2>2. Accesses(i) /\ Target(i) = Cpu!Physical(Cpu!Address(i))
    BY <2>1, FamiliesAccess, MemoryFamilies DEF Cpu!MemoryOps
  <2> QED
    BY <2>1, <2>2 DEF Shows
<1>15. ~Cpu!AccessFault(i) /\ ~Cpu!BusFault(i) /\ ~Cpu!NameFault(i)
  BY <1>1 DEF Cpu!AccessFault, Cpu!BusFault, Cpu!NameFault
<1> QED
  BY <1>3, <1>4, <1>5, <1>6, <1>7, <1>8, <1>9, <1>10, <1>11, <1>12, <1>13, <1>14, <1>15
     DEF Cpu!Execute

(* What a cycle that does not end the process does on the bus is what it   *)
(* shows.                                                                  *)
Accessed ==
  LET addr == bus'.addr  n == bus'.size IN
  \/ bus'.op = "idle" /\ UNCHANGED << kuseg, bseg, dma_vars >>
  \/ /\ addr \in Addresses /\ n \in {1, 2, 4} /\ bus'.op = "read" /\ UNCHANGED vars
     /\ \E w \in Outcomes(addr, n) \ {Fault} : bus'.val = Number[w]
  \/ /\ addr \in Addresses /\ n \in {1, 2, 4} /\ bus'.op = "write"
     /\ Write(addr, n, Bits(bus'.val))

LEMMA CycleAccess ==
  ASSUME ArithmeticUnit, MachineInv, cycle, running'
  PROVE  Accessed
<1>1. ~Exit
  BY DEF Exit
<1>2. PICK w \in read_word(Cpu!Physical(pc)) : w # Fault /\ Execute(Decode(w))
  BY <1>1 DEF cycle, Halt
<1>3. Decode(w) \in Cpu!Instruction
  BY <1>2, FetchedType, InstructionsType DEF MachineInv
<1> DEFINE i == Decode(w)
           h == Cpu!Handler(i)
           n == Cpu!Size(h)
           v == Cpu!Truncate(h, Cpu!Read(i.rt))
<1>4. Target(i) \in Addresses /\ n \in {1, 2, 4}
  BY <1>3, TargetType, Sizes DEF MachineInv
<1>5. Shows(i) /\ Serve(i)
  BY <1>2, Shown DEF Execute
<1> HIDE DEF i
<1>6. CASE ~Accesses(i)
  BY <1>5, <1>6 DEF Shows, Serve, Accessed, Cpu!Idle
<1>7. CASE Accesses(i) /\ h \in Cpu!Stores
  <2>1. Cpu!WriteBus(n, Target(i), v) /\ Write(Target(i), n, Bits(v))
    BY <1>5, <1>7 DEF Shows, Serve
  <2> HIDE DEF n, v
  <2>2. bus'.op = "write" /\ bus'.size = n /\ bus'.addr = Target(i) /\ bus'.val = v
    BY <2>1 DEF Cpu!WriteBus
  <2> QED
    BY <1>4, <2>1, <2>2 DEF Accessed
<1>8. CASE Accesses(i) /\ h \notin Cpu!Stores
  <2>1. PICK u \in Outcomes(Target(i), n) :
          Read(Target(i), n, u) /\ (u # Fault => bus'.val = Number[u])
    BY <1>5, <1>8 DEF Serve
  <2>2. u # Fault /\ UNCHANGED vars
    BY <1>1, <2>1 DEF Read
  <2>3. \E m \in MemData : Cpu!ReadBus(n, Target(i), m)
    BY <1>5, <1>8 DEF Shows
  <2> HIDE DEF n
  <2>4. bus'.op = "read" /\ bus'.size = n /\ bus'.addr = Target(i)
    BY <2>3 DEF Cpu!ReadBus
  <2> QED
    BY <1>4, <2>1, <2>2, <2>4 DEF Accessed
<1> QED
  BY <1>6, <1>7, <1>8

-----------------------------------------------------------------------------
(* What the program stored and what it reads.  The history is BusHistory's *)
(* and its invariant is true of the machine, too.                          *)
LEMMA MachineHistoryStep ==
  ASSUME [MachineHistoryNext]_machine_history_vars
  PROVE  [MachineNext]_machine_vars
  BY DEF MachineHistoryNext, machine_history_vars, MachineNext, Stopped, Unnoticed

LEMMA MachineRemembers ==
  ASSUME ArithmeticUnit, MachineInv, HistoryInv, [MachineHistoryNext]_machine_history_vars
  PROVE  MachineInv' /\ HistoryInv'
<1>1. MachineInv' /\ BusInv'
  BY MachineHistoryStep, StepInv DEF MachineInv
<1>2. done \subseteq Channel /\ (running => Remembered)
  BY DEF HistoryInv
<1>3. CASE Booting /\ Unnoticed
  <2>1. Start /\ done' = done /\ running' = running
    BY <1>3, BootLoads DEF Booting, Unnoticed, Start
  <2> QED
    BY <1>1, <1>2, <2>1, StartRemembers DEF HistoryInv
<1>4. CASE cycle /\ Noticed
  <2>1. Ready
    BY <1>4 DEF cycle
  <2>2. CASE ~running'
    <3>1. Unnoticed
      BY <1>4, <2>2 DEF Noticed
    <3>2. done' = done
      BY <3>1 DEF Unnoticed
    <3> QED
      BY <1>1, <1>2, <2>2, <3>2 DEF HistoryInv
  <2>3. CASE running' /\ Accessed
    <3> DEFINE addr == bus'.addr
               n == bus'.size
    <3>1. CASE bus'.op = "idle" /\ UNCHANGED << kuseg, bseg, dma_vars >>
      <4>1. UNCHANGED << kuseg, dpcr, dicr, channels, stored, written, done >>
        BY <2>3, <3>1, <1>4 DEF Noticed, Unnoticed, dma_vars
      <4>2. Remembered'
        BY <1>2, <2>1, <4>1, NothingChanges DEF Ready
      <4> QED
        BY <1>1, <1>2, <4>1, <4>2 DEF HistoryInv
    <3>2. CASE bus'.op = "read" /\ UNCHANGED vars
      <4>1. PICK w \in Outcomes(addr, n) \ {Fault} : Sensed(addr, n, w)
        BY <1>4, <2>3, <3>2 DEF Noticed
      <4>2. Sense(addr, n) /\ done' = done
        BY <3>2, <4>1 DEF Sense, Read, Sensed
      <4> HIDE DEF addr, n
      <4> QED
        BY <1>1, <1>2, <2>3, <4>2, SenseRemembers DEF HistoryInv
    <3>3. CASE /\ addr \in Addresses /\ n \in {1, 2, 4} /\ bus'.op = "write"
               /\ Write(addr, n, Bits(bus'.val))
      <4>1. Drive(addr, n, Bits(bus'.val)) /\ Bits(bus'.val) \in Word
        BY <1>4, <2>3, <3>3, BitsAreWord DEF Noticed, Drive
      <4>2. done' \subseteq Channel
        BY <1>2, <4>1 DEF Drive, Driven
      <4> HIDE DEF addr, n
      <4>3. Remembered'
        BY <2>1, <2>3, <3>3, <4>1, DriveRemembers
      <4> QED
        BY <1>1, <4>2, <4>3 DEF HistoryInv
    <3> QED
      BY <2>3, <3>1, <3>2, <3>3 DEF Accessed
  <2> QED
    BY <1>4, <2>2, <2>3, CycleAccess
<1>5. CASE Transfers /\ Carried
  BY <1>1, <1>5, CarryRemembers DEF Transfers, Carry, HistoryInv
<1>6. CASE UNCHANGED machine_history_vars
  <2>1. UNCHANGED << kuseg, dpcr, dicr, channels, stored, written, done, running >>
    BY <1>6 DEF machine_history_vars, machine_vars, vars, dma_vars
  <2> QED
    BY <1>1, <1>2, <2>1, NothingChanges DEF HistoryInv
<1>7. CASE Stopped /\ Unnoticed
  <2>1. UNCHANGED machine_history_vars
    BY <1>7 DEF Stopped, Unnoticed, machine_history_vars
  <2> QED
    BY <1>6, <2>1
<1> QED
  BY <1>3, <1>4, <1>5, <1>6, <1>7 DEF MachineHistoryNext

LEMMA MachineRemembersNothing ==
  ASSUME ArithmeticUnit, MachineHistoryInit
  PROVE  MachineInv /\ HistoryInv
<1>1. MachineInv
  BY InitHolds DEF MachineHistoryInit
<1>2. HistoryInit
  BY DEF MachineHistoryInit, MachineInit, HistoryInit
<1> QED
  BY <1>1, <1>2, HistoryInitInv

(* A load gets what the bus found.                                         *)
LEMMA LoadDelivers ==
  ASSUME ArithmeticUnit, MachineInv, [MachineHistoryNext]_machine_history_vars
  PROVE  Reads => Delivered
<1> SUFFICES ASSUME Reads PROVE Delivered
  OBVIOUS
<1>1. access' # access /\ access'.op = "read"
  BY DEF Reads
<1>2. cycle /\ Noticed
  BY <1>1 DEF MachineHistoryNext, Unnoticed, Carried, machine_history_vars
<1>3. running' /\ bus'.op # "idle"
  BY <1>1, <1>2 DEF Noticed, Unnoticed, Driven
<1>4. ~(bus'.op = "write")
  BY <1>1, <1>2, <1>3 DEF Noticed, Unnoticed, Driven
<1>5. PICK w \in Outcomes(bus'.addr, bus'.size) \ {Fault} : Sensed(bus'.addr, bus'.size, w)
  BY <1>2, <1>3, <1>4 DEF Noticed
<1>6. Accessed /\ Ready
  BY <1>2, <1>3, CycleAccess DEF cycle
<1> QED
  BY <1>3, <1>4, <1>5, <1>6 DEF Accessed, Sensed, Delivered

(* Whatever program the processor runs, each byte that one of its loads    *)
(* gets of RAM is the byte that its stores of any width last put there,    *)
(* unless a transfer has written to RAM since.                             *)
THEOREM LoadsCorrect == ASSUME ArithmeticUnit PROVE MachineHistorySpec => ReadsLastStored
<1>1. MachineHistoryInit => MachineInv /\ HistoryInv
  BY MachineRemembersNothing
<1>2. MachineInv /\ HistoryInv /\ [MachineHistoryNext]_machine_history_vars
        => MachineInv' /\ HistoryInv'
  BY MachineRemembers
<1>3. MachineInv /\ HistoryInv /\ [MachineHistoryNext]_machine_history_vars
        => [Reads => \A j \in 0 .. access'.n - 1 :
              LET a == Index(access'.addr, j) IN
              a \in Ram /\ stored[a] # Unknown => Lane(access'.val, j) = stored[a]]_history_vars
  BY LoadDelivers, ReadsFollow
<1> QED
  BY <1>1, <1>2, <1>3, PTL DEF MachineHistorySpec, ReadsLastStored

(* And a register of the controller that it reads is as it wrote it, but   *)
(* for the busy bit of a channel that has run.                             *)
THEOREM RegisterLoadsCorrect ==
  ASSUME ArithmeticUnit PROVE MachineHistorySpec => RegistersReadBack
<1>1. MachineHistoryInit => MachineInv /\ HistoryInv
  BY MachineRemembersNothing
<1>2. MachineInv /\ HistoryInv /\ [MachineHistoryNext]_machine_history_vars
        => MachineInv' /\ HistoryInv'
  BY MachineRemembers
<1>3. MachineInv /\ HistoryInv /\ [MachineHistoryNext]_machine_history_vars
        => [Reads /\ access'.n = 4 /\ access'.addr \in Programmable
              /\ written[access'.addr] # Unknown
              => IF access'.addr = IoBase + Dicr
                 THEN access'.val \cap Settable = written[access'.addr] \cap Settable
                 ELSE access'.val = Expected(access'.addr)]_history_vars
  BY LoadDelivers, RegistersFollow
<1> QED
  BY <1>1, <1>2, <1>3, PTL DEF MachineHistorySpec, RegistersReadBack

-----------------------------------------------------------------------------
(* Which stores start a transfer.                                          *)
LEMMA ChcrStarts ==
  ASSUME ControlOK, NEW c \in Channel, NEW val \in Word, write_chcr(c, val),
         transfer'.phase # transfer.phase
  PROVE  /\ Enabled \in val /\ AnyEnabled /\ transfer'.channel = c
         /\ transfer'.addr \div 4 = RamAddress(channels[c].base_address) \div 4
<1> DEFINE r    == Decoded(channels[c], val)
           base == RamAddress(r.base_address)
<1>1. ~Exit
  BY DEF Exit, dma_vars
<1>2. channel_active(r) /\ AnyEnabled /\ do_dma(c, r)
  BY <1>1 DEF write_chcr
<1>3. r.channel_control = val /\ r.base_address = channels[c].base_address
  BY DEF ControlOK, Decoded, Register
<1>4. Enabled \in val
  BY <1>2, <1>3 DEF channel_active
<1>5. base \in Ram
  BY RamAddressType
<1>6. base \in Nat
  BY <1>5 DEF Ram
<1>7. transfer'.channel = c /\ transfer'.addr \in {base, WordAddress(base)}
  <2> HIDE DEF r
  <2> QED
    BY <1>2, NoTransferType DEF do_dma, Transfer, NoTransfer
<1> HIDE DEF r, base
<1>8. WordAddress(base) \div 4 = base \div 4
  BY <1>6 DEF WordAddress
<1> QED
  BY <1>2, <1>3, <1>4, <1>7, <1>8 DEF base

LEMMA WriteStarts ==
  ASSUME ControlOK, NEW addr \in Addresses, NEW n \in {1, 2, 4}, NEW val \in Word,
         Write(addr, n, val), transfer'.phase # transfer.phase
  PROVE  LET c == transfer'.channel IN
         /\ n = 4 /\ addr = IoBase + \h88 + 16 * c
         /\ Enabled \in val /\ AnyEnabled
         /\ transfer'.addr \div 4 = RamAddress(channels[c].base_address) \div 4
<1>1. /\ ~Ignore /\ ~Exit
      /\ \A i, k : ~write_creg(i, k)
      /\ \A k : ~Store(addr, k, val)
      /\ ~write_dpcr(val) /\ ~write_dicr(val)
  BY DEF Ignore, vars, dma_vars, write_creg, Store, Exit, write_dpcr, write_dicr
<1>2. ASSUME NEW v, controller_write(addr, v)
      PROVE  RegisterAt(addr) = 8 /\ write_chcr(ChannelAt(addr), v)
  BY <1>1, <1>2 DEF controller_write, write_register
<1>3. n # 1
  <2> SUFFICES ASSUME n = 1 PROVE FALSE
    OBVIOUS
  <2>1. write_byte(addr, val)
    BY DEF Write
  <2> QED
    BY <1>1, <2>1 DEF write_byte
<1>4. /\ At(addr, DmaRegisters)
      /\ controller_write(addr, IF n = 2 THEN LowHalf(val) ELSE val)
  <2>1. CASE n = 2
    BY <1>1, <2>1 DEF Write, write_hword
  <2>2. CASE n = 4
    BY <1>1, <2>2 DEF Write, write_word
  <2> QED
    BY <1>3, <2>1, <2>2
<1> DEFINE c == ChannelAt(addr)
<1>5. c \in Channel /\ addr = Register0(c) + 8
  BY <1>2, <1>4, RegisterOfAddress
<1>6. LowHalf(val) \in Word /\ Enabled \notin LowHalf(val)
  <2>1. ByteBits \in 4 .. 8
    BY MemoryAssumption
  <2> QED
    BY <2>1 DEF LowHalf, Enabled, Word, Bit
<1>7. n = 4 /\ write_chcr(c, val)
  <2>1. CASE n = 2
    <3>1. write_chcr(c, LowHalf(val))
      BY <1>2, <1>4, <2>1
    <3> QED
      BY <1>5, <1>6, <3>1, ChcrStarts
  <2>2. CASE n = 4
    BY <1>2, <1>4, <2>2
  <2> QED
    BY <1>3, <2>1, <2>2
<1> HIDE DEF c
<1>8. /\ Enabled \in val /\ AnyEnabled /\ transfer'.channel = c
      /\ transfer'.addr \div 4 = RamAddress(channels[c].base_address) \div 4
  BY <1>5, <1>7, ChcrStarts
<1>9. addr = IoBase + \h88 + 16 * c
  BY <1>5, Base, ChannelNumbers DEF Register0
<1> QED
  BY <1>7, <1>8, <1>9

(* A store that ends the process starts nothing.                           *)
LEMMA EndStartsNothing ==
  ASSUME ControlOK, NEW addr \in Addresses, NEW n \in {1, 2, 4}, NEW val \in Word,
         running, Write(addr, n, val), ~running'
  PROVE  UNCHANGED transfer
<1>1. /\ Exit => UNCHANGED transfer
      /\ ~Ignore
      /\ \A i, k : write_creg(i, k) => Exit
      /\ \A k : Store(addr, k, val) => Exit
      /\ ~write_dpcr(val) /\ ~write_dicr(val)
  BY DEF Ignore, vars, dma_vars, write_creg, Store, Exit, write_dpcr, write_dicr
<1>2. ASSUME NEW v, controller_write(addr, v) PROVE Exit
  BY <1>2 DEF controller_write, write_register, write_chcr
<1>3. CASE n = 1
  BY <1>1, <1>3 DEF Write, write_byte
<1>4. CASE n = 2
  <2>1. write_hword(addr, val)
    BY <1>4 DEF Write
  <2> QED
    BY <1>1, <1>2, <2>1 DEF write_hword
<1>5. CASE n = 4
  <2>1. write_word(addr, val)
    BY <1>5 DEF Write
  <2> QED
    BY <1>1, <1>2, <2>1 DEF write_word
<1> QED
  BY <1>3, <1>4, <1>5

LEMMA EndStartsNone ==
  ASSUME ArithmeticUnit, MachineInv, cycle, ~running'
  PROVE  UNCHANGED transfer
<1>1. CASE Halt
  BY <1>1, HaltKeeps
<1>2. CASE \E w \in read_word(Cpu!Physical(pc)) : w # Fault /\ Execute(Decode(w))
  <2>1. PICK w \in read_word(Cpu!Physical(pc)) : w # Fault /\ Execute(Decode(w))
    BY <1>2
  <2> DEFINE i == Decode(w)
             h == Cpu!Handler(i)
             n == Cpu!Size(h)
             v == Bits(Cpu!Truncate(h, Cpu!Read(i.rt)))
  <2>2. Target(i) \in Addresses /\ n \in {1, 2, 4} /\ v \in Word
    BY <2>1, FetchedType, InstructionsType, TargetType, Sizes, BitsAreWord DEF MachineInv
  <2>3. \/ UNCHANGED << kuseg, bseg, dma_vars >>
        \/ Write(Target(i), n, v)
        \/ \E u : Read(Target(i), n, u)
    BY <2>1 DEF Execute, Serve
  <2> HIDE DEF i, n, v
  <2>4. running /\ ControlOK
    BY DEF cycle, Ready, MachineInv, BusInv
  <2>5. CASE UNCHANGED << kuseg, bseg, dma_vars >> \/ \E u : Read(Target(i), n, u)
    BY <2>5 DEF Read, Exit, vars, dma_vars
  <2> QED
    BY <2>2, <2>3, <2>4, <2>5, EndStartsNothing
<1> QED
  BY <1>1, <1>2 DEF cycle

(* Of all that a program may do, only the store of a word with the busy    *)
(* bit to the CHCR of a channel starts a transfer, of that channel, from   *)
(* its MADR, and only while DPCR enables a channel.                        *)
THEOREM StartsCorrect == ASSUME ArithmeticUnit PROVE MachineSpec => StartsAsAsked
<1> DEFINE c == transfer'.channel
           Asked == /\ bus'.op = "write" /\ bus'.size = 4 /\ bus'.addr = IoBase + \h88 + 16 * c
                    /\ Enabled \in Bits(bus'.val)
                    /\ \E d \in Channel : EnableBit(d) \in dpcr
                    /\ transfer'.addr \div 4 = RamAddress(channels[c].base_address) \div 4
<1>1. MachineInit => MachineInv
  BY InitHolds
<1>2. MachineInv /\ [MachineNext]_machine_vars => MachineInv'
  BY StepInv
<1>3. ASSUME MachineInv, MachineNext, transfer.phase = "none", transfer'.phase # "none"
      PROVE  Asked
  <2>1. cycle
    <3>1. ~Booting
      BY <1>3, BootLoads DEF Booting
    <3>2. ~Transfers
      BY <1>3 DEF Transfers, Transferring, block_word, block_done, list_entry, list_packet,
                  list_follow, list_done
    <3>3. ~Stopped
      BY <1>3 DEF Stopped, machine_vars, vars, dma_vars
    <3> QED
      BY <1>3, <3>1, <3>2, <3>3 DEF MachineNext
  <2>2. Accessed
    BY <1>3, <2>1, EndStartsNone, CycleAccess
  <2>3. /\ bus'.addr \in Addresses /\ bus'.size \in {1, 2, 4} /\ bus'.op = "write"
        /\ Write(bus'.addr, bus'.size, Bits(bus'.val))
    BY <1>3, <2>2 DEF Accessed, vars, dma_vars
  <2>4. /\ bus'.size = 4 /\ bus'.addr = IoBase + \h88 + 16 * c
        /\ Enabled \in Bits(bus'.val) /\ AnyEnabled
        /\ transfer'.addr \div 4 = RamAddress(channels[c].base_address) \div 4
    BY <1>3, <2>3, BitsAreWord, WriteStarts DEF MachineInv, BusInv
  <2> QED
    BY <2>3, <2>4 DEF AnyEnabled
<1>4. MachineInv /\ [MachineNext]_machine_vars
        => [transfer.phase = "none" /\ transfer'.phase # "none" => Asked]_machine_vars
  BY <1>3
<1> QED
  BY <1>1, <1>2, <1>4, PTL DEF MachineSpec, StartsAsAsked

=============================================================================
