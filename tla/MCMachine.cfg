SPECIFICATION MachineHistorySpec
CONSTANTS
  ByteBits = 4
  AddrBits = 6
  RamSize = 64
  BiosSize = 256
  Space = 65536
  Null = Null
  Fault <- NoAnswer
  Fill <- TheFill
  Channel = {2, 6}
  Slot <- TheSlot
  BiosBase = 7168
  IoBase = 2048
  Expansion1 = 1024
  CacheCtrl = 65000
  Unknown = Unknown
  Wild <- TheStray
  Data = {}
  Files <- TheFiles
  WordSize = 65536
  HalfSize = 256
  ByteSize = 16
  Region = 4096
  Alu <- AluOf
  MulDiv <- MulDivOf
  Merge <- MergeOf
  IsCBit = 256
  BEVBit = 512
  RamVector = 32800
  RomVector = 48192
  BootCop <- TheBoot
  StaleStack <- ZeroStale
  ResetPC = 48128
  HiReset = 5
  LoReset = 6
  Instructions <- Decodable
  MemData <- TheData
  Decode <- TheDecode
INVARIANTS MachineTypeOK BiosOrNothing EndsAsAsked
PROPERTIES BiosCompletes ProcessorSafety StartsAsAsked ReadsLastStored 
