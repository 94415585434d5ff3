SPECIFICATION ExceptionSpec
CONSTANTS
  WordSize = 256
  HalfSize = 16
  ByteSize = 4
  Region = 64
  WordBits = 8
  IsCBit = 64
  BEVBit = 128
  RamVector = 64
  RomVector = 192
  ResetPC = 128
  HiReset = 5
  LoReset = 6
  Alu <- AluOf
  MulDiv <- MulDivOf
  Merge <- MergeOf
  Fetch <- UserFetch
  MemData <- UserData
  BootCop <- StatusBoot
  StaleStack <- Stale
PROPERTIES EpcNamesFaulting ResumesInterrupted HandlerReturns PipelineSafety
