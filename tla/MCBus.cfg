SPECIFICATION MCSpec
CONSTANTS
  ByteBits = 8
  AddrBits = 4
  RamSize = 16
  BiosSize = 4
  Space = 1073741824
  Null = Null
  Fault <- NoAnswer
  Unknown <- NoMemory
  Fill <- RamFill
  Channel = {2, 6}
  Slot <- SlotOf
  BiosBase = 532676608
  IoBase = 528486400
  Expansion1 = 520093824
  CacheCtrl = 1073611056
  Wild <- Stray
  Data <- DriverData
  Files <- SomeFiles
INVARIANTS TypeOK ActiveIsCurrent
PROPERTIES ReadsLastStored  Answered DmaSafety DmaProgress
