SPECIFICATION MCSpec
CONSTANTS
  Cells = 4
  MaxPacket = 2
  MaxCount = 3
  Fresh <- FreshEntry
  Channel = {2, 6}
  EnableWrites <- Enables
  DicrWrites <- Acks
  CountWrites = {0, 1, 3}
  ChcrWrites <- Controls
  BaseWrites = {0, 2}
INVARIANT OnlyEnabledChannels
