CONSTANTS
  Writers = {w1, w2}
  Messages <- AllMessages
  Packed <- AllPacked
  Crc <- AllCrc
  Processors <- AllProcessors
  LargeMessageThreshold = 65550
  CompressionThreshold = 1024
  NoData = NoData
  MaxSends = 2
  MaxReads = 2
  MediumTotal = 1048576
  LargeTotal = 104857600
SPECIFICATION FairSpec
INVARIANTS
  TypeOK
  InStep
  CallsCounted
PROPERTY FrameReadEnds
CHECK_DEADLOCK FALSE
