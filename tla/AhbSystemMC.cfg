CONSTANTS
  Bits <- AhbBits
  Lines <- AhbLines
  SlotMod = 17
  RamSlots = 17
  CycleMod = 64
  MaxBatch = 24
  Firmware <- OnlyAhb
  NoRam = NoRam
  Word <- OneBit
  Timeout = 8
  Batches <- EnoughBatches
SPECIFICATION SysFairSpec
CHECK_DEADLOCK FALSE
INVARIANTS SysTypeOK SelfTestPasses
PROPERTIES NoStaleTrap SelfTestEnds
