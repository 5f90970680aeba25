CONSTANTS
  Bits <- RunBits
  Lines <- OneLine
  SlotMod = 4
  RamSlots = 4
  CycleMod = 11
  MaxBatch = 3
  Firmware <- Images
  NoRam = NoRam
  Programs <- OnlyExits
  SuiteLen = 1
  Batch = 3
  MaxInsns = 7
  MaxStale = 2
SPECIFICATION RunSpec
CHECK_DEADLOCK FALSE
PROPERTY ExitZeroPasses
