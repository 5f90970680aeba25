CONSTANTS
  Bits <- RunBits
  Lines <- OneLine
  SlotMod = 4
  RamSlots = 4
  CycleMod = 11
  MaxBatch = 3
  Firmware <- Images
  NoRam = NoRam
  Programs <- AllPrograms
  SuiteLen = 2
  Batch = 3
  MaxInsns = 7
  MaxStale = 2
SPECIFICATION RunFairSpec
CHECK_DEADLOCK FALSE
INVARIANTS RunTypeOK CountsInstructions CyclesBounded
PROPERTIES PassIsEarned RunnersEnd
