CONSTANTS
  Bits <- SomeBits
  Lines <- SomeLines
  SlotMod = 7
  RamSlots = 6
  CycleMod = 3
  MaxBatch = 2
  Firmware <- SomeImages
  NoRam = NoRam
SPECIFICATION FairSpec
INVARIANTS TypeOK ReturnsAccount CoreInv
PROPERTIES HandlerAtomic StalledStays PendingDelivered CallReturns
