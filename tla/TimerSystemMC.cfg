CONSTANTS
  Bits <- TimerBits
  Lines <- TimerLines
  SlotMod = 22
  RamSlots = 22
  CycleMod = 31
  MaxBatch = 30
  Firmware <- OnlyTimer
  NoRam = NoRam
  Benches <- AllBenches
  Period = 6
  WordMod = 64
  ClockTicks = 28
SPECIFICATION SysSpec
CHECK_DEADLOCK FALSE
INVARIANTS SysTypeOK OnTime SleepsBeforeEdge
PROPERTIES KeepsPeriod
