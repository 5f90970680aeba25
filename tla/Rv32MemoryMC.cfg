CONSTANTS
  BYTE = 4
  TOP = 256
  MMIO_BASE = 64
  MMIO_SIZE = 12
  NRegs = 1
  HTIF = 128
  MAGIC <- Magic
  HIGH = 120
  HighRam = 16
  MinRam = 8
  Page = 4
  MaxRam = 16
  RamSizes <- SomeSizes
  Programs <- SomePrograms
  Images <- SomeImages
  Addrs <- SomeAddrs
  Words <- SomeWords
  MaxOps = 2
SPECIFICATION MemSpec
INVARIANTS MemTypeOK CrashOnlyAtTop ExitIsTohost LoadersPlace
PROPERTIES RamIsFlat DeviceIsFlat
