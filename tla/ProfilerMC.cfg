CONSTANTS
  Bits <- ProfBits
  Lines <- OneLine
  SlotMod = 8
  RamSlots = 8
  CycleMod = 13
  MaxBatch = 3
  Firmware <- Images
  NoRam = NoRam
  Names <- ThreeNames
  Listing <- Listings
  MaxInsns = 9
SPECIFICATION ProfSpec
INVARIANTS ProfTypeOK EdgesExact CallsCoverEdges
