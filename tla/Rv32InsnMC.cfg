CONSTANTS
  W = 15
  HostShift <- X86Shift
  Inputs <- AllInputs
  Operands <- EdgePairs
  MMIO_BASE = 16384
  NRegs = 8
SPECIFICATION InsnSpec
INVARIANTS InsnTypeOK MulDivLaws
PROPERTY CompressedExpands
CHECK_DEADLOCK FALSE
