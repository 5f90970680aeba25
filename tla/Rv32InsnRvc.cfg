CONSTANTS
  W = 15
  HostShift <- X86Shift
  Inputs <- FrameInputs
  Operands <- NoPairs
  MMIO_BASE = 16384
  NRegs = 8
SPECIFICATION InsnSpec
PROPERTY CompressedIsRvc
CHECK_DEADLOCK FALSE
