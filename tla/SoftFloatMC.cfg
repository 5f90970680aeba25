CONSTANTS
  M = 6
  E = 4
  SM = 2
  SE = 3
  IntBits = 5
  WordBits = 8
  Far = 9
  Arguments <- AllArguments
SPECIFICATION FloatSpec
INVARIANTS  OrderIsNumeric
CHECK_DEADLOCK FALSE
