CONSTANTS
  Word <- Words
  Timeout = 8
SPECIFICATION BusSpec
INVARIANTS BusTypeOK Answered QuietBetween
PROPERTY AtomicAccess
