SPECIFICATION Spec
CONSTANTS
  Symbols <- AllSymbols
  OutOfRange <- TooLarge
  Families <- Numbers
INVARIANTS AcceptsNumbers
CHECK_DEADLOCK FALSE
