SPECIFICATION Spec
CONSTANTS
  Symbols <- AllSymbols
  OutOfRange <- TooLarge
  Families <- AllFamilies
INVARIANTS AcceptsJson RoundTrip
CHECK_DEADLOCK FALSE
