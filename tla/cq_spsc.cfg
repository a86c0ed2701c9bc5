SPECIFICATION FairSpec
CONSTANTS
  Producers = {p1}
  Consumers = {c1}
  Items = {a, b}
  NoItem = NoItem
  N = 4
  UIntMod = 8
  PostPermits = 0
INVARIANTS NoSlotRace
PROPERTIES ImplementsFifo PushReturns
