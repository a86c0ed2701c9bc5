SPECIFICATION Spec
CONSTANTS
  Producers = {p1}
  Consumers = {c1}
  Items = {a}
  NoItem = NoItem
  N = 2
  UIntMod = 4
  PostPermits = 1
INVARIANT CapacityRespected
