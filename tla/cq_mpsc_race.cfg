SPECIFICATION Spec
CONSTANTS
  Producers = {p1, p2}
  Consumers = {c1}
  Items = {a}
  NoItem = NoItem
  N = 2
  UIntMod = 4
  PostPermits = 0
INVARIANT NoSlotRace
SYMMETRY Symmetry
