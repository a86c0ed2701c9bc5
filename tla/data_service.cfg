SPECIFICATION Spec
CONSTANTS
  Instances = {p, q}
  MaxStarts = 3
SYMMETRY Symmetry
INVARIANTS MissingRowIsRow1 ServesUntilSpoiled
PROPERTIES IdsNeverReused
