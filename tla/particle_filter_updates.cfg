SPECIFICATION Spec
CONSTANTS
  NumParticles = 2
  MaxIterations = 2
  UnknownLandmarks = FALSE
INVARIANTS RunsAllUpdates
