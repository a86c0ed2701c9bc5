SPECIFICATION StreamsSpec
CONSTANTS
  MaxBuffer = 2
  MaxInFlight = 2
INVARIANTS TornDownInOrder AbortsOnlyUnconnected
PROPERTIES
  CloseReleasesDestructor CloseIsNoticed DestructorReturns
