SPECIFICATION TasksSpec
CONSTANTS
  NumParticles = 3
  MaxIterations = 2
  UnknownLandmarks = TRUE
  Chars = {a, b, ff}
  Byte255 = ff
  EOF = EOF
  MaxTyped = 3
  MaxQueue = 1
  MaxDatagrams = 3
  NumFiles = 2
INVARIANTS
  TasksStayApart WeightsAreCurrent NothingLost OneLateRead SocketOutlivesThread
  NothingIsSent
PROPERTIES FilterEnds DestructorReturns DatagramReleasesDestructor MainCompletes
