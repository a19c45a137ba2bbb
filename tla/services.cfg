SPECIFICATION FairSpec
CONSTANTS
  Callers = {p1, p2, p3}
  MaxMade = 2
  None = None
  MayRefuse = TRUE
INVARIANTS TypeOK MapTellsTruth StoppedByOne
PROPERTIES CallsReturn ActsLikeOneService
