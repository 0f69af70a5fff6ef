SPECIFICATION MCSpec
CONSTANTS
  c1 = c1
  c2 = c2
  i1 = i1
  i2 = i2
  l1 = l1
  l2 = l2
  Nobody = Nobody
  Unpinned = Unpinned
  Capture = {c1, c2}
  MaxVersion = 1
  Item = {i1, i2}
  EventBound = 7
  LaunchId = {l1, l2}
  MaxPackage = 1
INVARIANTS AcceptedReviewSound EvidenceInPlace ParserAgrees RootOutlivesRegistration
PROPERTIES ViewReleased DegradedReviewSound
CHECK_DEADLOCK FALSE
