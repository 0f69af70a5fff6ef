SPECIFICATION MCSpec
CONSTANTS
  f1 = f1
  b1 = b1
  c1 = c1
  c2 = c2
  v1 = v1
  v2 = v2
  o1 = o1
  o2 = o2
  None = None
  MaxAttempts = 4
  CorrectionBudget = 1
  Signature = {f1}
  MaxHead = 2
  MaxApply = 1
  MaxReviews = 1
  MaxRefusals = 1
  Branch = {b1}
  MaxCommit = 2
  MaxByHand = 5
  Caller = {c1, c2}
  Version = {v1, v2}
  Operator = {o1, o2}
  MaxHistory = 3
  MaxTouched = 1
INVARIANTS ObserveBeforeRetry RuntimeWhole
PROPERTIES MergePermittedSoundly CleanupDoesWhatItVerified ClosedWhenClean RollbackRestores
CHECK_DEADLOCK FALSE
