SPECIFICATION MCSpec
CONSTANTS
  Resolvers = {r1, r2, r3}
  Waiters = {w1, w2}
INVARIANTS
  ApprovedOnlyExplicitly
  JustifiedAnswer
  UncontestedDecisionStands
PROPERTIES
  DecidedOnce
  DecidedInTimeStands
  LateResolutionsRejected
  WaitReturns
