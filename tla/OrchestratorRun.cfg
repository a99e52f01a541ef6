SPECIFICATION Spec
CONSTANTS
  Streams = 2
  FileDiff = TRUE
  MaxRuns = 1
  Large <- LargeKinds
INVARIANTS
  StartAuthorised
  DeniedLeavesEvidence
  CleanOutcome
  NoSilentLeak
PROPERTIES
  Lifecycle
