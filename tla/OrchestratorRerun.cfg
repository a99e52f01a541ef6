SPECIFICATION Spec
CONSTANTS
  Streams = 1
  FileDiff = FALSE
  MaxRuns = 2
  Large <- LargeKinds
INVARIANTS
  EvidencePrecedesRunning
  StatusesAgree
