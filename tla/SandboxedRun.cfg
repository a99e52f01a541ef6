SPECIFICATION MCSpec
CONSTANTS
  first = first
  again = again
  other = other
  Run <- MCRun
  DockerRun <- MCRun
  Name <- MCName
  Timed <- MCTimed
  Streams = 0
  FileDiff = FALSE
  MaxRuns = 2
  Large = {}
  StartOf <- MCStartOf
INVARIANTS
  SuccessIsTheAgents
  NothingRunsOn
  AgentIsOnRecord
PROPERTIES
  ClientsEnd
CHECK_DEADLOCK FALSE
