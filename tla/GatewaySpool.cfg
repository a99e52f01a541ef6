SPECIFICATION Spec
CONSTANTS
  Processors = {p1, p2}
  Callers = {c1}
  Outcomes <- MCOutcomes
  MaxWrites = 1
  MaxEdits = 1
SYMMETRY Symmetry
INVARIANTS
  OneVerdict
  StatusMatchesEvidence
PROPERTIES
  ResponseStands
