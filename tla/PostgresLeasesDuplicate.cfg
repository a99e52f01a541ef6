SPECIFICATION Spec
CONSTANTS
  Task = {1}
  Organization = {acme}
  Worker = {w1}
  Session = {s1, s2}
INVARIANT DuplicateFinishRejected
CHECK_DEADLOCK FALSE
