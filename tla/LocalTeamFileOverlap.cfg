SPECIFICATION Spec
CONSTANTS
  Task = {1}
  Exportable = {}
  Worker = {w1, w2}
  Command = {c1, c2}
  MaxEvents = 0
INVARIANT LeasedByOne
CHECK_DEADLOCK FALSE
