SPECIFICATION MCSpec
CONSTANTS
  Task = {1, 2}
  Organization = {acme}
  Worker = {w1, w2}
  Session = {s1, s2}
  QueuedTask = {1, 2, 3}
  QueueOrganization = {acme, beta}
  Exportable = {1, 2}
  Command = {c1}
  MaxEvents = 1
  RunTask = {source, target}
  IndexedTask = {source}
  Runner = {r1}
  Replayer = {p1}
  Refresher = {x1, x2}
  Path = {file, own}
  Internal = {own}
  MaxEdits = 2
  MaxRuns = 2
SYMMETRY Symmetry
INVARIANTS
  AckedIsFinished
  ExportsAreBacked
  DerivedFilesHold
PROPERTIES
  LeaseContract
  QueueContract
  FileContract
  DamageIsNotForgotten
  ReplayFailsClosed
  DiffTellsTheRun
CHECK_DEADLOCK FALSE
