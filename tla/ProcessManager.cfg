SPECIFICATION Spec
CONSTANTS
  Pids = {p1, p2}
  SessionIds = {s1, s2}
  TimeRange = 3
SYMMETRY Symmetry
INVARIANTS TypeOK ClientIsInSync DeletedWereNotFound
PROPERTIES NewcomersAreNew ImplementsLists
CHECK_DEADLOCK FALSE
