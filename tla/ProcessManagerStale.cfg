SPECIFICATION Spec
CONSTANTS
  Pids = {p1, p2}
  SessionIds = {s1, s2}
  TimeRange = 3
INVARIANT DiffListsOnlyFound
CHECK_DEADLOCK FALSE
