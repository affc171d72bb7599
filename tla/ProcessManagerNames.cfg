SPECIFICATION Spec
CONSTANTS
  Pids = {p1, p2}
  SessionIds = {s1, s2}
  TimeRange = 3
INVARIANT BagsHaveTheirKeysNames
CHECK_DEADLOCK FALSE
