SPECIFICATION Spec
CONSTANTS
  Sessions = {s1, s2}
  Asserts = TRUE
INVARIANT RequestsComeFromSessions
