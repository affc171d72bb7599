SPECIFICATION Spec
CONSTANTS
  Sessions = {s1, s2}
  Asserts = TRUE
INVARIANTS TypeOK HandlersOutliveTheirRequests
  ManagerKnowsTheSessions ThreadIsJoined OneServerRuns
PROPERTY StopEndsTheProcess
