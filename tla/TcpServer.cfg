SPECIFICATION Spec
CONSTANTS
  Ids = {1, 2}
  Size <- MCSize
  Room = 2
  Attempt = 1
  MaxChunks = 2
  MaxFailures = 1
INVARIANTS TypeOK StreamIsIntact ResponsesComeWhole FittingResponsesAreIntact
PROPERTIES ClientsAreAccepted HangupIsNoticed ResponsesArrive
CHECK_DEADLOCK FALSE
