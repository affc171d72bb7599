SPECIFICATION Spec
CONSTANTS
  Open = Open
  Close = Close
  Text = Text
  Responses <- TestResponses
  Endpoints = 2
  Limit = 7
INVARIANTS
  PrintsTheResponse
  NothingEndsSilently
PROPERTY AnswerEndsTheCommand
CHECK_DEADLOCK FALSE
