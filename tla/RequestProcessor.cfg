SPECIFICATION Spec
CONSTANTS
  Names <- TestNames
  Texts <- TestTexts
  Registry <- ServerRegistry
  CutKeys <- NulKeys
  MaxDepth = 4
  Requests <- TestRequests
  NotJson = NotJson
  Infos <- TestInfos
  Listings <- TestListings
  NoId = NoId
INVARIANTS
  HandlersGetTheRequest
  AnswerIsReadBack
  AnswerIsMatched
  AnswerTellsOutcome
  OnlyFaultsTerminate
CHECK_DEADLOCK FALSE
