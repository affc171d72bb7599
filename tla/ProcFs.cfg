SPECIFICATION Spec
CONSTANTS
  Names <- TestNames
  Args <- TestArgs
  MaxLives = 2
INVARIANTS
  ToldWasTrue
  UndisturbedIsComplete
CHECK_DEADLOCK FALSE
