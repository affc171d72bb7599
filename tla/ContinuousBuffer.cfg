SPECIFICATION BufferSpec
CONSTANTS
  Bytes = {a, b, nul}
  Nul = nul
  Size = 3
  Limit = 4
  MaxPush = 3
  MaxPop = 5
INVARIANT BufferTypeOK
PROPERTY ImplementsQueue
