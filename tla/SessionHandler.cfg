SPECIFICATION Spec
CONSTANTS
  Bytes = {Open, Close, Text, Junk, Nul}
  Open = Open
  Close = Close
  Text = {Text}
  Junk = Junk
  Nul = Nul
  Size = 2
  Limit = 4
  MaxChunk = 3
INVARIANTS TypeOK DepthMatchesContent
PROPERTY ImplementsFramer
