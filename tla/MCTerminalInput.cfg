SPECIFICATION TextFairSpec
CONSTANTS
  x = x
  y = y
  Size = 3
  Letters <- MCLetters
  Newline = nl
  Nul = nul
  Requests <- MCRequests
  NUM_COLS = 2
  NUM_ROWS = 2
  Outputs <- MCOutputs
  Panics <- MCPanics
CHECK_DEADLOCK FALSE
INVARIANT ScreenSound
PROPERTIES
  ImplementsQueue
  ReadReturns
