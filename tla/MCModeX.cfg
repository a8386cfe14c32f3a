SPECIFICATION Spec
CONSTANTS
  SCROLL_X_DIM = 4
  SCROLL_Y_DIM = 2
  BLOCK_DIM = 2
  EXTRA = 4
  MEM_FENCE_WIDTH = 2
  SHOW_MIN = 1
  EdgeX = 6
  EdgeY = 3
  TARGET = 4
  BAR_DIM = 3
  CHARS = 2
  CHAR_DIM = 2
  Blocks <- MCBlocks
  Players <- MCPlayers
  Levels = {1, 2}
  Ticks = {0, 24}
CHECK_DEADLOCK FALSE
INVARIANTS
  BuildSound
  BarShown
  VgaSound
PROPERTY PictureShown
