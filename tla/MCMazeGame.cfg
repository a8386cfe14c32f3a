SPECIFICATION Spec
CONSTANTS
  XDim = 2
  YDim = 2
  StartFruits = 2
  ScanBelow = 2
  MaxTrials = 1
  GOD_MODES = {TRUE, FALSE}
  BLOCK_DIM = 4
  SHOW_MIN = 2
  SCROLL_X_DIM = 12
  SCROLL_Y_DIM = 12
  PAN_BORDER = 1
CHECK_DEADLOCK FALSE
INVARIANTS
  MazeInv
  ConnectGetsOn
  OnPath
  PlayerFramed
  ScreenCurrent
