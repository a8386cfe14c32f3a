SPECIFICATION FairSpec
CONSTANTS
  MAX_LEVEL = 2
  Arrows = {0}
  Holds <- MCHolds
  MaxTicks = 2
  MaxKeys = 2
  MaxHolds = 1
  None = None
CHECK_DEADLOCK FALSE
INVARIANT ThreadsInv
PROPERTIES
  SteeredByArrows
  GameEnds
  ButtonsSteer
