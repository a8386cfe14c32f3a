SPECIFICATION FairBlinkSpec
CONSTANTS
  Cells = {c1, c2}
  Locations = {l1, l2}
  OffScreen = {far}
  Lengths <- MCLengths
  Width = 3
  Null = Null
INVARIANT BlinkListInv
PROPERTY Blinks
