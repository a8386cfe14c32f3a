SPECIFICATION VideoSpec
CONSTANTS
  a = a
  b = b
  NumProcs = 3
  NumTerminals = 3
  Values <- MCValues
  PowerOn = PowerOn
  Blank = Blank
SYMMETRY MCSymmetry
INVARIANT MappingsFollow
PROPERTY ImplementsScreens
