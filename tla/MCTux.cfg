SPECIFICATION Spec
CONSTANTS
  TUXCTL_BUFSIZE = 6
  PacketRoom = 6
  Xmit = 10
  NLeds = 1
  Shown <- MCShown
  Chunks = {2, 6}
  Presses <- MCPresses
  MaxOpens = 1
  MaxIoctls = 3
  MaxPresses = 1
  MaxResets = 1
CHECK_DEADLOCK FALSE
INVARIANTS
  TuxInv
  ButtonsOfOneMoment
  CommandsWhole
  QuietAgree
