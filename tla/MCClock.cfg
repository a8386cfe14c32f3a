SPECIFICATION FairSpec
CONSTANTS
  Procs <- MCProcs
  HZ = 8
  Requests <- MCRequests
  Numbers <- MCNumbers
INVARIANTS
  ClockInv
  MasksAsAsked
  CountsExactly
PROPERTY ReadReturns
CHECK_DEADLOCK FALSE
