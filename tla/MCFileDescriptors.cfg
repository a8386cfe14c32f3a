SPECIFICATION Spec
CONSTANTS
  short = short
  long = long
  NumFds = 5
  NumEntries = 2
  Regular <- MCRegular
  FileLength <- MCLength
  Corrupt = {}
  Directory = dir
  Clock = rtc
  Requests <- MCRequests
  NoFile = none
INVARIANTS
  EntriesOk
  PositionCountsBytes
PROPERTY DescriptorsKept
