SPECIFICATION ReadSpec
CONSTANTS
  BlockSize = 2
  MaxBlocks = 3
  data_count = 2
  BlockNums <- MCBlockNums
  Lengths <- MCLengths
INVARIANT CopySound
