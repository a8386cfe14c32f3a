SPECIFICATION ImageSpec
CONSTANTS
  FILENAME_LEN = 2
  NUM_FILES = 3
  Chars = {a, b}
  NUL = NUL
  Magic = 2
  Kinds <- MCKinds
  Filetype <- MCFiletype
  Size <- MCSize
  Sound <- MCSound
  Executable <- MCExecutable
INVARIANTS
  NamesFind
  LoadedWhole
CHECK_DEADLOCK FALSE
