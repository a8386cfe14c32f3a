SPECIFICATION FairSpec
CONSTANTS
  sh = sh
  prog = prog
  text = text
  none = none
  NumProcs = 4
  NumTerminals = 3
  Programs <- MCPrograms
  DataFiles <- MCDataFiles
  Shell = sh
  NoImage = none
INVARIANTS
  KernelInv
  EoiOwed
  RootsAreShells
PROPERTIES
  OwnTerminalOnly
  TerminalsServed
  ImplementsShellStacks
