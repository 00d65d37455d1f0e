SPECIFICATION Spec
CONSTANTS
  CellBits <- MCCellBits
  INITIAL_PC <- MCInitialPC
  INITIAL_SP <- MCInitialSP
  Programs <- FarPrograms
  Starts <- MCStarts
  Listing <- MCListing
  MaxInsts = 5
PROPERTIES ImplementsISA
CHECK_DEADLOCK FALSE
