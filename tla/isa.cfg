SPECIFICATION Spec
CONSTANTS
  CellBits <- MCCellBits
  INITIAL_PC <- MCInitialPC
  INITIAL_SP <- MCInitialSP
  Programs <- MCPrograms
  Starts <- MCStarts
  Listing <- MCListing
  MaxInsts = 5
INVARIANTS TypeOK EntersProgram
PROPERTIES LogShowsAccess ImplementsISA
CHECK_DEADLOCK FALSE
