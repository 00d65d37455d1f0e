SPECIFICATION Spec
CONSTANTS
  File = {f, g}
  TooLong = TooLong
  HostFds = 5
  VirtualFds <- MCVirtualFds
  Break <- MCBreak
  SECOND = 2
  NSEC = 10
  MaxInsts = 5
INVARIANT TypeOK
INVARIANT StandardStaysOpen
INVARIANT OwnFiles
INVARIANT PrivateOutOfReach
PROPERTY ProgramsFiles
PROPERTY TimeTold
CHECK_DEADLOCK FALSE
