SPECIFICATION Spec
CONSTANTS
  CommandLines <- MCLines
  Operands = {2, 3}
  BaseDirs <- MCBases
  Dirs <- MCDirs
  Disks <- MCDisks
  Missing = missing
  Empty = ""
  NWORDS = 8
  INITIAL_PC = 2
  INITIAL_SP = 6
  MIN_STACK = 2
  LIMITS = 100000000
  Jal <- MCJal
INVARIANT TypeOK
INVARIANT RunsInBaseDir
INVARIANT CoresToRun
INVARIANT EntryIntact
INVARIANT ProgramLoaded
CHECK_DEADLOCK FALSE
