SPECIFICATION FairSpec
CONSTANTS
  NWORDS = 1
  LANES = 2
  NADDRS = 2
  Byte <- Bits
  PC <- MCPC
  Reg <- MCReg
  A0 = "a0"
  Val <- Bits
  IR <- Ops
  Attr <- OpAttr
  Ecall = "ecall"
  Keep = keep
  InitArch <- Origin
  InitInsts <- MCInsts
  InitMem <- Cleared
  Exec <- MCExec
  Replies <- MCReplies
  MaxInsts = 13
  VCORE_TIMEOUT = 2
  MismatchInsts = 3
  MaxStall = 3
  Deferred <- Either
  VExec <- MCVExec
  FAULT_INTERVAL = 2
  X0 = "zero"
  OneBitOff <- MCFlip
  None = none
  Program <- Whole
  Faults <- AllFaults
INVARIANT TypeOK
INVARIANT CountsAgree
INVARIANT MemoriesAgree
INVARIANT LastInstructions
PROPERTY GoesOnOnlyAfterBoth
PROPERTY HostSeesReference
PROPERTY Termination
PROPERTY EveryStepCounts
CHECK_DEADLOCK FALSE
