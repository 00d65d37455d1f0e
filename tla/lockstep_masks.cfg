SPECIFICATION Spec
CONSTANTS
  NWORDS = 1
  LANES = 2
  NADDRS = 2
  Byte <- Bits
  PC <- MCPC
  Reg <- MCReg
  A0 = "a0"
  Val <- Bits
  IR <- Ops
  Attr <- OpAttr
  Ecall = "ecall"
  Keep = keep
  InitArch <- Origin
  InitInsts <- MCInsts
  InitMem <- Cleared
  Exec <- MCExec
  Replies <- MCReplies
  MaxInsts = 9
  VCORE_TIMEOUT = 2
  MismatchInsts = 3
  MaxStall = 2
  Deferred <- Either
  VExec <- MCVExec
  FAULT_INTERVAL = 0
  X0 = "zero"
  OneBitOff <- MCFlip
  None = none
  Program <- Bytes
  Faults <- AllFaults
INVARIANT MemoriesAgree
CHECK_DEADLOCK FALSE
