SPECIFICATION SysSpec
CONSTANTS
  Prim = prim
  Rep = rep
  Reps = {rep}
  Absent = absent
  Requests <- Quiet
  Transfers = {}
  NWORDS = 2
  LANES = 2
  NADDRS = 4
  Byte <- Bits
  PC <- MCPC
  Reg <- MCReg
  A0 = "a0"
  Val <- Bits
  IR <- Ops
  Attr <- OpAttr
  Ecall = "ecall"
  Keep = keep
  InitArch <- Origin
  InitInsts <- MCInsts
  InitMem <- MCMem
  Exec <- MCExec
  Replies <- MCReplies
  MaxInsts = 10
  VCORE_TIMEOUT = 2
  MismatchInsts = 0
  MaxStall = 2
  Deferred <- Either
  VExec <- MCVExec
  FAULT_INTERVAL = 0
  X0 = "zero"
  OneBitOff <- MCFlip
  None = none
  Program <- Mixed
  Faults <- MCFaults
INVARIANT PrimaryDrained
PROPERTY LoopSpec
PROPERTY HostSeesProgram
CHECK_DEADLOCK FALSE
