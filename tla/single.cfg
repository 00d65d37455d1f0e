SPECIFICATION SysFairSpec
CONSTANTS
  Prim = prim
  Reps = {}
  Absent = absent
  Requests <- MCRequests
  Transfers = {}
  NWORDS = 2
  LANES = 2
  NADDRS = 10
  Byte <- Bits
  PC <- MCPC
  Reg <- MCReg
  A0 = "a0"
  Val <- Bits
  IR <- Ops
  Attr <- OpAttr
  Ecall = "ecall"
  Keep = keep
  InitArch <- Origin
  InitInsts <- MCInsts
  InitMem <- MCMem
  Exec <- MCExec
  Replies <- MCReplies
  Models <- MCModels
  Rtl <- MCRtl
  AfterReset <- MCAfterReset
  Bus <- MCBus
  Report <- MCReport
  Edge <- MCEdge
  TrapTo <- MCTrapTo
  Behind <- MCBehind
  RtlReg <- MCRtlReg
  RtlReturned <- MCRtlReturned
  RtlArch <- MCRtlArch
  MaxInsts = 18
  Program <- Chained
INVARIANT SysTypeOK
INVARIANT CallsOnce
INVARIANT DesignConforms
PROPERTY OneClock
PROPERTY RunSpec
PROPERTY EndsUnlessSilent
PROPERTY EveryStepCounts
CHECK_DEADLOCK FALSE
