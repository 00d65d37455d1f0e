SPECIFICATION Spec
CONSTANTS
  Prim = prim
  Reps = {r1, r2}
  NWORDS = 1
  LANES = 1
  NADDRS = 2
  Byte <- Bits
  Requests <- WordRequests
  Transfers <- WordTransfers
  Absent = absent
INVARIANT TypeOK
PROPERTY PrivateSpec
PROPERTY CommittedByPrimary
PROPERTY NothingLeftToCommit
PROPERTY PrivateSteps
