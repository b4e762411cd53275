CONSTANTS
  r1 = r1
  r2 = r2
  NoReg = NoReg
  Regs <- MCRegs
  Prog <- MCProgLive
  MaxROBSize = 4
  PipeDepth = 2
  InstQueueSize = 2
  FetchWidth = 2
  IssueWidth = 2
  RetireWidth = 2
  NTotalRegs = 2
  Serialize = 1
  ForwardProgThreshold = 2
  MemoryReplay = TRUE
  scooreMemory = TRUE
  Throttling = TRUE
  ThrottleSkip = 3
  ThrottleCntrInit = {0, 1}

SPECIFICATION FairSpec


PROPERTY RecoveryCompletes
PROPERTY RenamedEventuallyRetires
