CONSTANTS
  r1 = r1
  r2 = r2
  NoReg = NoReg
  Regs <- MCRegs
  Prog <- MCProg
  MaxROBSize = 4
  PipeDepth = 2
  InstQueueSize = 2
  FetchWidth = 2
  IssueWidth = 2
  RetireWidth = 2
  NTotalRegs = 3
  Serialize = 1
  ForwardProgThreshold = 3
  MemoryReplay = TRUE
  scooreMemory = TRUE
  Throttling = FALSE
  ThrottleSkip = 1
  ThrottleCntrInit = {0}

SPECIFICATION Spec


INVARIANT ROBHoldsMaxROBSize
