CONSTANTS
  r1 = r1
  r2 = r2
  NoReg = NoReg
  Regs <- MCRegs
  Prog <- MCProgLive
  MaxROBSize = 4
  PipeDepth = 2
  InstQueueSize = 2
  FetchWidth = 2
  IssueWidth = 2
  RetireWidth = 2
  NTotalRegs = 2
  Serialize = 1
  ForwardProgThreshold = 2
  MemoryReplay = FALSE
  scooreMemory = TRUE
  \* throttlingRatio 2 at turbo 1: skip = 2.
  Throttling = TRUE
  ThrottleSkip = 2
  ThrottleCntrInit = {0, 1}

SPECIFICATION Spec

INVARIANT ThrottleHonoursRatio
