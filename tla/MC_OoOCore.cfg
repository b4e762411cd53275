CONSTANTS
  r1 = r1
  r2 = r2
  NoReg = NoReg
  Regs <- MCRegs
  Prog <- MCProg
  MaxROBSize = 5
  PipeDepth = 2
  InstQueueSize = 2
  FetchWidth = 2
  IssueWidth = 2
  RetireWidth = 2
  NTotalRegs = 2
  Serialize = 2
  ForwardProgThreshold = 4
  MemoryReplay = TRUE
  scooreMemory = TRUE
  Throttling = FALSE
  ThrottleSkip = 1
  ThrottleCntrInit = {0}

SPECIFICATION Spec

INVARIANT TypeOK
INVARIANT RegBudgetConserved
INVARIANT RATTracksYoungestProducer
INVARIANT DataDependenceRespected
INVARIANT ReplayFlushesTail

INVARIANT SerializedMemoryOrder
INVARIANT SerializedPointersLive

PROPERTY InOrderCommitSpec
