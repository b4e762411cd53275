CONSTANTS
  Threads = {t1, t2}
  MaxSkip = 2
  MaxCalls = 3

SPECIFICATION Spec

INVARIANT SkipsWithinGranted

\* Once every vCPU has called QEMUReader_finish no helper runs again.
CHECK_DEADLOCK FALSE
