\* Two processors and two processes: each may be without the other.
SPECIFICATION FairSpec
CONSTANTS
  CPU = {c1, c2}
  NPROC = 2
INVARIANTS SchedSafe NoLostWakeup
PROPERTIES RunnableRuns
