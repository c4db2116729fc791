\* Four slots for five pids, so that slots are reused; kill names pid 3.  The
\* system may stop: a panic halts it, and no fork happens past MaxPid.
SPECIFICATION FairSpec
CONSTANTS
  NPROC = 4
  MaxPid = 5
  KillArgs <- KillFew
CHECK_DEADLOCK FALSE
INVARIANTS ProcTable NoLostChildExit
PROPERTIES ProcessesEnd
