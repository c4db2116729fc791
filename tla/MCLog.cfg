\* Two calls fit an empty log, one a log in use, so that of three processes
\* one waits; two blocks of two values each, so that what a crash leaves
\* behind can be told apart.
SPECIFICATION FairSpec
CONSTANTS
  Proc = {p1, p2, p3}
  Block = {b1, b2}
  Val = {v0, v1}
  InitVal = v0
  NoBlock = NoBlock
  InodeBlock = b1
  MAXOPBLOCKS = 4
  LOGSIZE = 8
  NLOG = 8
  OpBlocks = 2
INVARIANTS TypeOK QuiescentDurable NoMissedWakeup
PROPERTIES TxSpec WriteAhead SleeperWakes
