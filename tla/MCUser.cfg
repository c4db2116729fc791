SPECIFICATION MCSpec
CONSTANTS
  Token = {"a", "|", "&", ";", "(", ")", ">"}
  MaxTokens = 5
  RunLines <- LinesToRun
  MAXARGS = 3
  NPROC = 6
  HEADER = 2
  CHUNK = 5
  HEAPEND = 12
  Bytes = {1, 5}
  MaxBlocks = 3
  PatternChar = {"a", ".", "*", "^", "$"}
  MaxPattern = 3
  TextChar = {"a", "b", "/"}
  MaxInput = 5
  BUFSIZE = 5
  BSIZE = 2
  DIRENT = 1
  NDIRECT = 1
  NINDIRECT = 2
  IPB = 2
  NINODES = 4
  LOGSIZE = 2
  FSSIZE = 18
  FileSize = {0, 1, 3, 7}
  Part = {"shell", "malloc", "grep", "mkfs"}
INVARIANTS ParsesGrammar ForegroundEnds HeapDivided PrintsMatching ImageSound
PROPERTIES LineEnds
