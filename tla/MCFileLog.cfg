SPECIFICATION MCSpec
CONSTANTS
  p1 = p1
  p2 = p2
  i1 = i1
  i2 = i2
  o1 = o1
  o2 = o2
  o3 = o3
  Proc = {p1}
  NoProc = NoProc
  Inode = {i1}
  Open = {o1}
  InodeOf <- OneFile
  BSIZE = 1
  NDIRECT = 12
  NINDIRECT = 2
  NBLOCKS = 20
  LOGSIZE = 30
  MAXOPBLOCKS = 10
  Str <- LongString
  ReadLength = {3}
  MaxCalls = 4
  FProc = {1, 2}
  NFILE = 3
  NOFILE = 2
  NPIPE = 2
  VProc = {1, 2}
  NPAGES = 14
  PGSIZE = 2
  KERNBASE = 13
  WORD = 16
  LEVELS = 1
  Delta <- Deltas
  Program <- Programs
  Reader = {1, 2}
  Sleeper = {3, 4}
  INPUT_BUF = 4
  UINT = 8
  Start = 6
  Nap <- Naps
  ReadSize = {1, 3}
  MaxKeys = 5
  MaxTicks = 7
  Part = {"data"}
INVARIANTS FitsReservation
