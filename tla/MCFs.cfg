SPECIFICATION Spec
CONSTANTS
  p1 = p1
  p2 = p2
  Proc = {p1, p2}
  NoProc = NoProc
  NINODES = 3
  Name = {"a", "b"}
  Request <- Requests
  MaxLink = 2
  MaxCrash = 1
  AllocDuringIput = FALSE
INVARIANTS InodeCache LinkCounts NamedIsAllocated NoLeak NoDeadlock
SYMMETRY Symmetry
