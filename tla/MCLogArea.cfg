\* Constants in the proportions of param.h, with calls that use all of their
\* reservation, and the area that mkfs makes, header included.  One value:
\* contents do not matter here.
SPECIFICATION Spec
CONSTANTS
  Proc = {p1, p2, p3}
  Block = {b1, b2, b3, b4}
  Val = {v0}
  InitVal = v0
  NoBlock = NoBlock
  InodeBlock = b1
  MAXOPBLOCKS = 1
  LOGSIZE = 3
  NLOG = 3
  OpBlocks = 1
SYMMETRY FullSymmetry
INVARIANTS LogFits
