\* No block is pinned and no buffer recycled: locks and the disk queue.
SPECIFICATION FairSpec
CONSTANTS
  Proc = {p1, p2}
  Buf = {b1, b2, b3}
  Block = {1, 2, 3}
  v1 = v1
  v2 = v1
  Value = {v1}
  Image <- MCImage
  Written = {1, 2}
  Faulty = {2}
  NoProc = NoProc
  NoBuf = NoBuf
  NoBlock = NoBlock
  Nests <- MCNests
  MaxPinned = 0
PROPERTIES BreadReturns
