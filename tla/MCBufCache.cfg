\* The log may pin two blocks of three buffers, so that bget runs out of
\* them; reads of block 2 may fail.
SPECIFICATION Spec
CONSTANTS
  Proc = {p1, p2}
  Buf = {b1, b2, b3}
  Block = {1, 2, 3, 4}
  v1 = v1
  v2 = v2
  Value = {v1, v2}
  Image <- MCImage
  Written = {1, 2}
  Faulty = {2}
  NoProc = NoProc
  NoBuf = NoBuf
  NoBlock = NoBlock
  Nests <- MCNests
  MaxPinned = 2
SYMMETRY Symmetry
INVARIANTS CacheSafe
PROPERTIES StoreSpec
