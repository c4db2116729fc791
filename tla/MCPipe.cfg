\* Two writers, one of which also reads, and two readers that compete for
\* the bytes one by one.  A write is longer than the buffer, so that it
\* sleeps in the middle and may be killed there with the buffer full; the
\* counters wrap.
SPECIFICATION MCSpec
CONSTANTS
  Proc = {p1, p2, p3}
  NoProc = NoProc
  Writer = {p1, p2}
  Reader = {p2, p3}
  Byte = {0, 1, 2, 3}
  PIPESIZE = 2
  WORD = 4
  ReadLengths = {1}
  WriteLengths = {3}
CHECK_DEADLOCK FALSE
INVARIANTS PipeSafe
PROPERTIES ChannelSpec WaitersReturn
