SPECIFICATION Spec
CONSTANTS
  Frames = 3
  BufferBlocks = 4
  Latencies = {0, 1, 2, 3, 4, 5, 6, 7, 8, 9}
  MaxBlocks = 14
INVARIANTS
  DumpedIsTheTake
  WritesStayInside
CHECK_DEADLOCK FALSE
