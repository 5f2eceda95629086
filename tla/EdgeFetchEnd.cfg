SPECIFICATION FairSpec
CONSTANTS
  CACHELINE_LEN = 2
  VERTEX_NUM = 3
  Degree <- MCThreeVertices
  FIFO_SIZE = 1
  WAIT_END_DELAY = 0
  None = None
  MAX_ITERATION = 1
INVARIANTS
  EndIsComplete
PROPERTIES
  EndReached
