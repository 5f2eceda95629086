SPECIFICATION Spec
CONSTANTS
  CACHELINE_LEN = 2
  VERTEX_NUM = 4
  Degree <- MCDegree
  FIFO_SIZE = 1
  WAIT_END_DELAY = 1
  None = None
  MAX_ITERATION = 0
INVARIANTS
  TypeOK
  UpdateIsEdge
  LanesDisjoint
  OneLinePerJob
  BoundedQueues
PROPERTIES
  NoEdgeTwice
