SPECIFICATION FairSpec
CONSTANTS
  BITMAP_COMPRESSED_LENGTH = 2
  BITMAP_COMPRESSED_NUM_WIDTH = 3
  bitmap_compressed_num = 6
  VTX_NUM = 11
  InEdges = {0, 3, 8, 10}
  ITERATION_WIDTH = 4
  iteration_num = 4
  PREFETCH_SIZE = 4
  PREFETCH_FULL = 1
  STAGES = 3
  None = None
INVARIANTS
  TypeOK
PROPERTIES
  InStep
  ImplementsActiveSet
  Terminates
