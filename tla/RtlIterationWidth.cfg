\* The widths of accelerator.vh and a bitmap of one line: sixteen iterations.
SPECIFICATION FairSpec
CONSTANTS
  BITMAP_COMPRESSED_LENGTH = 32
  BITMAP_COMPRESSED_NUM_WIDTH = 10
  bitmap_compressed_num = 1
  VTX_NUM = 1
  InEdges = {0}
  ITERATION_WIDTH = 4
  iteration_num = 16
  PREFETCH_SIZE = 16
  PREFETCH_FULL = 13
  STAGES = 1
  None = None
PROPERTIES
  Terminates
