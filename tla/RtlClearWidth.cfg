\* The widths of accelerator.vh and a bitmap of 66 lines: 66 * 32 vertices of
\* a core, a quarter of VTX_NUM.
SPECIFICATION Spec
CONSTANTS
  BITMAP_COMPRESSED_LENGTH = 32
  BITMAP_COMPRESSED_NUM_WIDTH = 10
  bitmap_compressed_num = 66
  VTX_NUM = 2112
  InEdges = {}
  ITERATION_WIDTH = 4
  iteration_num = 1
  PREFETCH_SIZE = 16
  PREFETCH_FULL = 13
  STAGES = 1
  None = None
INVARIANTS
  SentIsClear
