SPECIFICATION FairSpec
CONSTANTS
  Line = {15}
  Channel = 1
  RING = 3
  FIFO_SIZE = 1
  TRANS_QUEUE = 1
  DRAM_TICKS = 1
  None = None
PROPERTIES
  Delivered
