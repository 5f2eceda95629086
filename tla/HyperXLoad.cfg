\* Two nodes of one column flood one core: contention in both crossbars,
\* full buffers all the way back to the schedulers, updates that overtake
\* those of the other node but never their own.
SPECIFICATION FairSpec
CONSTANTS
  HPX_ROW_NUM = 2
  HPX_COLUMN_NUM = 2
  FIFO_SIZE = 1
  CLK_PERIOD = 2
  Vertex = {7}
  Source <- MCColumn
  None = None
  MAX_SENT = 4
INVARIANTS
  BoundedBuffers
PROPERTIES
  ChannelRefinement
  EndReached
