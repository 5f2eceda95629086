\* Every node sends one update to any vertex: two of each core, so that the
\* row and the column of a vertex are not read off its id alone.
SPECIFICATION Spec
CONSTANTS
  HPX_ROW_NUM = 2
  HPX_COLUMN_NUM = 2
  FIFO_SIZE = 1
  CLK_PERIOD = 2
  Vertex = {1, 6, 7}
  Source <- MCCorner
  None = None
  MAX_SENT = 1
INVARIANTS
  TypeOK
  NoMisroute
  EndExcludesUpdate
  EndIsGlobal
PROPERTIES
  ChannelRefinement
