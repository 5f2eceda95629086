SPECIFICATION Spec
CONSTANTS
  Line = {15, 16}
  Channel = 1
  RING = 3
  FIFO_SIZE = 1
  TRANS_QUEUE = 2
  DRAM_TICKS = 2
  None = None
INVARIANTS
  TypeOK
  AnswersMatch
PROPERTIES
  ImplementsOrderedMemory
