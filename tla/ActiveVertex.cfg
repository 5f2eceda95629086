SPECIFICATION FairSpec
CONSTANTS
  CORE_NUM = 2
  BitMap_Length = 2
  BitMap_NUM = 2
  VTX_NUM = 5
  InEdges = {0, 3, 4}
  MAX_ITERATION = 3
  None = None
INVARIANTS
  TypeOK
  CountIsMarks
PROPERTIES
  InStep
  ImplementsActiveSet
  Stops
CHECK_DEADLOCK FALSE
