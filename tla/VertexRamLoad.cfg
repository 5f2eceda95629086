\* One iteration under load: up to six updates against a queue that is full
\* at one, so that back pressure engages while conflicts hold the queue.
SPECIFICATION FairSpec
CONSTANTS
  v1 = v1
  v2 = v2
  Vertex = {v1, v2}
  Value = {1}
  None = None
  FLOAT_ADD_DELAY = 5
  WAIT_END_DELAY = 1
  FULL_SIZE = 1
  INV_E2 = 1
  Delta1Init = 1
  Delta2Init <- MCDelta2Init
  PrInit = 2
  MAX_ITERATION = 0
  MAX_UPDATES = 6
INVARIANTS
  NoHazard
  BoundedOvershoot
  PipelineInv
PROPERTIES
  EndFollows
