\* Two vertices, up to two updates per iteration, three iterations: every
\* pair of updates (same or different vertex, back to back or apart) meets
\* the conflict window, both parities and a delta tagged two iterations ago.
SPECIFICATION Spec
CONSTANTS
  v1 = v1
  v2 = v2
  Vertex = {v1, v2}
  Value = {1, 3}
  None = None
  FLOAT_ADD_DELAY = 2
  WAIT_END_DELAY = 1
  FULL_SIZE = 1
  INV_E2 = 1
  Delta1Init = 1
  Delta2Init <- MCDelta2Init
  PrInit = 2
  MAX_ITERATION = 2
  MAX_UPDATES = 2
INVARIANTS
  TypeOK
  NoErrorExit
  EndIsComplete
  SourceIsFresh
PROPERTIES
  SourceBankStable
  StoreRefinement
