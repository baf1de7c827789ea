SPECIFICATION Spec
CONSTANTS
  Blocks = {b1, b2, b3}
  Capacities = {1, 2, 3}
  Requests = {1, 2, 3, 4}
  SKIP_MAX_LEVEL = 2
  HEAD = HEAD
  NULL = NULL
SYMMETRY Symmetry
INVARIANTS Layered DeleteFindsItsBlock
PROPERTIES BestFitKept
