\* gather_nd_np on data of shape (2, 2, 2): K = 2 leaves slices of 2.
CONSTANTS
  Rank = 3
  DataShape <- MCShape222
  Strides <- MCStrides222
  N = 1
  IdxVals <- MCIdxVals222
  Path = "gather_nd_np"
SPECIFICATION Spec
INVARIANTS GatherInBoundsExact
CHECK_DEADLOCK FALSE
