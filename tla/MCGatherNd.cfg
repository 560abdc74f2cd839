\* gather_nd_np on data of shape (2, 3), K = 1 or 2, two index tuples.
CONSTANTS
  Rank = 2
  DataShape <- MCShape23
  Strides <- MCStrides23
  N = 2
  IdxVals <- MCIdxVals23
  Path = "gather_nd_np"
SPECIFICATION Spec
INVARIANTS TypeOK GatherOOBZero GatherInBoundsExact
PROPERTIES Termination GatherRefines
CHECK_DEADLOCK FALSE
