\* Scatter-add of two index tuples into data of shape (2, 3), K = 1 or 2.
CONSTANTS
  Rank = 2
  DataShape <- MCShape23
  Strides <- MCStrides23
  N = 2
  IdxVals <- MCIdxVals23
  IndexNdim = 2
SPECIFICATION Spec
INVARIANTS TypeOK ScatterMatchesReference
PROPERTIES Termination
CHECK_DEADLOCK FALSE
