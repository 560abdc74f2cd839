\* The registry's GatherNd (numpy advanced indexing) on data of shape (2, 3).
CONSTANTS
  Rank = 2
  DataShape <- MCShape23
  Strides <- MCStrides23
  N = 2
  IdxVals <- MCIdxVals23
  Path = "registry"
SPECIFICATION RegistrySpec
INVARIANTS GatherOOBZero
CHECK_DEADLOCK FALSE
