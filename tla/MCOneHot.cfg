\* one_hot_np with values below and inside the depth, every axis.
CONSTANTS
  Shapes <- MCShapes
  Depths <- MCDepths
  AxisVals <- MCAxisVals
  Vals <- MCValsIn
  MaxExt = 3
SPECIFICATION Spec
INVARIANT OneHotMatchesSpec
CHECK_DEADLOCK FALSE
