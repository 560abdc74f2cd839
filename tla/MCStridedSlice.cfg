\* begin/end masks with strides of both signs and sizes; pass-through and
\* new-axis and shrink axes (not both at once) with unit strides.
CONSTANTS
  Shape <- MCShape
  BeginVals <- MCBeginVals
  EndVals <- MCEndVals
  StrideVals <- MCStrideVals
  MaskVals <- MCMaskAxisOps
  InputOK <- MCUnitStrideForAxisOps
SPECIFICATION Spec
INVARIANT SliceMatchesSpec
CHECK_DEADLOCK FALSE
