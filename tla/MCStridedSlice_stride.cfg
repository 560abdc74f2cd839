\* Pass-through and new axes with strides other than 1.
CONSTANTS
  Shape <- MCShape
  BeginVals <- MCBeginVals
  EndVals <- MCEndVals
  StrideVals <- MCStrideVals
  MaskVals <- MCMaskPassThrough
  InputOK <- MCAnyInput
SPECIFICATION Spec
INVARIANT SliceMatchesSpec
CHECK_DEADLOCK FALSE
