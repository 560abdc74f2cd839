\* conv_2d_str with dilation 2: out_h and out_w ignore the dilation.
CONSTANTS
  Sizes <- MCSizes
  KSizes <- MCKSizes
  StrideVals <- MCStrides
  DilVals <- MCDilTwo
  PadVals <- MCPads
SPECIFICATION Spec
INVARIANTS ConvMatchesSpec
CHECK_DEADLOCK FALSE
