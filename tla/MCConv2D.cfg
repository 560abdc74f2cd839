\* conv_2d_str with unit dilation: every size, filter, stride and pad.
CONSTANTS
  Sizes <- MCSizes
  KSizes <- MCKSizes
  StrideVals <- MCStrides
  DilVals <- MCDilOne
  PadVals <- MCPads
SPECIFICATION Spec
INVARIANTS ConvMatchesSpec
CHECK_DEADLOCK FALSE
