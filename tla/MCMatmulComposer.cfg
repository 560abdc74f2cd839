\* Every format and dtype combination, biases of the output's dtype.
CONSTANTS
  FmtAttrVals <- MCFmtAttrs
  PriFmtVals <- MCPriFmts
  OutFmtVals <- MCOutFmts
  DTypes <- MCDTypes
  BiasVals <- MCBias
  BiasSameType = TRUE
SPECIFICATION Spec
INVARIANT NumericPolicy
CHECK_DEADLOCK FALSE
