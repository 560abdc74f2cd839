\* Which nodes make generation raise, with and without bias.
CONSTANTS
  FmtAttrVals <- MCFmtAttrs
  PriFmtVals <- MCPriFmts
  OutFmtVals <- MCOutFmts
  DTypes <- MCDTypes
  BiasVals <- MCBias
  BiasSameType = TRUE
SPECIFICATION Spec
INVARIANT RaisesOnlyUnsupported
CHECK_DEADLOCK FALSE
