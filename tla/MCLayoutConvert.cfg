\* Chains of up to four TransData nodes on shapes of rank 1 to 3 around the
\* tile boundary, where no crop of rank 3 or 4 is needed.
CONSTANTS
  Tile = 16
  Shapes <- MCShapesOK
  Formats <- MCFormats
  MaxConversions = 4
SPECIFICATION Spec
INVARIANTS LayoutMatchesFormat 
CHECK_DEADLOCK FALSE
