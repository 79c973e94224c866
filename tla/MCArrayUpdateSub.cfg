CONSTANTS
  L = 3
  ElemSize = 1
  Default = 0
  Word = 16
  InVals <- MCInVals
  Ins <- MCIns
  Starts <- MCStarts
  Idxs <- MCIdxs
  HexIns <- MCHexIns
SPECIFICATION Spec
PROPERTY UpdateSubWritesLen
