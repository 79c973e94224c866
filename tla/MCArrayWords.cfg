CONSTANTS
  L = 8
  ElemSize = 1
  Default = 0
  Word = 32
  InVals <- WInVals
  Ins <- WIns
  Starts <- WStarts
  Idxs <- WIdxs
  HexIns <- WHexIns
SPECIFICATION Spec
INVARIANT WordsRoundTrip
