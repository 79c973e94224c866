CONSTANTS
  x = x
  y = y
  f = f
  g = g
  Vars = {x, y}
  Fns = {f}
  IntKinds = {"U8"}
  Paths = {}
  NoTyp = NoTyp
  NoSig = NoSig
  NoRet = NoRet
  Sigs <- MCSigs
  Pats <- MCPats
  DeclTyps <- MCDeclTyps
  MaxItems = 2
  MaxStmts = 1
  MaxDepth = 2
  MaxArgs = 2
SPECIFICATION Spec
INVARIANT TypeOK Linearity MovedOnlyWhenDoomed
INVARIANT FailureReported
