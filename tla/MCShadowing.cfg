CONSTANTS
  x = x
  y = y
  f = f
  g = g
  Vars = {x, y}
  Fns = {f, g}
  IntKinds = {"U8"}
  Paths = {}
  NoTyp = NoTyp
  NoSig = NoSig
  NoRet = NoRet
  Sigs <- MCSigs
  Pats <- MCPats
  DeclTyps <- MCDeclTyps
  MaxItems = 2
  MaxStmts = 2
  MaxDepth = 1
  MaxArgs = 2
SPECIFICATION Spec
PROPERTY Shadowing
