SPECIFICATION Spec
CONSTANTS
  x = x
  y = y
  z = z
  Names = {x, y}
  Types = {"int"}
  Values = {"small"}
  Parameters <- ShadowingParameters
  MaxDepth = 2
  NoName = NoName
  Undeclared = Undeclared
SYMMETRY Symmetric
INVARIANT ConstantsOwnTheirStorage
