SPECIFICATION BodySpec
CONSTANTS
  x = x
  y = y
  z = z
  Names = {x, y, z}
  Types = {"int", "byte", "str"}
  Values = {"small", "wide", "text"}
  Parameters <- NoParameters
  MaxDepth = 1
  NoName = NoName
  Undeclared = Undeclared
SYMMETRY Symmetric
INVARIANTS
  ReadsAreLive
  BorrowersAreRegistered
  ChainsResolve
