SPECIFICATION BodySpec
CONSTANTS
  x = x
  y = y
  z = z
  Names = {x, y}
  Types = {"int"}
  Values = {"small", "wide"}
  Parameters <- NoParameters
  MaxDepth = 1
  NoName = NoName
  Undeclared = Undeclared
PROPERTY ConstantsKeepTheirValue
