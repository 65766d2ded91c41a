SPECIFICATION Spec
CONSTANTS
  main = main
  w = w
  s1 = s1
  s2 = s2
  r1 = r1
  r2 = r2
  Interps = {main}
  Main = main
  Servers = {s1, s2}
  Requests = {r1, r2}
  Paths = {"/a", "/b"}
  PathOf <- PathsOf
  MethodOf <- MethodsOf
  RouteMenu <- Menu
  WsMenu = {"/a"}
  TreeMenu = {"/b"}
  Styles = {"plain"}
  None = None
INVARIANTS
  LiveServersCanBeStopped
  HandlersAnswerTheirRequest
CHECK_DEADLOCK FALSE
