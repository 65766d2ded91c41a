SPECIFICATION FairSpec
CONSTANTS
  main = main
  w = w
  s1 = s1
  s2 = s2
  r1 = r1
  r2 = r2
  Interps = {main, w}
  Main = main
  Servers = {s1, s2}
  Requests = {r1}
  Paths = {"/a", "/b"}
  PathOf <- PathsOf
  MethodOf <- MethodsOf
  RouteMenu <- Rivals
  WsMenu = {}
  TreeMenu = {}
  Styles = {"plain"}
  None = None
INVARIANT PlannedRoutesMatch
PROPERTY StopReturns
CHECK_DEADLOCK FALSE
