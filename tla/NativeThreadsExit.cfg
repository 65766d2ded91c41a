SPECIFICATION Spec
CONSTANTS
  main = main
  w1 = w1
  w2 = w2
  w3 = w3
  Main = main
  Workers = {w1, w2}
  Starters = {main, w1, w2}
  Joiners = {}
  NoThread = NoThread
  MaxOps = 1
INVARIANT EnvironmentOutlivesThreads
CHECK_DEADLOCK FALSE
