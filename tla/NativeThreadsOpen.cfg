SPECIFICATION Spec
CONSTANTS
  main = main
  w1 = w1
  w2 = w2
  w3 = w3
  Main = main
  Workers = {w1, w2}
  Starters = {main}
  Joiners = {main, w1}
  NoThread = NoThread
  MaxOps = 1
PROPERTY JoinedThreadsAreDone
CHECK_DEADLOCK FALSE
