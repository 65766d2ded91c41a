SPECIFICATION FairSpec
CONSTANTS
  main = main
  w1 = w1
  w2 = w2
  w3 = w3
  Main = main
  Workers = {w1, w2}
  Starters = {main}
  Joiners = {main}
  NoThread = NoThread
  MaxOps = 1
INVARIANTS
  EnvironmentOutlivesThreads
  LiveThreadsAreRegistered
PROPERTIES
  Serialized
  ProgramEnds
CHECK_DEADLOCK FALSE
