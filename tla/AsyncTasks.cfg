CONSTANTS
  main = main
  a = a
  b = b
  c = c
  Main = main
  Tasks = {a, b, c}
  Runs <- NestedRuns
  Awaits <- NestedAwaits
  Gathers <- NestedGathers
  NoTask = NoTask
  NoThread = NoThread
  MaxOps = 1
SPECIFICATION FairSpec
INVARIANTS ExclusiveUntilTheEnd ErasedTasksAreJoined
PROPERTIES AwaitsAnswerWithOutcomes ProgramEnds
CHECK_DEADLOCK FALSE
