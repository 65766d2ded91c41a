SPECIFICATION FairSpec
CONSTANTS
  t1 = t1
  t2 = t2
  t3 = t3
  m1 = m1
  c1 = c1
  s1 = s1
  Threads = {t1, t2, t3}
  Mutexes = {m1}
  Conditions = {c1}
  Semaphores = {s1}
  Closers = {t1}
  NoThread = NoThread
  NoHandle = NoHandle
  MaxCount = 2
INVARIANTS
  NoLostMutexWakeup
  NoLostPost
PROPERTIES
  FreeMutexIsTaken
