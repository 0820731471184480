SPECIFICATION FairSpec
CONSTANTS
  None = None
  Tasks = {t1, t2}
  Threads = {m1, m2}
  Permits = 2
  Senders = {s1, s2}
  MaxSends = 3
  MaxCount = 3
  MaxAdds = 2
  Items = 4
  Workers = 2
  Offloaders = {t1, t2, t3}
  PoolThreads = {w1, w2}
  MaxCalls = 1
CHECK_DEADLOCK FALSE
PROPERTIES
  TasksAreServed
  ThreadsMakeProgress
  CallersReturn
