SPECIFICATION FairSpec
CONSTANTS
  None = None
  Tasks = {t1, t2}
  Workers = {w1}
  Threads = {main}
  MaxParks = 1
CHECK_DEADLOCK FALSE
PROPERTIES
  RunnableRuns
  SleepersWake
