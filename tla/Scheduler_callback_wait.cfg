SPECIFICATION SpecWithCallbacks
CONSTANTS
  None = None
  Tasks = {t1}
  Workers = {w1, w2}
  Threads = {main}
  MaxParks = 1
CHECK_DEADLOCK FALSE
INVARIANTS
  NoSliceOfParkedTask
