SPECIFICATION SpecWithCallbacks
CONSTANTS
  None = None
  Tasks = {t1, t2}
  Threads = {m1}
INVARIANTS
  WritersAreCounted
