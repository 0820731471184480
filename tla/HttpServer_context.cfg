SPECIFICATION Spec
CONSTANTS
  None = None
  Conns = {c1, c2}
  MaxRequests = 1
  MaxStarts = 1
CHECK_DEADLOCK FALSE
INVARIANTS
  ContextIsOwn
