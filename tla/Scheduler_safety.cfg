SPECIFICATION Spec
CONSTANTS
  None = None
  Tasks = {t1, t2}
  Workers = {w1, w2}
  Threads = {main}
  MaxParks = 2
CHECK_DEADLOCK FALSE
SYMMETRY Sym
INVARIANTS
  TypeOK
  OneOwner
  ReadyIsReachable
  BlockedIsAwaited
  AnswerDelivered
  NoStaleAnswer
PROPERTIES
  ImplementsLifecycle
