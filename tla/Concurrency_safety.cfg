SPECIFICATION Spec
CONSTANTS
  None = None
  Tasks = {t1, t2, t3}
  Threads = {m1, m2}
  Permits = 2
  Senders = {s1, s2}
  MaxSends = 4
  MaxCount = 3
  MaxAdds = 3
  Items = 4
  Workers = 2
  Offloaders = {t1, t2, t3}
  PoolThreads = {w1, w2}
  MaxCalls = 2
CHECK_DEADLOCK FALSE
SYMMETRY Sym
INVARIANTS
  TypeOK
  PermitsConserved
  MutualExclusion
  ReadersOrWriter
  ExactlyOnce
  InOrder
  OneResult
  EachItemOnce
  ExactlyOnePlace
  NobodyIsStranded
PROPERTIES
  ImplementsLock
