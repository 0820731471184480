SPECIFICATION FairSpec
CONSTANTS
  c1 = c1
  c2 = c2
  u1 = u1
  u2 = u2
  t1 = t1
  t2 = t2
  k1 = k1
  k2 = k2
  None = None
  About <- Parts
  AsyncCalls = 2
  Sessions = {c1}
  MaxChunks = 1
  Conns = {c1, c2}
  MaxRequests = 2
  MaxStarts = 1
  MaxBytes = 1
  Buffer = 1
  Users = {u1, u2}
  MaxWrites = 2
  ProcessCalls = 3
  ByteValues = 3
  Code <- MCCode
  AddLen = 2
  EncIndex = 0
  Writes <- MCWrites
  Chunk = 2
  Clients = {u1, u2}
  Hosts = {"sub", "top"}
  Paths = {"/", "/a"}
  Parents <- MCParents
  Values = {1, 2}
  Visits <- MCVisits
  Offers <- MCOffers
  MaxTime = 1
  MaxRetries = 1
  Retrying = {u1}
  ClientCalls = 1
  MaxResets = 1
  Processes = {c1, c2}
  Threads = {t1, t2}
  Keys = {k1, k2}
  MaxChanges = 2
  MaxStops = 1
  MaxParts = 3
  UploadCalls = 2
  LimbBase = 3
  MaxLimbs = 2
  MaxMagnitude = 100
  Epochs <- MCEpochs
  MaxYears = 5
  Shifts <- MCShifts
  TokenKinds <- MCTokenKinds
  MaxTokens = 5
  Names = {"x"}
  MaxFunctions = 3
  MaxVars = 2
  MaxBlocks = 1
  MaxNames = 2
  Capacity = 2
  MaxTail = 2
  MaxTexts = 2
INVARIANTS
  TypeOK
  ResultsOnce
  HandlersAreKept
  BytesArrive
  NamesAreFound
  ClientBooksAreRight
  AnswersAreTrue
  AlgorithmsAgree
PROPERTIES
  EndsWhenStopped
CHECK_DEADLOCK FALSE
