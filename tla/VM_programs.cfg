SPECIFICATION Spec
CONSTANTS
  None = None
  MaxDepth = 3
  MaxWaits = 2
  Programs <- AllPrograms
  InTask <- TaskPrograms
  CodeOf <- CompiledCode
  MeaningOf <- Meant
INVARIANTS
  TypeOK
  DepthMatches
  EveryRunHasItsFrame
  TryEntriesMatchCode
  OperandsBalanced
  RunsAsWritten
  CodeIsVerified
