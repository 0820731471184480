SPECIFICATION Spec
CONSTANTS
  None = None
  MaxDepth = 3
  MaxWaits = 2
  Programs <- WaitingModule
  InTask <- WaitingModule
  CodeOf <- CompiledCode
  MeaningOf <- Meant
INVARIANT NestedRunsEnd
