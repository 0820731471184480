SPECIFICATION Spec
CONSTANTS
  None = None
  MaxDepth = 3
  MaxWaits = 2
  Programs <- ReturnInSwitch
  InTask = {}
  CodeOf <- CompiledCode
  MeaningOf <- Meant
INVARIANT OperandsBalanced
