SPECIFICATION Spec
CONSTANTS
  Names = {"x", "y"}
  MaxFunctions = 4
  MaxVars = 2
  MaxBlocks = 1
  MaxNames = 2
INVARIANTS
  NamesAreRight
CHECK_DEADLOCK FALSE
