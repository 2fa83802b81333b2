CONSTANTS
  BlockSize = 2
  MaxDataOp = 2
  Modulus = 3
  Paths <- MCPaths
  Absent = Absent
  None = None
  Window = 2
  Contents <- MCContents
  Scenarios <- MCScenarios
SPECIFICATION Spec
INVARIANTS InStep DeltaExact
 
CHECK_DEADLOCK FALSE
