SPECIFICATION Spec
CONSTANTS
  Capacity = 2
  MaxChunk = 3
  MaxBytes = 4
  Pumps = {p1, p2}
SYMMETRY PumpSymmetry
CHECK_DEADLOCK FALSE
INVARIANTS KeepsUnconfirmed NoLostWakeup
PROPERTY ImplementsLog
