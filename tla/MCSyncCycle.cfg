CONSTANTS
  Paths <- ShallowPaths
  Root = "root"
  Up <- ShallowUp
  Leaves = {"f1", "f2"}
  Starts <- ShallowStarts
  Edits <- ShallowEdits
  QueueSize = 1
SPECIFICATION Spec
INVARIANTS
  ArchiveSound
  FlushSeesAll
  RestsInSync
PROPERTIES
  NothingLost
  ComesToRest
CHECK_DEADLOCK FALSE
