SPECIFICATION Spec
CONSTANTS
  s1 = s1
  c1 = c1
  c2 = c2
  None = None
  Pids <- OnePid
  Dirs <- SomeDirs
  Names <- ABG
  Covers <- Roots
  Background <- InBackground
  Calls <- TwoCalls
  Scenarios <- Busy
  MaxObjects = 2
INVARIANTS
  SessionsKept
  
  TickSettles
