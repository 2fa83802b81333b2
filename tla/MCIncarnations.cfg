SPECIFICATION Spec
CONSTANTS
  d1 = d1
  d2 = d2
  d3 = d3
  c1 = c1
  c2 = c2
  None = None
  Daemons <- ThreeDaemons
  Cmds <- TwoCmds
  Modes = {"orderly", "racing"}
  Manners = {"meek", "stubborn", "stuck"}
  MaxCrashes = 1
  MaxRacers = 2
  MaxRaceCmds = 1
SYMMETRY Symmetric
INVARIANTS
  
  
  NoneOutlives
CHECK_DEADLOCK FALSE
