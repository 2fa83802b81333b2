SPECIFICATION FairSpec
CONSTANTS
  i = i
  r1 = r1
  r2 = r2
  n1 = n1
  n2 = n2
  n3 = n3
  None = None
  Initializer = i
  Reconnectors = {r1, r2}
  Conns = {n1, n2, n3}
  Ends = {"destroy", "shutdown", "supersede"}
  Prompt = TRUE
  MaxFaults = 1
INVARIANT NoDoubles
 
 
CHECK_DEADLOCK FALSE
