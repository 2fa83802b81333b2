SPECIFICATION FairSpec
CONSTANTS
  c1 = c1
  c2 = c2
  h1 = h1
  h2 = h2
  None = None
  Clients = {c1, c2}
  Starter = c1
  Handles = {h1, h2}
  First = h1
  Causes = {"timer", "request", "close"}
INVARIANT HeldOrAbandoned
INVARIANT NoneLost
PROPERTY AbandonedDies
CHECK_DEADLOCK FALSE
