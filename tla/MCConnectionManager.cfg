SPECIFICATION Spec
CONSTANTS
  r1 = r1
  r2 = r2
  q1 = q1
  n1 = n1
  n2 = n2
  alias = alias
  host = host
  None = None
  Restores = {r1, r2}
  Requests = {q1}
  Names = {n1, n2}
  Keys = {alias, host}
  Resolve <- OneHost
  Intents <- SomeIntents
  MaxRemoves = 1
INVARIANT RefsCover
 
PROPERTY DestroyedUnused
