SPECIFICATION Spec
CONSTANTS
  out = out
  err = err
  Capacity = 2
  Streams = {out, err}
  AckEvery = 2
  MaxChunk = 2
  PipeSize = 1
  Window = 2
  Policies = {TRUE, FALSE}
  MaxSessions = 2
  Loads <- StreamLoads
INVARIANT Delivery
INVARIANT SignalsOnce
INVARIANT RestsWithResult
PROPERTY ComesToRest
CHECK_DEADLOCK FALSE
