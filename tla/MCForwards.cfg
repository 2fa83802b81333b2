\* Port forwards, a relayed connection and agent forwards under reconnects and Close.
CONSTANTS
  k1 = k1
  p1 = p1
  p2 = p2
  None = None
  Keys = {k1}
  UDP = {}
  Same <- MCSame
  Specs <- MCSpecs
  Fwds = {f1, f2, f3, f4, f5}
  Watchers = {w1, w2}
  Conns = {c1}
  Workers = {g1, g2, g3}
  Room = 1
  Scenarios <- MCScenarios
INIT Init
NEXT Next
INVARIANTS Stoppable  AllEnd
PROPERTIES EndsOnPurpose RelayIsWire ComesToRest
CHECK_DEADLOCK FALSE
