\* One listener that never has more than one thread, and no faults to speak of.
SPECIFICATION FairSpec
CONSTANTS
  c1 = c1
  c2 = c2
  c3 = c3
  t1 = t1
  t2 = t2
  t3 = t3
  p1 = p1
  None = None
  Contexts <- MCOneContext
  Threads <- MCOneThread
  Ports <- MCPort
  MaxConnections = 0
  MaxInputs = 2
PROPERTY StopStops
CHECK_DEADLOCK FALSE
