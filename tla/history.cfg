\* Two threads on one or two ports, sessions that end in every way, a short list.
SPECIFICATION HistorySpec
CONSTANTS
  c1 = c1
  c2 = c2
  t1 = t1
  t2 = t2
  p1 = p1
  p2 = p2
  None = None
  Contexts <- MCContexts
  Threads <- MCThreads
  Ports <- MCPorts
  MaxConnections = 1
  MaxInputs = 5
  Names <- MCNames
  OddNames = {}
  MaxHistory = 2
  MaxFaults = 2
  MaxSteps = 5
SYMMETRY MCSymmetry
INVARIANTS
  HistorySurvives
  ComesHome
CHECK_DEADLOCK FALSE
