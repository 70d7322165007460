\* A sender and two listeners, or any three threads, on one port.
SPECIFICATION Spec
CONSTANTS
  c1 = c1
  c2 = c2
  c3 = c3
  t1 = t1
  t2 = t2
  t3 = t3
  p1 = p1
  None = None
  Contexts <- MCContexts
  Threads <- MCThreads
  Ports <- MCPort
  MaxConnections = 2
  MaxInputs = 5
SYMMETRY MCSymmetry
INVARIANTS
  TypeOK
  QuestionIsShown
  AnswerIsHeard
  NothingCancelledUnasked
  OneSendPerStart
CHECK_DEADLOCK FALSE
