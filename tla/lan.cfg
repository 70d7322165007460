\* A sender and a scan of two subnets against one listener; two hosts with a responder.
SPECIFICATION LanSpec
CONSTANTS
  s1 = s1
  w1 = w1
  w2 = w2
  Probe = Probe
  NoClient = NoClient
  Senders <- MCSenders
  Backlog = 1
  MaxTries = 1
  MaxConnections = 2
  MaxFaults = 0
  Interfaces <- MCInterfaces
  MaxSubnets = 3
  Home <- MCHome
  OpenPorts <- MCOpenPorts
  Last = 2
  Workers <- MCWorkers
  Scans = {1}
  Responders <- MCResponders
  Reads = 2
  MaxDevices = 2
  MaxErrors = 1
INVARIANTS
  LanTypeOK
  DoneIsLast
  QuietListenerIsFound
  RespondersAreListed
SYMMETRY MCSymmetry
CHECK_DEADLOCK FALSE
