\* The program as it is: the receiver's context has no peer; no fault occurs.
SPECIFICATION FairSpec
CONSTANTS
  Chunks = 2
  Partials <- MCFresh
  PeerSets <- MCNoPeer
  MetaReadings <- MCIgnored
  MetaCopies = 2
  EofCopies = 2
  MetaLen = 2
  MaxRetries = 1
  SockBuf = 3
  MaxFaults = 0
PROPERTY UdpDelivers
CHECK_DEADLOCK FALSE
