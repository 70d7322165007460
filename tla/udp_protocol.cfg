\* Three chunks, two tries of a packet, every reading of a repeated meta record.
SPECIFICATION FairSpec
CONSTANTS
  Chunks = 3
  Partials <- MCPartials
  PeerSets = {TRUE, FALSE}
  MetaReadings <- MCReadings
  MetaCopies = 3
  EofCopies = 2
  MetaLen = 3
  MaxRetries = 2
  SockBuf = 3
  MaxFaults = 2
INVARIANTS
  TypeOK
  EachPacketCountedOnce
  AckedWasStored
  FirstTriesAreInPlace
PROPERTY SenderReturnsInTheEnd
CHECK_DEADLOCK FALSE
