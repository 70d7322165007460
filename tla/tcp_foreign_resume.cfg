\* A shorter foreign file of the same name, policy rename; no fault occurs.
SPECIFICATION Spec
CONSTANTS
  NoFile = NoFile
  Block <- MCBlock
  Sources <- MCOneSource
  InitialFiles <- MCShortForeign
  Configs <- MCRenaming
  BufferSize = 2
  SockBuf = 2
  CopyLimit = 2
  DiskMayFill = FALSE
  MaxFaults = 0
INVARIANT ReceiverDoneMeansStored
