\* Sessions of a file that may grow, against every policy, with and without prompts; the user
\* retries.
SPECIFICATION RetrySpec
CONSTANTS
  NoFile = NoFile
  Block <- MCBlock
  Sources <- MCSources
  InitialFiles <- MCInitial
  Configs <- ConfigType
  BufferSize = 2
  SockBuf = 2
  CopyLimit = 3
  DiskMayFill = FALSE
  MaxFaults = 2
INVARIANTS
  TypeOK
  PartialIsPrefix
  DoneMeansStored
  DoneMeansInFlight
PROPERTIES
  FilesOnlyGrow
  IsFileDelivery
  SenderReturnsInTheEnd
  ReceiverReturnsInTheEnd
  RetryDelivers
