\* Two senders and any number of probes against a listener for three.
SPECIFICATION Spec
CONSTANTS
  s1 = s1
  s2 = s2
  Probe = Probe
  NoClient = NoClient
  Senders <- MCSenders
  Backlog = 1
  MaxTries = 2
  MaxConnections = 3
  MaxFaults = 1
INVARIANTS
  TypeOK
  EachSlotIsUsed
  LoneSenderIsServed
PROPERTIES
  SendersEnd
  ProbesPassThrough
CHECK_DEADLOCK FALSE
