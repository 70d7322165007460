\* A directory with one file and a subdirectory with one file, an empty receiver.
SPECIFICATION Spec
CONSTANTS
  a = a
  b = b
  c = c
  docs = docs
  Slash = Slash
  Name <- MCName
  Trees <- MCOneTree
  Bases <- MCOneBase
  Befores <- MCEmpty
  MaxSends = 1
  MaxFaults = 0
INVARIANT DirectoryArrives
CHECK_DEADLOCK FALSE
