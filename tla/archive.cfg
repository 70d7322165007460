\* Two directories, with and without a slash at the end, sent one after the other.
SPECIFICATION Spec
CONSTANTS
  a = a
  b = b
  c = c
  docs = docs
  Slash = Slash
  Name <- MCName
  Trees <- MCTrees
  Bases <- MCBases
  Befores <- MCBefores
  MaxSends = 2
  MaxFaults = 1
INVARIANTS
  TypeOK
  PackedOnce
  LostOnlyBelowMissing
PROPERTY OthersUntouched
CHECK_DEADLOCK FALSE
