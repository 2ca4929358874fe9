SPECIFICATION Spec
CONSTANTS
  Remote = {m1, m2}
  Local = {}
  Undecodable = {}
  Prefetch = 2
  MaxFaults = 1
  DrainFirst = FALSE
  UnpauseOffline = FALSE
INVARIANT AckedIsStored
