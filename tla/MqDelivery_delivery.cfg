SPECIFICATION Spec
CONSTANTS
  Remote = {m1, m2}
  Local = {l1}
  Undecodable = {m2}
  Prefetch = 2
  MaxFaults = 2
  DrainFirst = TRUE
  UnpauseOffline = FALSE
INVARIANTS AckedIsStored ServiceAgreesWithBroker
PROPERTIES KeepsPromise PauseBoxTakesEffect
