SPECIFICATION Spec
CONSTANTS
  BigFrame = 3
  MaxFaults = 3
  SilentBroker = FALSE
INVARIANTS AttemptIsAwaited ConnectedMeansLoggedIn
PROPERTY ReturnsUnlessPoisoned
