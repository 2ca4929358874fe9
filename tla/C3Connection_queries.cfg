SPECIFICATION Spec
CONSTANTS
  InUse = {"data", "rtLog"}
  PanelModes = {"keyValue"}
  MaxRequests = 2
  MaxChunks = 2
  MaxFailures = 1
  Impatient = FALSE
  Overtaken = {"rtLog", "handshake"}
INVARIANTS WaitsAreTimed AttemptIsAwaited SessionIsCurrent
PROPERTIES NeverStuckDialing QueryResolves
