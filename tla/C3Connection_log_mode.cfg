SPECIFICATION Spec
CONSTANTS
  InUse = {"rtLog", "count"}
  PanelModes = {"binary"}
  MaxRequests = 2
  MaxChunks = 1
  MaxFailures = 0
  Impatient = FALSE
  Overtaken = {}
INVARIANT ModeIsPanels
