SPECIFICATION InstanceSpec
CONSTANTS
  Procs = {p1, p2, p3}
  NoOne = NoOne
  Serialised = TRUE
  Crashes = TRUE
INVARIANT PrimaryOwnsPipe
PROPERTY StartingBringsPrimary
