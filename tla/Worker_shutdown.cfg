SPECIFICATION WorkerSpec
CONSTANTS
  Owner = Owner0
  Dialogs = {d1, d2}
  NoContext = NoContext0
  MaxJobs = 3
  MaxOthers = 1
INVARIANTS PendingIsOfProcess OwnerIsNeverRaced
PROPERTY EveryCallIsAnswered
CHECK_DEADLOCK FALSE
