SPECIFICATION Spec
CONSTANTS
  TaskIds = {t1}
  NoTask = NoTask
  Clients = {c1, c2}
  Modes = {"explicit", "auto"}
  Ops = {"update", "cancel"}
  MaxReports = 2
  MaxCrashes = 1
  Faults = TRUE
SYMMETRY Symmetry
INVARIANTS TypeOK InlineLeavesNoRow HandleHasRow CancelReachesTool SettledRowHasPayload
PROPERTIES OnlyStaleWritersUnsettle
CHECK_DEADLOCK FALSE
