SPECIFICATION FairSpec
CONSTANTS
  TaskIds = {t1}
  NoTask = NoTask
  Clients = {c1, c2}
  Modes = {"explicit", "auto"}
  Ops = {"cancel"}
  MaxReports = 2
  MaxCrashes = 0
  Faults = FALSE
PROPERTIES RequestIsAnswered TaskSettles
CHECK_DEADLOCK FALSE
