SPECIFICATION FairSpec
CONSTANTS
  TaskIds = {t1}
  NoTask = NoTask
  Clients = {}
  Modes = {"auto"}
  Ops = {"cancel"}
  MaxReports = 1
  MaxCrashes = 0
  Faults = FALSE
PROPERTIES DeferredTaskSettles
CHECK_DEADLOCK FALSE
