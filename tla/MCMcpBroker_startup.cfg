SPECIFICATION FairSpec
CONSTANTS
  Brokers = {b1, b2}
  Daemons = {d1, d2}
  Victims = {b1, b2, d1, d2}
  MaxFaults = 1
  Timeouts = TRUE
  MAX_DAEMON_RECONNECTS = 3
  None = None
  Torn = Torn
INVARIANTS StartupSharesOneDaemon PublishedDaemonHandlesSignals
PROPERTIES StartupEnds
CHECK_DEADLOCK FALSE
