SPECIFICATION Spec
CONSTANTS
  Brokers = {b1, b2}
  Daemons = {d1, d2, d3, d4}
  Victims = {b1, b2, d1, d2, d3, d4}
  MaxFaults = 3
  Timeouts = TRUE
  MAX_DAEMON_RECONNECTS = 1
  None = None
  Torn = Torn
SYMMETRY Symmetry
INVARIANTS TypeOK OneBackend
CHECK_DEADLOCK FALSE
