SPECIFICATION Spec
CONSTANTS
  Paths = {a, b}
  NoPath = NoPath
  Contents = {v1, v2}
  Absent = Absent
  Platforms = {"inotify", "pairs"}
  Capacity = 4
  MaxOps = 4
SYMMETRY Symmetry
INVARIANTS TypeOK WatchedIsCurrent
CHECK_DEADLOCK FALSE
