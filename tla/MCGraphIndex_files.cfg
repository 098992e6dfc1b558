SPECIFICATION Spec
CONSTANTS
  Files = {f, g}
  Contents = {c1, c2}
  Absent = Absent
  Unread = Unread
  NoRef = NoRef
  Procs = {p}
  MaxEdits = 2
  MaxRuns = 2
SYMMETRY Symmetry
INVARIANTS TypeOK NoOtherCause SettledIsCurrent
CHECK_DEADLOCK FALSE
