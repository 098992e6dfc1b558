SPECIFICATION Spec
CONSTANTS
  Files = {f}
  Contents = {c1, c2}
  Absent = Absent
  Unread = Unread
  NoRef = NoRef
  Procs = {p, q}
  MaxEdits = 3
  MaxRuns = 2
SYMMETRY Symmetry
INVARIANTS NoOtherCause
CHECK_DEADLOCK FALSE
