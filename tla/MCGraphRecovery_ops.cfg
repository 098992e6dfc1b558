SPECIFICATION Spec
CONSTANTS
  Procs = {p, q}
  Files = {f, g}
  MaxRuns = 2
  MaxDamage = 2
  MaxKills = 1
SYMMETRY Symmetry
INVARIANTS TypeOK OnlyBadIsQuarantined EvidenceIsKept FreshIsComplete
PROPERTIES SoloRunHeals
CHECK_DEADLOCK FALSE
