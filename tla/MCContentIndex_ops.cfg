SPECIFICATION Spec
CONSTANTS
  Procs = {p1, p2}
  Sessions = {x, y}
  BatchSize = 1
  MaxChunks = 2
  RunLeft = {1, 3}
  Limits = {Unlimited, 1}
  Unlimited = Unlimited
  NoSource = NoSource
  MaxOps = 3
  MaxFaults = 1
  s1 = s1
  s2 = s2
  a = a
  b = b
  Sources <- MCSources
  Texts <- MCTexts
SYMMETRY Symmetry
INVARIANTS TypeOK HitsMatchTheirChunk ChunksAreSearchable IndexesAreIntact AckedIsWhole
CHECK_DEADLOCK FALSE
