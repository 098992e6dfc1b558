SPECIFICATION Spec
CONSTANTS
  Selections <- MCSelections
  NCommits = 3
  a = a
  b = b
  t = t
  h1 = h1
  h2 = h2
  bin = bin
  NoBlob = NoBlob
  NoProc = NoProc
  Procs = {p1, p2}
  MaxOps = 3
  MaxFaults = 1
  Paths <- MCPaths
  Supported <- MCSupported
  Blobs <- MCBlobs
  Opaque <- MCOpaque
  Histories <- MCHistories
SYMMETRY Symmetry
INVARIANTS TypeOK SnapshotIsUsable LifecycleIsCurrent RunContinues
PROPERTIES ImplementsCatalog
CHECK_DEADLOCK FALSE
