SPECIFICATION Spec
CONSTANTS
  Procs = {p, q}
  HookEvents <- MCHookEvents
  Files = {f}
  FileEvents <- MCFileEvents
  MaxEvents = 2
  MaxOps = 4
  None = None
SYMMETRY Symmetry
INVARIANTS TypeOK NewestIsKept DecisionOutlivesItsEvent BridgeEventsArrive ConsumedWasLoaded
PROPERTIES PromotedSurvive
CHECK_DEADLOCK FALSE
