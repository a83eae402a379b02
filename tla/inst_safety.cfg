SPECIFICATION Spec
CONSTANTS
  Callers = {c1, c2}
  Procs = {p1, p2}
  Players = {}
  Jobs = {"start", "stop", "restart_block", "kill"}
  Disconnects = TRUE
  NoProc = NoProc
SYMMETRY Symmetry
INVARIANTS TypeOK RunningHasReader StartingHasOwner SingleProcessUnlessKilled EventsMirrorState
PROPERTIES RunningOnlyFromStarting ImplementsLifecycle
