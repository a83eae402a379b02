SPECIFICATION Spec
CONSTANTS
  Callers = {c1, c2}
  Procs = {p1, p2}
  Players = {}
  Jobs = {"start", "start_block", "stop", "kill"}
  Disconnects = FALSE
  NoProc = NoProc
SYMMETRY Symmetry
INVARIANT NeverTwoServers
