SPECIFICATION FairSpec
CONSTANTS
  Callers = {c1}
  Procs = {p1, p2}
  Players = {n1}
  Jobs = {"start", "stop", "stop_block", "restart", "kill"}
  Disconnects = TRUE
  NoProc = NoProc
INVARIANT SessionHasReader
PROPERTIES StoppingEnds ExitIsReported
