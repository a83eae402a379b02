\* A prelaunch macro that stops before its exit_future is first polled.
SPECIFICATION FairSpec
CONSTANTS
  Macros = {m1}
  Aborters = {a1}
  NoMacro = NoMacro
  Kinds = {"prelaunch"}
  Lag = FALSE
PROPERTIES
  ExitFutureResolves
CHECK_DEADLOCK FALSE
