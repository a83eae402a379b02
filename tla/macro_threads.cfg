\* One macro started by every kind of caller, two aborters, receivers that lag.
SPECIFICATION FairSpec
CONSTANTS
  Macros = {m1}
  Aborters = {a1, a2}
  NoMacro = NoMacro
  Kinds = {"run", "prelaunch", "restore", "create"}
  Lag = TRUE
INVARIANTS
  ExactlyOneStopped
  InterruptionIsNoFailure
  SpawnedCanBeAborted
  FailedSpawnLeavesNoMacro
  StoppedLeavesTaskList
PROPERTIES
  AbortEndsMacro
  SpawnIsAnswered
CHECK_DEADLOCK FALSE
