SPECIFICATION Spec
CONSTANTS
  Threads = {t1, t2}
  Children = {c1}
  Clients = {"local", "main"}
  MaxWaits = 2
INVARIANTS ParentNeverSees NoUntracedRun FailsOnlyIfKilled
PROPERTY EveryChildTraced
CHECK_DEADLOCK FALSE
