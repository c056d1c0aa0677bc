SPECIFICATION Spec
CONSTANTS
  Tasks = {t1, t2}
  Workers <- TwoWorkers
  CallerSets = {{"main", "exit"}, {"w1"}}
  QueueCap = 1
  MaxCalls = 1
CHECK_DEADLOCK FALSE
INVARIANTS
    ExecutorInv
    ResultIsNeverLost
PROPERTIES
    AcceptedIsNotified
    ShutdownCallReturns
