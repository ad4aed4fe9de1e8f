CONSTANTS
  Backends = {"epoll", "kqueue"}
  Jobs = {"a", "b"}
  Abandoning = {"b"}
  Pids = {1, 2}
  MaxProcesses = 3
  MaxTimers = 2
SPECIFICATION FairSpec
INVARIANTS TypeOK LostOnlyByReuse LookupsSucceed NoLostWakeup ReportedIsReaped TimersKnown
PROPERTIES RightProcess ExitReported
CHECK_DEADLOCK FALSE
