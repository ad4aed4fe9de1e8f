CONSTANTS
  Labels = {"a"}
  ShutdownSignals = {"SIGINT"}
  Requests = {"load"}
  Backend = "epoll"
  Faults = {}
  MaxClockStep = 0
  Manifests <- OneKeepAlive
SPECIFICATION FairSpec
PROPERTY ShutdownCompletes
CHECK_DEADLOCK FALSE
