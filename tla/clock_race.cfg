CONSTANTS
  Labels = {"a"}
  ShutdownSignals = {"SIGINT"}
  Requests = {"load"}
  Backend = "kqueue"
  Faults = {}
  MaxClockStep = 1
  Manifests <- OneKeepAlive
SPECIFICATION FairSpec
PROPERTY KeepAliveRestarts
CHECK_DEADLOCK FALSE
