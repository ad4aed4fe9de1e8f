CONSTANTS
  Labels = {"a"}
  ShutdownSignals = {"SIGINT"}
  Requests = {"load", "unload -w"}
  Backend = "kqueue"
  Faults = {}
  MaxClockStep = 0
  Manifests <- OneOneShot
SPECIFICATION FairSpec
PROPERTY UnloadCompletes
CHECK_DEADLOCK FALSE
