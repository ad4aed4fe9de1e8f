CONSTANTS
  Labels = {"a"}
  ShutdownSignals = {"SIGINT", "SIGTERM"}
  Requests = {"load", "load -w", "unload", "unload -F", "enable", "kill"}
  Backend = "kqueue"
  Faults = {}
  MaxClockStep = 0
  Manifests <- AllKinds
SPECIFICATION FairSpec
PROPERTIES KeepAliveRestarts UnloadEnds ShutdownEnds OnlyOrphansCrash
CHECK_DEADLOCK FALSE
