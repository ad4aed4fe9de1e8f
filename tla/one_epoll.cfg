CONSTANTS
  Labels = {"a"}
  ShutdownSignals = {"SIGINT"}
  Requests = {"load", "load -w", "load -F", "load -wF", "unload", "unload -w", "unload -F", "unload -wF", "enable", "disable", "kill"}
  Backend = "epoll"
  Faults = {"exec", "fork", "pipe", "timer"}
  MaxClockStep = 3
  Manifests <- AllKinds
INVARIANTS TypeOK DeletionExact NoLostProcess TimerExclusive UnloadedIsDown
PROPERTIES StoppedStaysDown ThrottleHonoured
SPECIFICATION Spec
CHECK_DEADLOCK FALSE
