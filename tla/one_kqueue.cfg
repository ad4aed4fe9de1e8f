CONSTANTS
  Labels = {"a"}
  ShutdownSignals = {"SIGINT"}
  Requests = {"load", "load -w", "load -F", "load -wF", "unload", "unload -w", "unload -F", "unload -wF", "enable", "disable", "kill"}
  Backend = "kqueue"
  Faults = {"exec", "fork", "pipe", "timer", "getpgid", "zombie", "kevent", "waitpid"}
  MaxClockStep = 2
  Manifests <- AllKinds
INVARIANTS Inv NoSurvivors
PROPERTIES StoppedStaysDown ImplementsSupervisor
SPECIFICATION Spec
CHECK_DEADLOCK FALSE
