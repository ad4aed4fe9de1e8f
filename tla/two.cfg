CONSTANTS
  Labels = {a, b}
  ShutdownSignals = {"SIGINT", "SIGTERM"}
  Requests = {"load", "unload"}
  Backend = "epoll"
  Faults = {"pipe"}
  MaxClockStep = 0
  Manifests <- Mixed
SPECIFICATION Spec
CONSTRAINT NoneIsEnabled
SYMMETRY LabelSymmetry
INVARIANTS DeletionExact ExitDeliveredOnce ShutdownReachesAll
PROPERTIES AssertionExplained ImplementsSupervisor
CHECK_DEADLOCK FALSE
