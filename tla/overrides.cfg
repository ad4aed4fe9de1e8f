\* Two clients at a time, two labels, every fault, launchd restarted once.
\* A launchd that cannot parse its file does not start again: nothing happens
\* any more, which is a stop that the code has.
CONSTANTS
    Clients = {c1, c2}
    a = a
    b = b
    Labels <- TwoLabels
    Settings <- SomeSettings
    Faults = {"accept", "disk full", "rename"}
    MaxEnds = 1
SPECIFICATION Spec
INVARIANTS TypeOK Durable MemoryMatchesFile DamageExplained
PROPERTIES EveryClientEnds
CHECK_DEADLOCK FALSE
