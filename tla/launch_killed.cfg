CONSTANTS
  Documents <- PlainDocument
  Passwd <- Users
  Group <- Groups
  Faults = {"killed"}
SPECIFICATION Spec
INVARIANT KillsOnlyTheJob
CHECK_DEADLOCK FALSE
