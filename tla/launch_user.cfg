CONSTANTS
  Documents <- UserDocument
  Passwd <- Users
  Group <- Groups
  Faults = {}
SPECIFICATION Spec
INVARIANT RunsAsUser
CHECK_DEADLOCK FALSE
