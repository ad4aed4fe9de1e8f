CONSTANTS
  Documents <- AllDocuments
  Passwd <- Users
  Group <- Groups
  Faults = {"setsid", "setpriority", "chdir", "chroot", "initgroups", "setgid", "setlogin", "setuid", "stdin", "stdout", "stderr", "calloc", "execve", "pipe", "fork", "read", "write", "killed"}
SPECIFICATION FairSpec
INVARIANTS TypeOK AnswerIsRight PreparedBeforeExec NoSecondLaunchd CrashExplained AgreesWithJob
PROPERTY RunReturns
CHECK_DEADLOCK FALSE
