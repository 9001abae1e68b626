CONSTANTS
  Procs = {p1, p2, p3}
  first = p1
  idle = idle
  NULL = NULL
  Calls = {"other", "exit", "execve"}
  StackAllocs = {TRUE, FALSE}
SPECIFICATION Spec
CHECK_DEADLOCK FALSE
INVARIANTS MainResumable
PROPERTIES SyscallReturnsToCaller
