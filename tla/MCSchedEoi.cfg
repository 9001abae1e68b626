CONSTANTS
  Procs = {p1, p2, p3}
  first = p1
  idle = idle
  NULL = NULL
  Calls = {"other"}
  StackAllocs = {TRUE}
SPECIFICATION Spec
CHECK_DEADLOCK FALSE
INVARIANTS EoiSent
