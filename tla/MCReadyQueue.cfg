CONSTANTS
  Procs = {p1, p2, p3, p4}
  idle = idle
  NULL = NULL
SPECIFICATION Spec
INVARIANTS TailEndsList
PROPERTIES ImplementsFifo
