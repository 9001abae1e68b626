CONSTANTS
  heap_start = 1
  heap_max_size = 32
  VMM_PAGE_SIZE = 16
  HEAP_MAX_ALLOC = 18
  MAGIC_VALUE <- MCMagic
  Frames = {0, 1, 2}
  Clients <- MCClients
  Requests = {0, 1, 10, 18, 19}
  CallocRequests <- MCCalloc
  Footers = {TRUE, FALSE}
SPECIFICATION Spec
INVARIANTS Tiled FreeListExact PayloadIntact
PROPERTIES ImplementsPromise
