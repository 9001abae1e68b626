\* Programs lie above RAM, as the stack of every program does in a machine
\* with less than 2 GB.
CONSTANTS
  W = 8
  NFrames = 17
  Segments = {{17}, {17, 25}}
  Stack = {30, 31}
  HeapLimit = 4
  MmioPages = {1, 2}
SPECIFICATION Spec
INVARIANTS TablesApart HeapPrivate ProgramIntact
PROPERTIES MappingsStable
