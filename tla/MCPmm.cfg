CONSTANTS
  PMM_MAX_PAGES = 5
  PAGE_SIZE = 3
  kernel_end_page = 2
  MemoryMaps <- MCMemoryMaps
SPECIFICATION Spec
INVARIANTS TypeOK Partition Accounting
