SPECIFICATION Spec
CONSTANTS
  Names = {"a", "b"}
  Slots = {1, 2}
  NClusters = 4
  SPC = 2
  PerSector = 4
  MAX_FDS = 2
  MaxSize = 3
  Worlds <- MCWorlds
CHECK_DEADLOCK FALSE
INVARIANTS ChainsApart ClustersAccounted OwnSectors ReadsInOrder
PROPERTIES ReadersKeepFiles
