SPECIFICATION Spec
CONSTANTS
  MaxRows = 23
  WindowHeights <- TallHeights
  CpuLines = 1
  DiskLines = 1
  MaxIfaces = 0
  MemoryLines = 3
  DrawsPerFrame = 1
  Faults = {"netdev"}
  MaxResizes = 0
INVARIANT AbortExits
