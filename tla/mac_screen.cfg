SPECIFICATION Spec
CONSTANTS
  MaxRows = 23
  WindowHeights <- MacHeights
  CpuLines = 2
  DiskLines = 1
  MaxIfaces = 1
  MemoryLines = 8
  DrawsPerFrame = 2
  Faults = {}
  MaxResizes = 2
INVARIANT WholeOrBlank
