SPECIFICATION Spec
CONSTANTS
  MaxRows = 22
  WindowHeights <- LinuxHeights
  CpuLines = 2
  DiskLines = 0
  MaxIfaces = 1
  MemoryLines = 3
  DrawsPerFrame = 1
  Faults = {"open", "netdev", "log"}
  MaxResizes = 1
INVARIANTS TypeOK WholeOrBlank CursorHidden HeightKnown RenderAgrees TtySane
PROPERTIES InterruptEnds Settles
