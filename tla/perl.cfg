SPECIFICATION Spec
CONSTANTS
  Windows = {14, 20}
  MaxResizes = 2
  MaxSleep = 2
  MaxCount = 2
INVARIANTS TypeOK CurrentAddsUp
PROPERTIES SizeSettles ScreenIsFrame
CHECK_DEADLOCK FALSE
