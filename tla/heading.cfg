SPECIFICATION Spec
CONSTANTS
  Title = 2
  Clock = 1
  Widths <- MCWidths
  Heights = {1, 2}
  MaxJunk = 1
INVARIANTS TypeOK PenIsPlain HeadingInRow OverrunHasCause TintKeptHeight
CHECK_DEADLOCK FALSE
