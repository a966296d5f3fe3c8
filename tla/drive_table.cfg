SPECIFICATION Spec
CONSTANTS
  Media <- MCMedia
  MaxDrives = 3
INVARIANTS TypeOK TableExact
PROPERTIES ImplementsSet NoneLeftOut
