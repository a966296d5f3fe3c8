SPECIFICATION Spec
CONSTANTS
  eth = eth
  usb = usb
  Devices <- MCDevices
  Fixed <- MCFixed
  Word = 4
INVARIANTS TypeOK NoNullStats GoneIsQuiet
PROPERTY MetersFixed
