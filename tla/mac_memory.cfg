SPECIFICATION Spec
CONSTANTS
  Fields <- MCFields
  Word = 3
INVARIANT TypeOK
PROPERTY MetersVirtualMemory
