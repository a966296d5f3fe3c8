SPECIFICATION Spec
CONSTANTS
  Fields <- MCFields
  Word = 3
PROPERTY CurrentIsRate
