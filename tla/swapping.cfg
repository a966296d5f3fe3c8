SPECIFICATION Spec
CONSTANT Word = 2
PROPERTY SwappingShown
