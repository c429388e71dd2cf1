SPECIFICATION Spec
CONSTANTS
  Sign = sign
  Bits <- MCBits
  MemSize = 8
  Values <- MCValues
  Shapes <- MCShapes
INVARIANTS
  EveryAccessSelectable
PROPERTY TypedMemoryImplemented
