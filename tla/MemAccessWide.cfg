SPECIFICATION Spec
CONSTANTS
  Sign = sign
  Bits <- MCBits
  MemSize = 8
  Values <- MCValues
  Shapes <- MCWide
INVARIANT WholeValueStored
