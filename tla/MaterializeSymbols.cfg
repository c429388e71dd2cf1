SPECIFICATION LSpec
CONSTANTS
  LoBits = 4
  HiBits = 4
  ExtBits = 3
  LoHalf <- MCLoHalf
  HiHalf <- MCHiHalf
  Ext <- MCExt
INVARIANT FirstTwoGiBReached
