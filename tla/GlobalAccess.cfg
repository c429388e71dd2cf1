SPECIFICATION Spec
CONSTANTS
  LoBits = 2
  HiBits = 3
  ExtBits = 1
  LoHalf <- MCLoHalf
  HiHalf <- MCHiHalf
  Ext <- MCExt
  Symbols <- MCSymbols
  Offsets <- MCOffsets
INVARIANTS
  AddressReached
