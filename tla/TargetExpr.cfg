SPECIFICATION Spec
CONSTANTS
  LoHalf = 2
  HiHalf = 2
  Ext = 1
  Symbols = {"a", "b"}
  SubExprs <- MCSubExprs
  Arguments <- MCArguments
  MaxExprs = 2
INVARIANTS
  MarkedExactly
  OneSymbol
  ReadBack
  UnreachableBuilt
  LoweringsAgree
