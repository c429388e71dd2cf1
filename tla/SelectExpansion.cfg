SPECIFICATION Spec
CONSTANTS
  Functions <- MCFunctions
  MaxBody = 4
INVARIANTS
  TypeOK
  DefsDominateUses
  PhisMatchPreds
  SuccessorsAreControlTargets
  MeaningPreserved
  DebugValuesFollow
PROPERTIES
  SharesTriangle
  AllExpanded
