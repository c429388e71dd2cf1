SPECIFICATION MCSpec
CONSTANTS
  Width = 3
  Half <- MCHalf
INVARIANTS
  TypeOK
  ResultPreserved
  BranchesAndSelectsSelectable
