SPECIFICATION Spec
CONSTANTS
  ArgCounts = {1, 2, 8, 9}
  Pool <- MCPool
  ObjectLists <- MCObjectLists
  ImmHalf = 24
INVARIANT FrameIndexHasFP
