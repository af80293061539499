CONSTANTS
  IntBits = 3
  Values <- MCValues
  StackLimit = 4
  Families <- AllFamilies
SPECIFICATION Spec
INVARIANT TemporariesKept
PROPERTY DoesAsC
