\* The smallest table the watermarks allow.
CONSTANTS
  k1 = k1
  k2 = k2
  Keys = {k1, k2}
  Values = {v1, v2}
  Hash <- Collisions
  INIT_SIZE = 4
  HIGH_WATERMARK = 70
  LOW_WATERMARK = 50
  NULL = NULL
  TOMBSTONE = TOMBSTONE
SPECIFICATION Spec
INVARIANTS ProbesEnd KeysOwned
PROPERTIES Implements PutReturns
