CONSTANTS
  Families <- MCFamilies
  Texts <- MCTexts
  Alignments = {1, 2, 4, 8, 16}
  IntMax = 1000
  Written <- MCWritten
SPECIFICATION Spec
INVARIANTS InitialisesAsC LaidOutAsABI
PROPERTY StoreKeepsOthers
