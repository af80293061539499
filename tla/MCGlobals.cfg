CONSTANTS
  Names <- MCNames
  Programs <- MCPrograms
SPECIFICATION Spec
INVARIANTS ExportsAsC OneStorage ReferencesReach NothingIdle
PROPERTY ParseEnds
