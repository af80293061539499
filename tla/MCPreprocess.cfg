\* Sequences of lines, of macro calls and of inclusions.
CONSTANTS
  Programs <- AllPrograms
  Library <- Headers
  Main <- MainPath
  IncludeDirs <- Dirs
  Identifiers <- IdentifierAtoms
  Digits <- DigitAtoms
  MaxReads = 8
SPECIFICATION Spec
INVARIANTS AgreesWithStandard
PROPERTY PreprocessEnds
CHECK_DEADLOCK FALSE
