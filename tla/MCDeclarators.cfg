CONSTANTS
  Programs <- AllPrograms
  Spelled <- Spelling
  Identifiers <- MCIdentifiers
  Numbers <- MCNumbers
SPECIFICATION Spec
INVARIANTS DeclaresAsC AnswersAsC
