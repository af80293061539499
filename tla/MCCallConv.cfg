CONSTANTS
  GpMax = 3
  FpMax = 4
  WinMax = 2
  Calls <- MCCalls
SPECIFICATION AbiSpec
INVARIANTS ArgumentsArrive PlacedAsABI StackKept VarargsArrive
