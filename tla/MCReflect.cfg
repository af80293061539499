\* The program before and after the edit, with the unsupported types.
CONSTANTS
  Types <- AllTypes
  Kind <- Kinds
  Parts <- PartsOf
  Mangled <- MangledNames
  Unmangled = "?"
  None = None
SPECIFICATION Spec
INVARIANT PartsNamed
PROPERTIES OneDescriptor ReflectReturns
