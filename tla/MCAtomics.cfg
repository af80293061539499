CONSTANTS
  t1 = t1
  t2 = t2
  t3 = t3
  Threads = {t1, t2, t3}
  Nothing = Nothing
  Types <- MCTypes
  Programs <- MCPrograms
SPECIFICATION Spec
PROPERTIES ActsAtomically OperationsEnd
