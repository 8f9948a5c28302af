CONSTANTS
  main = main
  other = other
  None = None
  Store = {main, other}
  Default = main
  MaxWork = 2
  MaxUpsets = 2
SPECIFICATION Spec
INVARIANTS TypeOK FrozenForItsStore OneTaskPerRun
PROPERTIES StoresSettle
CHECK_DEADLOCK FALSE
