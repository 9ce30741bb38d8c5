SPECIFICATION Spec
CONSTANTS
  Names = {foo, bar}
  DefinedNames = {bar}
  Sorts = {bool}
  foo = foo
  bar = bar
  bool = bool
  NoName = NoName
  NDEBUG = TRUE
  MaxLevel = 1
  MaxNesting = 2
  MaxArgs = 1
  MaxLeaves = 1
  MaxDefs = 1
  MaxParams = 1
  MaxLeaked = 1
INVARIANTS
  InStep
  ClosedFormulas
  FormulasInScope
PROPERTY
  Implements
CHECK_DEADLOCK FALSE
