SPECIFICATION Spec
CONSTANTS
  SymbolNames = {"t_2"}
  ParamNames = {"x", "t_2"}
  SortNames = {"U"}
  BoolValues = {FALSE}
  ValueSorts = {}
  Numbered <- MCNumbered
  Counts = {1, 2}
  MaxTerms = 2
  MaxHeld = 3
  MaxLevel = 2
  MayRefuse = TRUE
CHECK_DEADLOCK FALSE
INVARIANTS NamesMean GlobalNamesKnown LevelsAgree CoreFromAssumptions
