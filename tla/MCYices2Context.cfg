SPECIFICATION Spec
CONSTANTS
  m1 = m1
  m2 = m2
  Models <- MCModels
  Formulas <- MCFormulas
  Wrap = 2
  MaxDepth = 3
  MaxLevels = 4
INVARIANTS
  LevelsAgree
  ContextLevelRight
  NoYicesError
PROPERTY
  Implements
