SPECIFICATION Spec
CONSTANTS
  WTerms <- MCWTerms
  Hash <- MCHash
  Sorts <- MCSorts
  Values <- MCValues
  Names <- MCNames
  WSymbol <- MCWSymbol
  WParam <- MCWParam
  Ops <- MCOps
  WApply <- MCWApply
  WConstArray <- MCWConstArray
  ComputeSort <- MCComputeSort
  IsArray <- MCIsArray
  ElemSort <- MCElemSort
  IndexSort <- MCIndexSort
  HasValue <- MCHasValue
  BoolSort = "Bool"
  NoOp = "null"
  NoName = "none"
  Store = "Store"
  NDEBUG = FALSE
  MaxTerms = 3
  MaxResets = 1
  MaxAssumptions = 3
INVARIANTS
  NoTwins
  UniqueIds
  AsRequested
  ChildrenInTable
  CoreFromAssumptions
\* no more terms and resets than the bounds: the client stops
CHECK_DEADLOCK FALSE
