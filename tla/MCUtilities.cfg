CONSTANTS
  Formulas <- MCFormulas
  Substitutions <- MCSubstitutions
  Derivations <- MCDerivations
  Aborts <- MCAborts
  ValueOps <- MCValueOps
  SortOf <- MCSortOf
  MaxVisits = 2
  BooleanFormulas <- MCBooleanFormulas
  Declared <- MCDeclared
  MaxConverted = 2
  Assumptions <- MCAssumptions
  Conflicts <- MCConflicts
  Transfer <- MCTransfer
  Hash <- MCHash
  Iterations <- MCIterations
  MaxCalls = 2
  Members <- MCMembers
  comp <- MCcomp
  MaxAdds = 4
  MaxLength = 8
  Sources <- MCSources
  Targets <- MCTargets
  Declarable <- MCDeclarable
  Kinds <- MCKinds
  Debug = TRUE
  MaxTransfers = 2
  Operators <- MCOperators
  ArgumentSorts <- MCArgumentSorts
SPECIFICATION RoutineSpec
INVARIANTS
  Walked CnfFaithful Reduced SetsAndNetworks  Inferred
PROPERTY
  CallsEnd
CHECK_DEADLOCK FALSE
