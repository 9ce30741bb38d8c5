CONSTANTS
  Formulas <- MCFormulas
  Substitutions <- MCSubstitutions
  Derivations <- MCDerivations
  Aborts <- MCAborts
  ValueOps <- MCValueOps
  SortOf <- MCSortOf
  MaxVisits = 2
  BooleanFormulas <- NestedFormulas
  Declared <- MCDeclared
  MaxConverted = 1
  Assumptions <- MCAssumptions
  Conflicts <- MCConflicts
  Transfer <- MCTransfer
  Hash <- MCHash
  Iterations <- MCIterations
  MaxCalls = 2
  Members <- MCMembers
  comp <- MCcomp
  MaxAdds = 4
  MaxLength = 8
  Sources <- MCSources
  Targets <- MCTargets
  Declarable <- MCDeclarable
  Kinds <- MCKinds
  Debug = TRUE
  MaxTransfers = 1
  Operators <- MCOperators
  ArgumentSorts <- MCArgumentSorts
SPECIFICATION RoutineSpec
INVARIANT Equisatisfiable
CHECK_DEADLOCK FALSE
