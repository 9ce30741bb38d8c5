SPECIFICATION Spec
CONSTANTS
  m1 = m1
  m2 = m2
  Backends = {"btor", "bitwuzla", "cvc5", "msat", "msat_itp", "z3"}
  Models <- MCModels
  Formulas <- MCFormulas
  Literals <- MCLiterals
  Assumptions <- MCAssumptions
  max_assump_clauses_ = 2
  MaxDepth = 2
  MaxLevel = 4
  MaxClauses = 4
INVARIANTS
  LevelRight
  CoreRight
  InterpolantsIndependent
PROPERTY
  Implements
