SPECIFICATION Spec
CONSTANTS
  Backends = {"btor", "bitwuzla", "cvc5", "msat", "yices2", "z3"}
  Signatures <- MCSignatures
  Leaf <- MCLeaf
CHECK_DEADLOCK FALSE
INVARIANTS
  Means
  VariadicAccepted
  RoundTrip
