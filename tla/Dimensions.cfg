SPECIFICATION RequestSpec
CONSTANTS
  VariantIds = VariantIds
  a = a
  b = b
  c = c
  None = None
  Names <- MCNames
  Conditions <- MCConditions
  Workers = {w1}
INVARIANTS
  GraphExact
  ContextsWellFormed
PROPERTIES
  RecomputeRanks
  ImplementsList
