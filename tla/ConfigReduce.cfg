SPECIFICATION ReduceSpec
CONSTANTS
  A = A
  B = B
  x = x
  y = y
  k1 = k1
  k2 = k2
  None = None
  MaxWrites = 1
  Otherwise = Otherwise
  Base <- MCBase
  Schema <- MCBase
  VariantIds = VariantIds
  Position <- MCPosition
  Conditions <- MCConditions
  Queries <- MCQueries
  Keys = {k1, k2}
  Atoms = {x, y}
  Fields = {}
  Values <- MCValues
  Default <- MCDefault
INVARIANTS
  ReduceNestedSound
  ReductionInvisible

