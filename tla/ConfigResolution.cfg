SPECIFICATION Spec
CONSTANTS
  A = A
  R = R
  L = L
  Otherwise = Otherwise
  Base <- MCBase
  Schema <- MCSchema
  x = x
  y = y
  f = f
  g = g
  k1 = k1
  k2 = k2
  VariantIds = VariantIds
  Position <- MCPosition
  Conditions <- MCConditions
  Queries <- MCQueries
  Keys = {k1, k2}
  Atoms = {x, y}
  Fields = {f, g}
  Values <- MCValues
  Default <- MCDefault
INVARIANTS
  ResolvesByWeight
  FilterCommutes
