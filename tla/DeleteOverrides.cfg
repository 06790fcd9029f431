\* Two keys with two values, a control variant and two that delete.
SPECIFICATION Spec
SYMMETRY DataSymmetry
CONSTANTS
  Keys = {k1, k2}
  Values = {x, y}
  NumVariants = 3
  Offered <- MCOffered
  None = None
PROPERTY
  ConcludeAsServed
